--------------------------- MODULE CustomerDemands ---------------------------
(***************************************************************************)
(* Customer demands of one producer for one product: needs/                *)
(* external_demands.py, with the need it generates from their deficit, the *)
(* stock they are delivered from and the marketplace that sells the same   *)
(* stock.  Requests run concurrently.  A request is a session: its         *)
(* transaction reads committed rows and its own writes, holds the rows it  *)
(* wrote or locked, and its writes appear when it commits.                 *)
(*                                                                         *)
(* The stock's public listings are one row here: what they still offer and *)
(* what is sold from them.  Private proposals are left to Trading.         *)
(***************************************************************************)
EXTENDS DemandPlan

CONSTANTS
  Demands,           \* external_customer_demands rows
  Needs,             \* needs rows with source_system CUSTOMER_DEMAND
  Sessions,          \* requests in progress
  None,              \* SQL NULL
  DemandQuantities,  \* quantities typed in the demand form
  DemandDates,       \* delivery dates typed in the demand form
  StockQuantities,   \* quantities typed in the stock form, and at the start
  ForecastFree,      \* quantities left in the production forecast
  ForecastDate,      \* the date it is available from
  MaxPlanned,        \* bound: no more is ordered for a need than this
  MaxStock           \* bound: no receipt takes the stock above this

ASSUME DemandsAssumption ==
  /\ IsFiniteSet(Demands) /\ None \notin Demands \cup Needs
  /\ DemandQuantities \subseteq Nat \ {0} /\ DemandDates \subseteq Nat
  /\ StockQuantities \subseteq Nat /\ ForecastFree \subseteq Nat
  /\ ForecastDate \in Nat /\ NoDate \notin Nat
  /\ MaxPlanned \in Nat /\ MaxStock \in Nat

VARIABLES
  demand,     \* external_customer_demands
  delivered,  \* by demand, the goods of its EXTERNAL_DEMAND stock movements
  stock,      \* stocks: current, reserved and safety quantity, and what its
              \* public listings offer
  forecast,   \* what production_forecasts has free, from ForecastDate on
  need,       \* the needs generated from the demands
  session     \* requests in progress

vars == <<demand, delivered, stock, forecast, need, session>>

DemandStatuses == {"OPEN", "FULFILLED", "CANCELLED"}
UnusedDemand == [status |-> "UNUSED", quantity |-> 0, date |-> NoDate,
                 need |-> None]
UnusedGenerated == [status |-> "UNUSED", required |-> 0, date |-> NoDate,
                    published |-> FALSE, planned |-> 0, completed |-> 0]
Idle == [pc |-> "idle", op |-> "none", of |-> None, quantity |-> 0,
         date |-> NoDate, sum |-> 0, deficit |-> 0, first |-> NoDate,
         need |-> None]

\* Every row and every session has its type.
DemandsTypeOK ==
  /\ demand \in [Demands ->
       [status : DemandStatuses \cup {"UNUSED"}, quantity : Nat,
        date : DemandDates \cup {NoDate}, need : Needs \cup {None}]]
  /\ delivered \in [Demands -> Nat]
  /\ stock \in [current : Nat, reserved : Nat, safety : Nat, offered : Nat]
  /\ forecast \in ForecastFree
  /\ need \in [Needs ->
       [status : {"UNUSED", "OPEN", "PARTIALLY_COVERED", "COVERED", "IGNORED"},
        required : Nat, date : DemandDates \cup {NoDate}, published : BOOLEAN,
        planned : Nat, completed : Nat]]
  /\ session \in [Sessions ->
       [pc : {"idle", "waiting", "holding", "written", "summed", "safe",
              "planned"},
        op : {"none", "save", "cancel", "fulfil", "sync"},
        of : Demands \cup {None}, quantity : Nat,
        date : DemandDates \cup {NoDate}, sum : Nat, deficit : Nat,
        first : DemandDates \cup {NoDate}, need : Needs \cup {None}]]

Init ==
  /\ demand = [d \in Demands |-> UnusedDemand]
  /\ delivered = [d \in Demands |-> 0]
  /\ stock \in [current : StockQuantities, reserved : {0}, safety : {0},
                offered : {0}]
  /\ forecast \in ForecastFree
  /\ need = [n \in Needs |-> UnusedGenerated]
  /\ session = [s \in Sessions |-> Idle]

(***************************************************************************)
(* The plan over the rows a transaction sees.                              *)
(***************************************************************************)
Active(rows) == {d \in Demands : rows[d].status = "OPEN"}

Asked(rows) == [d \in Active(rows) |-> rows[d]]

Lots == [f \in {"forecast"} |-> [free |-> forecast, date |-> ForecastDate]]

\* _stock_available_quantity: what is reserved is taken off twice, as part
\* of the stock row and as part of the listings.
StockAvailable(row) ==
  Monus(row.current - row.reserved, row.offered + row.reserved)

DeficitOf(rows, row) == MaxDeficit(Asked(rows), Lots, StockAvailable(row))

FirstDateOf(rows, row) ==
  FirstDeficitDate(Asked(rows), Lots, StockAvailable(row))

SumOfActive(rows) ==
  Total(Active(rows), [d \in Demands |-> rows[d].quantity])

\* get_max_publishable_quantity for the stock: the margin of the plan, or
\* without demands what is neither reserved nor offered.
StockPublishable ==
  IF Active(demand) # {}
  THEN Sellable(Asked(demand), Lots, StockAvailable(stock))
  ELSE Monus(Monus(stock.current, stock.reserved),
             stock.offered + stock.reserved)

(***************************************************************************)
(* The advice of the recommendation wizard, for the generated need n or    *)
(* None: _build_metrics_from_commitment_state.                             *)
(***************************************************************************)
\* Faulty variant of BuyQuantity: what is on its way is bought again.
BuyDeficit(n) == DeficitOf(demand, stock)

BuyQuantity(n) ==
  Monus(DeficitOf(demand, stock), IF n = None THEN 0 ELSE need[n].planned)

\* available_stock_now: what the plan starts from, or without demands what is
\* not reserved, the offers included.
AvailableNow ==
  IF Active(demand) = {} THEN Monus(stock.current, stock.reserved)
  ELSE StockAvailable(stock)

\* The state by which the wizard marks the product, and what it calls
\* sellable.
ProductState == StockState(Asked(demand), Lots, AvailableNow)

SellQuantity == Sellable(Asked(demand), Lots, AvailableNow)

\* The list of the product in the wizard, and the direction of its advice.
Direction(n) ==
  IF BuyQuantity(n) > 0 THEN "BUY"
  ELSE IF ProductState = "excess" /\ SellQuantity > 0 THEN "SELL" ELSE "BALANCED"

\* _recommendation_ui_meta: whether the wizard has a button to go on.
WizardGoesOn(n) == Direction(n) \in {"BUY", "SELL"}

\* recommendations_generate_view: what may be asked of a purchase, once the
\* need is synchronised.
CanGenerate(n, quantity) ==
  Direction(n) = "BUY" /\ n # None /\ quantity \in 1..BuyQuantity(n)

\* _build_sell_recommendation_context: its button publishes this much, when
\* nothing of the stock is on offer that could be edited instead.
SaleButton(quantity) ==
  IF stock.offered > 0 THEN 0 ELSE Least(quantity, StockPublishable)

(***************************************************************************)
(* The other screens that show the same plan.                              *)
(***************************************************************************)
\* stock_state: the button of the stock page, and how much it calls
\* publishable.
StockButton ==
  [critical |-> "recommend", warning |-> "monitor", excess |-> "publish",
   normal |-> "marketplace"][ProductState]

ShownPublishable ==
  IF ProductState \in {"critical", "warning"} THEN 0 ELSE SellQuantity

\* _critical_stock_candidates
CriticalAlert == DeficitOf(demand, stock) > 0

\* Faulty variant of SurplusNamed: what is on offer is named again.
SurplusWithOffers == SellQuantity

\* What the surplus alert calls publishable.
SurplusNamed == IF Active(demand) = {} THEN StockPublishable ELSE SellQuantity

\* _surplus_candidates
SurplusAlert == SurplusNamed > 0 /\ 10 * SurplusNamed > SumOfActive(demand)

\* Faulty variant of OnMarket: what is sold and not delivered is left out.
OnOffer == stock.offered

\* What evaluate_external_demand_conflict_with_listings counts.
OnMarket == stock.offered + stock.reserved

\* The warning that follows a demand that was saved.
WarnsOfListings == DeficitOf(demand, stock) > 0 /\ OnMarket > 0

(***************************************************************************)
(* The generated need.                                                     *)
(***************************************************************************)
\* _lock_need_for_customer_demand_sync: the last updated need that is not
\* ignored; any of them here.
LiveNeeds == {n \in Needs : need[n].status \notin {"UNUSED", "IGNORED"}}

LockableNeeds == IF LiveNeeds = {} THEN {None} ELSE LiveNeeds

\* resolve_need_status, for a need with source CUSTOMER_DEMAND
ResolvedNeed(row, deficit) ==
  IF deficit = 0 \/ row.completed >= row.required THEN "COVERED"
  ELSE IF row.planned > 0 THEN "PARTIALLY_COVERED"
  ELSE "OPEN"

\* Faulty variant of RecalculatedGenerated: a covered need stays published.
RecalculatedOnly(row, deficit) ==
  IF row.status = "IGNORED" THEN row
  ELSE [row EXCEPT !.status = ResolvedNeed(row, deficit)]

\* recalculate_need_status
RecalculatedGenerated(row, deficit) ==
  IF row.status = "IGNORED" THEN row
  ELSE [row EXCEPT !.status = ResolvedNeed(row, deficit),
                   !.published = @ /\ ResolvedNeed(row, deficit) # "COVERED"]

\* Faulty variant of SyncedRow: new terms for a published need.
SyncedInPlace(row, deficit, first, fresh) ==
  IF deficit = 0 THEN [row EXCEPT !.status = "COVERED", !.published = FALSE]
  ELSE RecalculatedGenerated([row EXCEPT !.required = deficit, !.date = first], fresh)

\* The need row that sync_need_from_external_demands leaves, for a plan with
\* this deficit and first date; fresh is the deficit it recalculates with.
SyncedRow(row, deficit, first, fresh) ==
  IF deficit = 0 THEN [row EXCEPT !.status = "COVERED", !.published = FALSE]
  ELSE RecalculatedGenerated(
         [row EXCEPT !.required = deficit, !.date = first,
                     !.published = @ /\ row.required = deficit /\ row.date = first],
         fresh)

\* The need tables it may leave from rows and the need it links the demands
\* to, when it found the need n or none.
NeedSyncs(rows, n, deficit, first, fresh) ==
  IF n # None
  THEN {[rows |-> [rows EXCEPT ![n] = SyncedRow(@, deficit, first, fresh)],
         link |-> n]}
  ELSE IF deficit = 0 THEN {[rows |-> rows, link |-> None]}
  ELSE {[rows |-> [rows EXCEPT ![m] = SyncedRow(@, deficit, first, fresh)],
         link |-> m] : m \in {k \in Needs : rows[k].status = "UNUSED"}}

\* _set_external_demands_generated_need
Linked(rows, n) ==
  [d \in Demands |->
     IF rows[d].status = "OPEN" THEN [rows[d] EXCEPT !.need = n]
     ELSE IF rows[d].need = n THEN [rows[d] EXCEPT !.need = None]
     ELSE rows[d]]

(***************************************************************************)
(* Locks.  A session that saved, cancelled or is delivering a demand holds *)
(* its row, unless it has just inserted it; one that holds the stock also  *)
(* holds the need it found.                                                *)
(***************************************************************************)
LockedDemands(s) ==
  IF session[s].pc \in {"waiting", "holding"}
  THEN {d \in {session[s].of} : demand[d].status # "UNUSED"} ELSE {}

StockFree == \A s \in Sessions : session[s].pc # "holding"

NeedFree(n) ==
  \A s \in Sessions : session[s].pc = "holding" => session[s].need # n

\* Nobody else holds a demand that s updates in Linked.
LinksFree(s) ==
  \A t \in Sessions \ {s} :
    \A d \in LockedDemands(t) : demand[d].status # "OPEN"

UnclaimedDemand(d) == \A s \in Sessions : session[s].of # d

(***************************************************************************)
(* Sessions that change a demand.                                          *)
(***************************************************************************)
\* The demand table as the transaction of session r sees it.
Written(r) ==
  CASE r.op = "save" ->
         [demand EXCEPT ![r.of].status = "OPEN", ![r.of].quantity = r.quantity,
                        ![r.of].date = r.date]
    [] r.op = "cancel" -> [demand EXCEPT ![r.of].status = "CANCELLED"]
    [] r.op = "fulfil" -> [demand EXCEPT ![r.of].status = "FULFILLED"]
    [] OTHER -> demand

\* create_external_customer_demand and update_external_customer_demand up to
\* the sum that sync_safety_stock_from_external_demands takes before it
\* locks the stock.
SaveDemand(s, d, quantity, date) ==
  LET r == [Idle EXCEPT !.pc = "waiting", !.op = "save", !.of = d,
                        !.quantity = quantity, !.date = date]
  IN  /\ session[s] = Idle
      /\ UnclaimedDemand(d)
      /\ demand[d].status \in {"UNUSED", "OPEN"}
      /\ session' = [session EXCEPT ![s] =
                       [r EXCEPT !.sum = SumOfActive(Written(r))]]
      /\ UNCHANGED <<demand, delivered, stock, forecast, need>>

\* cancel_external_customer_demand up to the same sum.
CancelDemand(s, d) ==
  LET r == [Idle EXCEPT !.pc = "waiting", !.op = "cancel", !.of = d]
  IN  /\ session[s] = Idle
      /\ UnclaimedDemand(d)
      /\ demand[d].status = "OPEN"
      /\ session' = [session EXCEPT ![s] =
                       [r EXCEPT !.sum = SumOfActive(Written(r))]]
      /\ UNCHANGED <<demand, delivered, stock, forecast, need>>

\* Faulty variant of FulfilDemand: a delivered demand is delivered again.
FulfilAgain(s, d) ==
  /\ session[s] = Idle
  /\ UnclaimedDemand(d)
  /\ demand[d].status \in {"OPEN", "FULFILLED"}
  /\ session' = [session EXCEPT ![s] =
                   [Idle EXCEPT !.pc = "waiting", !.op = "fulfil", !.of = d]]
  /\ UNCHANGED <<demand, delivered, stock, forecast, need>>

\* mark_external_customer_demand_fulfilled up to the lock of the stock.  A
\* demand that already has a movement is FULFILLED, and nothing happens.
FulfilDemand(s, d) ==
  /\ session[s] = Idle
  /\ UnclaimedDemand(d)
  /\ demand[d].status = "OPEN"
  /\ session' = [session EXCEPT ![s] =
                   [Idle EXCEPT !.pc = "waiting", !.op = "fulfil", !.of = d]]
  /\ UNCHANGED <<demand, delivered, stock, forecast, need>>

\* Faulty variant of DeliveredStock: the public listings are left alone.
DeliveredUncut(quantity) == [stock EXCEPT !.current = @ - quantity]

\* The stock after a delivery of quantity to a customer: the goods leave and
\* the listings are cut to what is left unreserved.
DeliveredStock(quantity) ==
  LET left == stock.current - quantity
  IN  [stock EXCEPT !.current = left,
                    !.offered = Least(@, Monus(left, stock.reserved))]

\* Faulty variant of CanDeliver: reserved goods are delivered as well.
CanDeliverAll(d) == demand[d].quantity <= stock.current

\* mark_external_customer_demand_fulfilled does not touch reserved goods.
CanDeliver(d) == demand[d].quantity <= stock.current - stock.reserved

\* The stock as the transaction of session r sees it.
StockSeen(r) ==
  IF r.op = "fulfil" THEN DeliveredStock(demand[r.of].quantity) ELSE stock

\* The lock of the stock and what follows up to the need: a delivery checks
\* and takes the goods and only now sums the demands, the others have their
\* sum already; then the plan, and the lock of the need if there is one.
LockStock(s) ==
  LET r == session[s]
  IN  /\ r.pc = "waiting"
      /\ StockFree
      /\ r.op = "fulfil" => CanDeliver(r.of)
      /\ \E n \in LockableNeeds :
           session' = [session EXCEPT ![s].pc = "holding", ![s].need = n,
             ![s].sum = IF r.op = "fulfil" THEN SumOfActive(Written(r)) ELSE @,
             ![s].deficit = DeficitOf(Written(r), StockSeen(r)),
             ![s].first = FirstDateOf(Written(r), StockSeen(r))]
      /\ UNCHANGED <<demand, delivered, stock, forecast, need>>

\* The delivery is refused for want of stock, and rolled back.
RefuseDelivery(s) ==
  /\ session[s].pc = "waiting"
  /\ session[s].op = "fulfil"
  /\ StockFree
  /\ ~CanDeliver(session[s].of)
  /\ session' = [session EXCEPT ![s] = Idle]
  /\ UNCHANGED <<demand, delivered, stock, forecast, need>>

\* The need, the links of the demands and the commit of everything.
Commit(s) ==
  LET r == session[s]
      row == [StockSeen(r) EXCEPT !.safety = r.sum]
  IN  /\ r.pc = "holding"
      /\ LinksFree(s)
      /\ \E sync \in NeedSyncs(need, r.need, r.deficit, r.first,
                               DeficitOf(Written(r), row)) :
           /\ need' = sync.rows
           /\ demand' = Linked(Written(r), sync.link)
      /\ stock' = row
      /\ delivered' = IF r.op = "fulfil"
                      THEN [delivered EXCEPT ![r.of] = @ + demand[r.of].quantity]
                      ELSE delivered
      /\ session' = [session EXCEPT ![s] = Idle]
      /\ UNCHANGED forecast

(***************************************************************************)
(* Requests that change the stock or the forecast and then synchronise in  *)
(* transactions of their own (_sync_external_customer_demands_after_       *)
(* inventory_change), whose failure is only logged.  One such request is   *)
(* in progress at a time, a bound.                                         *)
(***************************************************************************)
StartSync(s, pc) ==
  /\ session[s] = Idle
  /\ \A t \in Sessions : session[t].op # "sync"
  /\ session' = [session EXCEPT ![s] = [Idle EXCEPT !.pc = pc, !.op = "sync"]]

\* atualizar_stock: without confirmation a decrease has to leave what is
\* offered covered, with it the listings are cut.
SubmitStockForm(s, quantity) ==
  /\ StartSync(s, "written")
  /\ StockFree
  /\ quantity >= stock.reserved
  /\ quantity # stock.current
  /\ \/ /\ quantity < stock.current => stock.reserved + stock.offered <= quantity
        /\ stock' = [stock EXCEPT !.current = quantity]
     \/ stock' = [stock EXCEPT !.current = quantity,
                     !.offered = Least(@, quantity - stock.reserved)]
  /\ UNCHANGED <<demand, delivered, forecast, need>>

\* guardar_previsao, eliminar_previsao: what the forecast has free changes.
SubmitForecastForm(s, quantity) ==
  /\ StartSync(s, "written")
  /\ quantity # forecast
  /\ forecast' = quantity
  /\ UNCHANGED <<demand, delivered, stock, need>>

\* The recommendation wizard synchronises the need alone, when there is a
\* deficit and no need for it.
OpenWizard(s) ==
  /\ StartSync(s, "safe")
  /\ DeficitOf(demand, stock) > 0
  /\ LiveNeeds = {}
  /\ UNCHANGED <<demand, delivered, stock, forecast, need>>

\* sync_safety_stock_from_external_demands: the sum, then the stock row.
SumDemands(s) ==
  /\ session[s].pc = "written"
  /\ session' = [session EXCEPT ![s].pc = "summed", ![s].sum = SumOfActive(demand)]
  /\ UNCHANGED <<demand, delivered, stock, forecast, need>>

WriteSafetyStock(s) ==
  /\ session[s].pc = "summed"
  /\ StockFree
  /\ stock' = [stock EXCEPT !.safety = session[s].sum]
  /\ session' = [session EXCEPT ![s].pc = "safe", ![s].sum = 0]
  /\ UNCHANGED <<demand, delivered, forecast, need>>

\* sync_need_from_external_demands in a transaction of its own: the plan is
\* read without any lock, then the need is locked and written.
ReadPlan(s) ==
  /\ session[s].pc = "safe"
  /\ session' = [session EXCEPT ![s].pc = "planned",
                   ![s].deficit = DeficitOf(demand, stock),
                   ![s].first = FirstDateOf(demand, stock)]
  /\ UNCHANGED <<demand, delivered, stock, forecast, need>>

WriteNeed(s) ==
  /\ session[s].pc = "planned"
  /\ LinksFree(s)
  /\ \E n \in LockableNeeds :
       /\ NeedFree(n)
       /\ \E sync \in NeedSyncs(need, n, session[s].deficit, session[s].first,
                                DeficitOf(demand, stock)) :
            /\ need' = sync.rows
            /\ demand' = Linked(demand, sync.link)
  /\ session' = [session EXCEPT ![s] = Idle]
  /\ UNCHANGED <<delivered, stock, forecast>>

\* A request fails and its transaction is rolled back: an error that the view
\* logs, a lost connection, or the choice of PostgreSQL when two requests on
\* different demands deadlock, one with the stock waiting in Linked for the
\* demand of the other and the other waiting for the stock.
RollBack(s) ==
  /\ session[s] # Idle
  /\ session' = [session EXCEPT ![s] = Idle]
  /\ UNCHANGED <<demand, delivered, stock, forecast, need>>

(***************************************************************************)
(* The marketplace, as far as the plan reads it.                           *)
(***************************************************************************)
\* create_listing on the stock
PublishStock(quantity) ==
  /\ StockFree
  /\ quantity <= StockPublishable
  /\ stock' = [stock EXCEPT !.offered = @ + quantity]
  /\ UNCHANGED <<demand, delivered, forecast, need, session>>

\* An order reserves part of what is offered, or is cancelled.
SellStock(quantity) ==
  /\ StockFree
  /\ quantity <= stock.offered
  /\ stock.reserved + quantity <= stock.current
  /\ stock' = [stock EXCEPT !.offered = @ - quantity, !.reserved = @ + quantity]
  /\ UNCHANGED <<demand, delivered, forecast, need, session>>

CancelSale(quantity) ==
  /\ StockFree
  /\ quantity <= stock.reserved
  /\ stock' = [stock EXCEPT !.offered = @ + quantity, !.reserved = @ - quantity]
  /\ UNCHANGED <<demand, delivered, forecast, need, session>>

\* The buyer confirms receipt of a sale.
DeliverSale(quantity) ==
  /\ StockFree
  /\ quantity <= stock.reserved
  /\ stock' = [stock EXCEPT !.current = @ - quantity, !.reserved = @ - quantity]
  /\ UNCHANGED <<demand, delivered, forecast, need, session>>

\* retire_listing
RetireOffer ==
  /\ stock.offered > 0
  /\ stock' = [stock EXCEPT !.offered = 0]
  /\ UNCHANGED <<demand, delivered, forecast, need, session>>

\* publish_need_to_marketplace, which checks a fresh plan.
PublishGenerated(n) ==
  /\ need[n].status \in {"OPEN", "PARTIALLY_COVERED"}
  /\ NeedFree(n)
  /\ ~need[n].published
  /\ need[n].planned < need[n].required
  /\ DeficitOf(demand, stock) > 0
  /\ need' = [need EXCEPT ![n].published = TRUE]
  /\ UNCHANGED <<demand, delivered, stock, forecast, session>>

\* withdraw_need_from_marketplace
WithdrawGenerated(n) ==
  /\ need[n].published
  /\ NeedFree(n)
  /\ need' = [need EXCEPT ![n].published = FALSE]
  /\ UNCHANGED <<demand, delivered, stock, forecast, session>>

\* ignore_need
IgnoreGenerated(n) ==
  /\ need[n].status \notin {"UNUSED", "IGNORED"}
  /\ NeedFree(n)
  /\ need' = [need EXCEPT ![n].status = "IGNORED"]
  /\ UNCHANGED <<demand, delivered, stock, forecast, session>>

\* Orders for the need are confirmed or cancelled, and recalculate it.
PlanPurchase(n, planned) ==
  /\ need[n].status # "UNUSED"
  /\ NeedFree(n)
  /\ planned # need[n].planned
  /\ planned \in need[n].completed..MaxPlanned
  /\ need' = [need EXCEPT ![n] =
       RecalculatedGenerated([@ EXCEPT !.planned = planned], DeficitOf(demand, stock))]
  /\ UNCHANGED <<demand, delivered, stock, forecast, session>>

\* confirm_order_receipt of what was ordered for the need n: the goods enter
\* the stock, the demands are synchronised in the same transaction, and the
\* need is recalculated.
ReceivePurchase(n) ==
  LET quantity == need[n].planned - need[n].completed
      row == [stock EXCEPT !.current = @ + quantity, !.safety = SumOfActive(demand)]
      received == [need EXCEPT ![n].completed = @ + quantity]
      deficit == DeficitOf(demand, row)
  IN  /\ need[n].status # "UNUSED"
      /\ quantity > 0
      /\ stock.current + quantity <= MaxStock
      /\ StockFree
      /\ \A s \in Sessions : LockedDemands(s) = {}
      /\ \E m \in LockableNeeds :
          \E sync \in NeedSyncs(received, m, deficit, FirstDateOf(demand, row), deficit) :
            /\ need' = [sync.rows EXCEPT ![n] = RecalculatedGenerated(@, deficit)]
            /\ demand' = Linked(demand, sync.link)
      /\ stock' = row
      /\ UNCHANGED <<delivered, forecast, session>>

SessionStep(s) ==
  \/ \E d \in Demands :
       \/ \E quantity \in DemandQuantities, date \in DemandDates :
            SaveDemand(s, d, quantity, date)
       \/ CancelDemand(s, d)
       \/ FulfilDemand(s, d)
  \/ LockStock(s) \/ RefuseDelivery(s) \/ Commit(s)
  \/ \E quantity \in StockQuantities : SubmitStockForm(s, quantity)
  \/ \E quantity \in ForecastFree : SubmitForecastForm(s, quantity)
  \/ OpenWizard(s)
  \/ SumDemands(s) \/ WriteSafetyStock(s) \/ ReadPlan(s) \/ WriteNeed(s)
  \/ RollBack(s)

MarketStep ==
  \/ \E quantity \in 1..MaxStock :
       \/ stock.offered + quantity <= MaxStock /\ PublishStock(quantity)
       \/ SellStock(quantity)
       \/ CancelSale(quantity)
       \/ DeliverSale(quantity)
  \/ RetireOffer
  \/ \E n \in Needs :
       \/ PublishGenerated(n) \/ WithdrawGenerated(n) \/ IgnoreGenerated(n)
       \/ \E planned \in 0..MaxPlanned : PlanPurchase(n, planned)
       \/ ReceivePurchase(n)

Next == MarketStep \/ \E s \in Sessions : SessionStep(s)

Spec == Init /\ [][Next]_vars

(***************************************************************************)
(* Properties.                                                             *)
(***************************************************************************)
\* A demand is delivered once and in the quantity it then has: whatever
\* requests raced on it, its stock movements carry exactly the quantity of a
\* FULFILLED demand and nothing of any other.
DeliveredAsAsked ==
  \A d \in Demands :
    delivered[d] = IF demand[d].status = "FULFILLED" THEN demand[d].quantity ELSE 0

\* A delivery to a customer never takes goods that an order has reserved.
ReservedGoodsStay == stock.reserved <= stock.current

\* The delivery of a demand leaves what the listings still offer within what
\* is left unreserved, whatever was offered before it.
DeliveryCutsOffers ==
  [][\A d \in Demands :
       demand'[d].status = "FULFILLED" /\ demand[d].status # "FULFILLED" =>
         stock'.offered + stock'.reserved <= stock'.current]_vars

\* A published need keeps the quantity and the date that other producers
\* answer: recalculation takes it off the marketplace before changing them.
PublishedTermsStay ==
  [][\A n \in Needs :
       need[n].published /\ need'[n].published =>
         need'[n].required = need[n].required /\ need'[n].date = need[n].date]_vars

\* A generated need that is covered asks nobody for anything, however its
\* publication, its orders and the synchronisations interleave.
CoveredNotPublished ==
  \A n \in Needs : need[n].status = "COVERED" => ~need[n].published

\* Whether the demands can all be served in time from free units now and the
\* forecast: each takes part of what it asks from the stock and the rest,
\* if it is due late enough, from the forecast.
Servable(asked, free) ==
  \E part \in [DOMAIN asked -> UNION {0..asked[d].quantity : d \in DOMAIN asked}] :
    LET rest == [d \in DOMAIN asked |-> Monus(asked[d].quantity, part[d])]
    IN  /\ Total(DOMAIN asked, part) <= free
        /\ Total(DOMAIN asked, rest) <= forecast
        /\ \A d \in DOMAIN asked : asked[d].date < ForecastDate => rest[d] = 0

\* The deficit the plan reports, which a generated need asks for, is the
\* least quantity that has to be added to the free stock for every open
\* demand to be delivered in time.
DeficitIsLeastPurchase ==
  LET asked == Asked(demand)
      free == StockAvailable(stock)
      deficit == MaxDeficit(asked, Lots, free)
  IN  /\ Servable(asked, free + deficit)
      /\ deficit > 0 => ~Servable(asked, free + deficit - 1)

\* What the plan calls sellable, as long as it is in stock, can be sold
\* without endangering a demand, and one unit more cannot.
SellableIsSafe ==
  LET asked == Asked(demand)
      free == StockAvailable(stock)
      sold == Least(Sellable(asked, Lots, free), free)
  IN  MaxDeficit(asked, Lots, free) = 0 =>
        /\ Servable(asked, free - sold)
        /\ sold < free => ~Servable(asked, free - sold - 1)

\* What the wizard advises for the need n, counting what is already on its
\* way: the purchase it proposes is enough, it accepts no quantity that is
\* not needed, and it advises a sale, or nothing, only when the demands can
\* be served.  That is so while nothing bought for the need has been
\* received: a receipt enters the stock and lowers the deficit, and goes on
\* being subtracted from it as planned.
AdviceOfWizard(n) ==
  LET asked == Asked(demand)
      free == StockAvailable(stock)
                + (IF n = None THEN 0 ELSE need[n].planned - need[n].completed)
  IN  (n = None \/ need[n].completed = 0) =>
        /\ Servable(asked, free + BuyQuantity(n))
        /\ \A quantity \in 1..MaxStock :
             CanGenerate(n, quantity) => ~Servable(asked, free + quantity - 1)
        /\ Direction(n) # "BUY" => Servable(asked, free)

\* The screens give one advice: a deficit that alerts is what the stock page
\* asks to buy, and the wizard too unless enough is on its way; none of them
\* then urges to sell, and the wizard stops exactly when there is neither.
\* What the surplus alert and the sale of the wizard name, the form that
\* publishes accepts; with demands it is what the stock page shows as well.
ScreensAgree(n) ==
  LET critical == CriticalAlert
      surplus == SurplusAlert
      button == StockButton
      direction == Direction(n)
  IN  /\ critical <=> button = "recommend"
      /\ n = None \/ need[n].planned = 0 => (critical <=> direction = "BUY")
      /\ critical => ~surplus /\ direction # "SELL" /\ ShownPublishable = 0
      /\ surplus => button = "publish" /\ WizardGoesOn(n)
      /\ surplus => SurplusNamed <= StockPublishable
      /\ Active(demand) # {} =>
           /\ surplus <=> button = "publish"
           /\ surplus => SurplusNamed = ShownPublishable
           /\ direction = "SELL" /\ stock.offered = 0 =>
                SaleButton(SellQuantity) = SellQuantity

\* When the demands cannot be served from what is left once everything on
\* the market is delivered, the producer who saves one is warned.
ConflictWarned ==
  LET sold == stock.offered + stock.reserved
  IN  sold > 0 /\ ~Servable(Asked(demand), Monus(stock.current, sold)) => WarnsOfListings

\* The plan is exact, the wizard's advice serves the demands, and no other
\* screen advises otherwise, whatever requests and sales came before.  It
\* speaks of committed rows alone, and RollBack ends any request and leaves
\* them as they are: so it is evaluated where no request is in progress, and
\* holds in the other states, which have the same rows.
AdviceServesDemands ==
  (\A s \in Sessions : session[s] = Idle) =>
    /\ DeficitIsLeastPurchase
    /\ SellableIsSafe
    /\ \A n \in LockableNeeds : AdviceOfWizard(n) /\ ScreensAgree(n)
    /\ ConflictWarned

\* "evitando comprometer o mesmo stock duas vezes" (src/PROJECT_CONTEXT.md:437):
\* what the stock's listings offer and have sold is in stock.
OffersWithinStock == stock.offered + stock.reserved <= stock.current
=============================================================================
