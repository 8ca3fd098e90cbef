# VISION4FARMS in TLA+

A verification development for the VISION4FARMS platform, a Django and
PostgreSQL marketplace in which agricultural producers publish surpluses
(from stock or from a production forecast), ask for what they miss (needs),
order from each other and follow the orders up to their receipt.

The development has TLA+ modules that model the trading core of the platform
and what surrounds it (customer demands and the advice computed from them,
alerts, messages, accounts, support), TLC configurations that check them on
small instances, and TLAPS proofs, for every instance, of every invariant and
action property that the passing runs check, the refinement of the goods ledger
among them. Liveness is model-checked only.

```
tlc -workers 2 -config MCTradingStock.cfg MCTrading     # a run
tlapm TradingProofs.tla                                 # the proofs
```

## 1. The system

### 1.1 Components

| component | state it keeps | operations | what makes it correct |
|---|---|---|---|
| orders (`orders/lifecycle.py`, `reservations.py`, `statuses.py`) | `orders`, `order_items`, `order_status_history`; writes listings, stocks, forecasts, responses, needs | create from a listing or a recommendation, seller confirms, starts, delivers, cancels; buyer cancels, receives | a reservation is neither leaked nor lost; goods held by an order are in stock until it ends; a closed order does not move; the order status follows its items |
| marketplace (`marketplace/commands.py`, `availability.py`, `reconciliation.py`) | `marketplace_listings` | publish, edit, remove, deactivate, reactivate, expire, cut when the stock shrinks | what is offered can be delivered; a removed listing is never offered again; a cut follows the rounding rules |
| needs (`needs/lifecycle.py`, `coverage.py`, `responses.py`) | `needs`, the response columns of private listings | create, edit, ignore, publish, withdraw; send, edit, reject a proposal; recalculate coverage | the stored status of a need follows what is bought for it; a proposal is bought once; a rejected proposal holds nothing |
| external demands (`needs/external_demands.py`) | `external_customer_demands`, the need generated from their deficit, the safety stock | enter, edit, cancel, deliver a demand; plan coverage by date; synchronise need and safety stock | the deficit is the least purchase that serves the demands; a delivery takes goods once and never reserved ones; a published need keeps its terms |
| inventory (`inventory/stock_adjustments.py`, `forecasts.py`) | `stocks`, `stock_movements`, `production_forecasts` | stock form with or without cutting listings; save, delete, assimilate a forecast | reserved quantities equal those of the listings; movements explain the stock |
| inventory products and commitments (`inventory/products.py`, `commitments.py`) | `producer_products` | add, remove, reactivate a product; the state of a stock against its demands | what the state calls sellable endangers no demand |
| recommendations (`recommendations/services.py`, `views.py`) | recommendations and their items | advise to buy or sell, divide a purchase over listings, accept | the advice serves the demands; the plan is the best the offers allow |
| alerts (`alerts/sync.py`, `actions.py`, `events.py`, `candidates.py`) | `alerts` | synchronise with conditions, in requests and in a scheduled job; ignore, reactivate, resolve; expire | a condition that lasts is shown unless dealt with; an alert whose condition is gone closes |
| messaging (`messaging/`) | conversations, participants, messages; websockets of open pages | send a text or a file, load, join, catch up, mark as read, archive | an open page misses no text but by a lost announcement or a full catch-up; what is shown is read; a new message ends the archive |
| accounts (`accounts/`, `dashboard/services/admin_users.py`, `common/session.py`) | `users`, `account_verification_tokens` | register, invite, log in, confirm, reset, suspend, reactivate | the columns of an account agree; an account in use is confirmed and has a password |
| support (`support/`) | tickets and their messages | open, claim, reply, close | a ticket is in one hand; the badge counts who waits |
| notifications, settings, catalog, dashboard, integrations, common | single rows, read-only screens, audit log | forms and screens | no decision of the core depends on them |

### 1.2 Interaction

There are no queues. Every operation of the core is an HTTP request that runs
as one database transaction, in as many server processes as are deployed; beside
them run one scheduled job, which synchronises the alerts, and the consumers of
websockets, for messages and tickets. Components interact through **shared rows** and
through **direct calls** inside a transaction:

* an order transaction reconciles the reservations of the listings it has items
  on (orders -> marketplace), the reservations of their stock or forecast
  (orders -> inventory), the stored response of private proposals and the status
  of needs (orders -> needs), and finally the status of the order itself;
* a receipt also takes goods out of the seller's stock, puts them into the
  buyer's, writes a movement on each side and cuts the seller's other listings
  if the stock no longer covers them (orders -> marketplace reconciliation);
* a publication or an edit asks availability, which reads stock, forecast and
  the other listings of the same source;
* the stock form cuts or retires listings (inventory -> marketplace);
* saving, deleting and assimilating a forecast reads and closes listings;
* after a change of a demand, the stock, a forecast or a receipt, the need
  generated from the demands and the safety stock are written again (inside the
  transaction for demands and receipts, in transactions of their own after the
  stock and forecast forms, whose failure is only logged);
* most requests end with a synchronisation of the producer's alerts, which reads
  what all other components wrote (`candidates.py`) and then locks the alerts;
* pages of a conversation are told of messages through a channel group, and ask
  for what they missed when their socket opens;
* every request of a logged-in user looks its account up again.

Services of the core lock the order row, then listings one by one with the stock
or forecast of each (`SELECT ... FOR UPDATE`), and read after locking. Four
handlers do not: the edit, delete and toggle views of a listing and the stock
form read a row outside any transaction and compute what they write from it. The
handlers of accounts and of the buttons of alerts lock nothing.

### 1.3 What is hard

* Several orders on one listing, each at its own stage, with cancellations from
  both sides at any of them.
* Quantities kept redundantly in three places (items, listings, sources), with
  clamped subtraction that hides a double release.
* Stored statuses (order, need, response, listing) that duplicate what other
  rows say and have to be recalculated by every transaction that changes those.
* Rows read without a lock and written later.
* Rounding in the proportional cut of listings.
* One plan of coverage by date behind five screens, each with corrections of its
  own for what is already on offer.
* Synchronisations that decide on what they read before their lock, while
  conditions, buttons and other synchronisations go on.
* Messages that arrive between loading a page, joining its group and catching up;
  announcements that are lost; read marks written with a time read earlier.
* Requests that break off between two statements, with no transaction around them.
* Among people no step must happen: orders, offers and answers are decisions, so
  that only the job, the server's own steps and time give reasons for fairness.

`PROJECT.json` lists each hazard at its line, and the properties aimed at it.

## 2. Modules

The modules of trading share the database rows as variables, and an action is one
transaction. The other systems have variables of their own and finer actions:
statements, reads and writes, announcements.

```
Quantities                 sums and clamped subtraction
  StockReduction           the arithmetic of a cut (pure)
  RecommendationPlan       a purchase divided over offers (pure)
    Allocations            both, on any small input        <- StockReduction
  Tables                   rows, types, CHECKs, look-ups
    ListingCuts            a cut applied to listing rows   <- StockReduction
      Reservations         orders/reservations.py
      Inventory            stock form and forecasts
    NeedCoverage           coverage, need status, responses
      OrderLifecycle       orders/lifecycle.py, statuses.py <- Reservations
      Marketplace          publication, edits, toggles, proposals, time
      NeedLifecycle        needs/lifecycle.py
        Trading            composition, properties
          Screens          what pages and alerts say of Trading's tables
          TradingRaces     Trading with rows read early
  DemandPlan               coverage by date, state of a stock (pure)
    CustomerDemands        demands, generated need, advice, next to the market
GoodsLedger                abstract specification that Trading implements
Alerts                     rows of alerts, synchronisations, job, buttons
Messaging                  one conversation, its pages and sockets
Accounts                   users, links, requests statement by statement
  SupportDesk              tickets of these users
QuantityLemmas             sums over finite sets, division and shares, least and
                           greatest numbers
  AllocationProofs         cuts of any listings, purchases from any offers
                                                           <- Allocations
  TradingProofs            reservations, orders, needs, stocks and forecasts,
                           the ledger                      <- TradingRaces
    ListingProofs          proposals, removed listings, what is offered,
                           what pages and alerts say, the buttons of an order
                                                           <- Screens
  CustomerDemandsProofs    plans and advice, deliveries, generated needs
AlertsProofs, MessagingProofs, AccountsProofs               theorems
MCTrading, MCTradingRaces, MCCustomerDemands,
MCAlerts, MCMessaging, MCSupportDesk                        instances for TLC
```

| module | code | how state and actions correspond |
|---|---|---|
| `Quantities` | `availability.py` sums | `Total(S, q)` counts pieces `<<x, i>>`, `1 <= i <= q[x]`: a sum without recursion, so that it can be proved about. `Monus` is `max(a - b, 0)`. |
| `StockReduction` | `reconciliation.py:138-167` | `Reductions(q, target)` is the set of results the code may produce for listings in any row order: rounded shares for all but one, and what is left for the last. |
| `Tables` | `sqlscript.sql`, `models.py` | one record per row; SQL NULL is `None`; a row not yet inserted has status `UNUSED` (`NONE` for items). |
| `ListingCuts` | `reconciliation.py` | `CutListings(rows, cut, capacity)` cuts the available quantities of the listings in `cut` to `capacity`, one result per choice of last listing. |
| `Reservations` | `reservations.py` | `ReconciledListing` is the strict `_reconcile_listing_reservation`; `CanReconcile` its refusals; `ReceiveLine` consumes one item at a receipt, and is applied line by line to a record of tables. |
| `NeedCoverage` | `coverage.py`, `responses.py` | status of a need from its items; stored and derived response of a proposal. |
| `OrderLifecycle` | `lifecycle.py`, `statuses.py` | one action per command, each with item changes, reconciliation, responses, needs and the recalculated order status. What a command refuses is an operator of its own (`CanBuyerCancel`, `CanSellerConfirm`, ...), the first conjunct of its action; the others only assign. |
| `Marketplace` | `commands.py`, `availability.py`, views | publish, propose, edit, retire, toggle, reactivate, reject, due dates. `UnlockedListingStep(l, seen)` takes the row the handler read. |
| `NeedLifecycle` | `needs/lifecycle.py` | create, edit, ignore, publish, withdraw. |
| `Inventory` | `stock_adjustments.py`, `forecasts.py`, views | the stock form on the row `seen`, with and without cuts; save, delete, assimilate a forecast. |
| `Trading` | all of the above | `Next`, where unlocked handlers see the current row. |
| `TradingRaces` | views of 487-832 (marketplace) and 643- (inventory) | `listingForm` and `stockForm` hold a row read earlier; any transaction may commit before the handler writes. |
| `GoodsLedger` | the promise of ordering | goods on hand and goods held by each order, nothing else. |
| `Screens` | `orders/views.py`, `presenters.py`, `queries.py`, `needs/marketplace_queries.py`, `alerts/candidates.py` | one operator per button, list, count or alert condition; it only reads, and its properties compare what is shown with what the services accept: the condition of a button in `orders/views.py` with the `Can...` of its command. |
| `DemandPlan` | `external_demands.py:105-279`, `commitments.py` | deficits, first date, sellable margin and state of a stock, as functions of demands, forecasts and what is free. |
| `CustomerDemands` | `external_demands.py`, `needs/views.py`, wizard, stock page, alerts | a session is a request: it waits for the stock with its demand locked and its sum taken, holds stock and need, commits; after a stock or forecast form it sums, writes the safety stock, reads the plan and writes the need in separate transactions. The stock's public listings are one row (`offered`), orders one number (`reserved`). |
| `RecommendationPlan` | `recommendations/services.py:282-469` | `Precedes`, the order of the candidates; `Start`, the locals before the loop; `Allocate`, one turn of it; `Alternatives`. |
| `Allocations` | the two above | a transaction that reads its input and writes its answer: `Reduce` at once, a purchase in one `VisitListing` for each turn of the loop and `SaveRecommendation`, with what is asked of either answer. |
| `Alerts` | `alerts/sync.py`, `actions.py`, `events.py` | a synchronisation reads the conditions, locks the rows, commits or aborts; a button reads an alert and later saves it; `cause[k]` is whether a condition holds, and changes at any time; `newer` is the order by `updated_at` of the ignored alerts of a key. |
| `Messaging` | `messages.py`, `consumers.py`, `unread.py`, `views.py`, the script of the page | a text is stamped, stored, settled and announced in separate statements; a file is announced before its transaction commits. Between two statements anybody else may act: `ReadClock`, `SaveConversation` and `MarkSender` are the three of `messages.py:98-110`, `StartMark` and `WriteMark` those of a page's mark. An announcement reaches any subset of the pages in the group. A page loads, joins, catches up by at most `CatchUpLimit` messages and goes offline. |
| `Accounts` | `accounts/services.py`, `views.py`, `admin_users.py`, `session.py` | a request reads what it decides on, then writes in one or more statements, and can die after any. |
| `SupportDesk` | `support/services.py`, `views.py` | one action per service, each of which locks the ticket. |

An operator named as a *faulty variant* in its comment is used by no action: it
is what the operator after it must not be, and `PROJECT.json` says which property
tells the two apart.

### 2.1 Abstraction

* One product. Stocks, forecasts, listings, needs and items of different
  products never meet in the code.
* Quantities are natural numbers: thousandths of a unit in `StockReduction`,
  where rounding matters, whole units in `Trading`.
* One item per listing and order, as the code creates them.
* Prices, delivery data, order numbers, photos (only whether there is one),
  texts, notifications, audit rows and e-mails are left out.
* Dates are reduced to what the code asks of them: no expiry, still to come, due.
  `DueDatePasses` lets a date pass at any moment; `ExpireDueActiveListings` is the
  sweep that pages run.
* A recommendation is any set of at most `MaxLines` public listings with any
  quantities: what its acceptance orders, not how it was found.
* In `Trading`, producers have no external customer demands; availability is then
  stock (or forecast) minus what is reserved and published. In `CustomerDemands`
  there is one producer and one product, one forecast with one date, and the
  market is what it offers and has sold; purchases for the generated need are the
  two sums its coverage has (planned, completed).
* `Alerts` knows of a condition only whether it holds; which conditions the code
  has is in `Screens` and `CustomerDemands`.
* In `Messaging`, a message is its place in the order of `created_at`, and
  `last_read_at` the number of messages before it; `latestRead` is the latest that
  has been, which only the properties look at. The pages in `Pages` are followed
  from opening to the end of their socket, each once (a page that reconnects is as
  good as a new one); the users in `Elsewhere` have other pages, too, to send from.
  An announcement is delivered to each page at most once: a failure of the channel
  layer, which the code logs, is one that reaches nobody. A page shows all that is
  stored when it loads (the code shows the latest 150).
* In `Accounts`, sessions are not kept: a session is checked against its account
  at every request, so that whoever may log in may act. A link that opens nothing
  any more is no link. Two transactions that create a link for one user at the
  same time are taken as one after the other.
* A transaction that PostgreSQL refuses (a CHECK, `SELECT` of a missing row) is no
  step. `DatabaseChecks'` is a guard where a service can run into a CHECK and an
  invariant of run `stock` for the services that have no such guard.
* `DeleteForecast` requires that no listing refers to the forecast: the foreign
  key would set the listing's forecast to NULL, which the CHECK on its source
  refuses.
* `reactivate_listing` is only offered for cancelled and expired listings by the
  toggle view, and is modelled for those.

## 3. Runs

| run | instance | properties | shows |
|---|---|---|---|
| `reduction` | up to 4 listings of up to 4 thousandths, every target; up to 3 offers of up to 2 units at 3 prices, every quantity | `OverrunBounded`, `OthersProportional`, `BestPlan` | a cut overruns its target by rounding only, at most half a thousandth for every listing beyond the second, and is proportional for all but the last listing; a recommended purchase covers what can be covered, from the best offers |
| `stock` | 2 producers, 2 orders, 2 listings on a stock of 2, at most 2 lines per order, quantities 1..2 | `TypeOK`, `DatabaseChecks`, `ReservationsMatchItems`, `OrderStatusMatchesItems`, `OrderButtonsWork`, `MovementsExplainStock`, `ClosedOrdersStay`, `LedgerSpec` | reservations, movements and statuses agree under every interleaving of order, listing and stock transactions, which implement the goods ledger; every button shown works |
| `forecast` | 2 producers, a forecast of 1..2, 2 listings with due dates and a photo until they are removed, 2 orders | `SourcesMatchListings`, `OffersAreCovered`, `RemovedListingsStay` | presale, receipt, assimilation, disabling, expiry, removal and reactivation keep sources and listings together, and a removed listing stays removed |
| `proposals` | a need of 1..2, a forecast, a stock of 2, 2 listings, 2 orders | `NeedStatusMatchesItems`, `ProposalsSoldOnce`, `OffersCanBeBought`, `FiguresAgree` | proposals bought, cancelled, rejected, edited: what is stored follows what is bought, what is offered can be bought (but for the overrun of a cut, see 3.3), and lists, counts and alerts agree |
| `presale` | a forecast of 1 | `PresaleWithinForecast` (violated) | delivered production can be sold again |
| `races` | 1 listing, 2 orders, forms open over other transactions | `ReservationsMatchItems`, `SourcesMatchListings` | a stale form neither loses nor invents a reservation |
| `races_removed` | same | `RemovedListingsStay` (violated) | a stale edit offers a removed listing again |
| `demands` | 2 demands of 1 unit at 2 dates, a stock of 1 (2 after a receipt), a forecast of 0 or 2 for the later date, 2 concurrent requests, 1 generated need | `DemandsTypeOK`, `DeliveredAsAsked`, `ReservedGoodsStay`, `CoveredNotPublished`, `AdviceServesDemands`, `DeliveryCutsOffers`, `PublishedTermsStay` | deliveries, plan, advice on every screen and generated need under racing requests, sales and failures |
| `demands_oversell` | same | `OffersWithinStock` (violated) | with a demand open, the stock is offered twice |
| `alerts` | 1 key, 2 rows, a page, the job, a button | `AlertsTypeOK`, `SnoozeIsSeen`, `ResolvedStaysHidden`, `ConditionsAreShown`, `GoneAlertsClose`, `SnoozedComeBack` | no race hides a condition for ever or keeps an alert for ever |
| `messaging` | four parts: 2 messages, texts or files, sent at once to one page; the same while both archive; 3 texts and a catch-up of 1; 1 message and two pages of one user | `MessagingTypeOK`, `TextsReachThePage`, `NewMessageUnarchives`, `ShownIsRead` | an online page misses no text but by a lost announcement or a full catch-up, what it shows becomes read, a new message ends the archive |
| `desk` | 1 client, 2 administrators, 2 links, 2 requests under way, 1 ticket of at most 3 messages | `DeskTypeOK`, `AccountsUsable`, `TicketsInOneHand` | interleaved and broken-off requests leave usable accounts; a ticket stays in one hand |

`AdviceServesDemands` has several parts, all about one plan: the deficit is the
least purchase after which the demands can be served (`DeficitIsLeastPurchase`,
against an allocation of stock and forecast to demands), what it calls sellable is
exactly what can be sold safely (`SellableIsSafe`), the wizard's advice serves the
demands (`AdviceOfWizard`), alert, stock page, wizard and publication form do not
contradict each other (`ScreensAgree`), and no demand that what is on the market
endangers is saved without the warning (`ConflictWarned`). All of it is about
committed rows, so it is evaluated where no request is in progress: a rollback leads
there from every state and changes no row.

### 3.1 Bounds

`MaxLines` (lines per order), `MaxStock` (no forecast is added to a stock above it:
harvests are otherwise unbounded), the sets of quantities a form may hold
(`OrderQuantities`, `ListingQuantities`, `NeedQuantities`, `StockQuantities`,
`ForecastQuantities`), `FormExpiries` and `FormPhotos`; in `Allocations`
`MaxListings`, `MaxAvailable`, `MaxOffers`, `MaxOffered`, `Prices`; in
`CustomerDemands` the quantities and dates of demands, `MaxPlanned` (purchases for
the need) and `MaxStock`; `MaxMessages` of a conversation and of a ticket, and
`CatchUpLimit` (50 in the code) of a catch-up. Rows are
not reused in trading: an instance has as many listings and orders as its
constants name, and stops when they are used up, which is why deadlock is not
checked there; nor is it where a conversation is full, or where (`Alerts`,
`Accounts`) a system in which nobody does anything is a legal end.

Two orders and two listings are the least for which two orders compete for one
listing, one order spans two listings, a cut has to divide and a second seller
can exist (the buyer of an order owns a stock that receives goods, and can sell
them on through the second listing). Quantities 1 and 2 tell partial from full
consumption. Four listings in `reduction` are the least for which a listing grows.
Listings and orders are interchangeable, hence the symmetry; producers are not.
`MaxLines` is the one bound that is part of the model itself: `ReceivedTables` writes
the loop of a receipt out for one or two items, and `OrderAssumption` says so. Orders
of more lines, which an accepted recommendation can create, are outside of the runs
and of the theorems of trading. Two lines are the least for which one item's receipt
cuts the listing of another.
Run `forecast` publishes with a photo: a listing without one only counts as removed
sooner, as one past its date does, and `RemovedListingsStayRemoved` is proved for both. In run `proposals`
no listing has a date; that what is shown there can be bought, due listings aside, is
proved for any dates (`ShownCanBeBought`).

Two demands at two dates are the least for which the first date can be short while
the last is not, or the other way round; the forecast arrives at the second, and 0
or 2 tell whether it serves it. Two sessions are the least that race. Demands of
one unit do not tell `warning` from a small excess (a tenth of what is asked): that
boundary stays with the formula. `View` leaves out the safety stock and the sum on
its way to it, which nothing reads.

One alert key is enough because keys do not share rows; two rows are the least for
which a snoozed alert and a new one exist for one key. Two messages are the least
for which one is overtaken, and two pages of which one marks while the other does. A
catch-up of one stands for one of 50: `AreFirst` compares the limit with a number of
messages and does nothing else with it, and `TextsArrive` holds for every limit; three
texts are the least of which it leaves one out. Run `messaging` is four instances
side by side (`InPart` of `MCMessaging`), because all of it at once would take too long;
the theorems are about all of it at once. The parts limit what users do, not what the server does, so
that they do not touch its fairness.
Two requests under way are the least for which a confirmation meets a suspension,
or two administrators each other, and two links for which a reset is open beside
a confirmation. Runs with liveness use no symmetry.

### 3.2 Fairness and liveness

No liveness is claimed of trading. Every action there is a person's decision that
may never come: a seller may ignore an order for ever, and the code has no timeout
for it. The expiry sweep runs when somebody opens a page. Fairness on any of these
would be an assumption the code does not justify.

`Alerts` claims that a condition that lasts is shown, that an alert whose condition
is gone closes and that a snoozed one comes back. It assumes that the scheduled job
starts again and again (strongly: requests may delay but not prevent it) and gets
the row locks it waits for, as PostgreSQL queues them; that a request or a
transaction that was begun ends, by commit or abort; that a button that was pressed
is carried out; and that time passes. It does not assume that any page is opened,
that a user acts, or that a condition stays.

`Messaging` claims that what an open page shows becomes read. It assumes that the
server goes on with a request it has started (`RequestStep`; a crash may end it before) and handles what reaches the socket of a page (`ServerStep`).
It does not assume that a page stays open, that an announcement arrives or that
anybody writes.

### 3.3 Divergences

* **Delivered forecast can be sold again** (`reservations.py:297`). A receipt
  lowers `reserved_quantity` of the forecast and leaves `forecast_quantity`, so
  that the delivered production counts as available once more, for a new
  listing as for assimilation into stock. Run `presale`.
* **A stale edit revives a removed listing** (`commands.py:233`). The removal
  (by the stock form with listings to cancel, or by the delete view in another
  window) commits between the read and the save of the edit. Run `races_removed`.
* **With a demand open, the stock is offered twice** (`availability.py:195`). The
  margin of the plan is returned as it is: it counts a forecast that is not in
  stock yet, and what is already offered is subtracted from a figure that is
  clamped at zero. Run `demands_oversell`.

Met while modelling, known, and without a run of their own:

* Sending a message can set a read mark back (`messages.py:99-110`). The time of the
  sender's mark is read before the conversation is saved; a mark that the sender's
  own page makes in between is overwritten with the older time. A message that was
  shown and marked counts as unread again, and its sender no longer sees it as read,
  until the next mark. `Messaging` has the behaviour (`ReadClock`, `SaveConversation`,
  `MarkSender` beside `WriteMark`), and `ShownIsRead` says of what is shown that it is
  read at some time (`latestRead`), not that it stays so.
* A cut can raise a listing (`reconciliation.py:156`). All but the last listing
  get `round(share)`, the last one the difference: four listings of one thousandth
  cut to two become 0, 0, 0, 2. The docstring says every listing is reduced. On a
  listing whose total is fully available the CHECK on its quantities then refuses
  the whole stock form or receipt.
* A cut can leave more on offer than the stock covers, by half a thousandth for
  every listing beyond the second (`OverrunIsBounded`): with four listings or more
  the last thousandths that a page shows may be refused to the buyer.
  `OffersAreCovered` and `OffersCanBeBought` allow for just that (`Overrun`); with
  two or three listings, and for forecasts, they are exact.
* A stale stock form uncovers offers (`stock_adjustments.py:263`): an order
  commits between the read of the stock and its update, and the check against
  listings used the reserved quantity from before. `OffersAreCovered` does not
  hold in `TradingRaces`.
* What was received for a generated need is in the stock and still counts as
  planned (`recommendations/services.py:122`, `needs/coverage.py`): the smaller
  deficit that is left is taken for covered. `AdviceOfWizard` is limited to needs
  of which nothing was received. `PROJECT_CONTEXT.md` says `buy_quantity =
  max_deficit` and does not mention the subtraction.
* Reserved goods are subtracted twice, once from the stock and once with the
  listings (`external_demands.py:173`, `availability.py:197`). The plan is then
  more careful than it need be, never less. Without demands the stock page and
  the wizard do not subtract what is on offer, and propose to publish what is already on offer;
  the form then refuses it. `ScreensAgree` is about the alert in that case.
* A confirmation of an address that began before the account was suspended lifts
  the suspension; one that dies after its link was used (`accounts/views.py:206`)
  leaves the account to an administrator.
* An empty conversation page does not ask what it missed, a file that commits
  late is older than what the page has, and the page of a ticket asks for nothing:
  such messages are seen when the page is loaded again. So are those whose
  announcement the channel layer lost (`messages.py:113`) and those beyond the limit
  of a catch-up (`consumers.py:209`).
* The alert of a buying opportunity counts listings whose date has passed until the
  next sweep (`alerts/candidates.py:407`). `OffersCanBeBought` leaves them out.

`MovementsExplainStock` does not survive stale stock forms either, which no run
repeats: a receipt that commits between read and write is overwritten by the
typed quantity, while the movement only records the difference from the row read.

## 4. Proofs

| theorem | statement | argument |
|---|---|---|
| `QuantityLemmas!TotalRemove` and its neighbours | sums over finite sets: type, one row added, removed or changed, equal and bounded rows | cardinality of the set of pieces |
| `TradingProofs!TypeCorrect` | `Spec => []TypeOK` | inductive with the invariant below |
| `TradingProofs!ReservationsCorrect` | `Spec => []ReservationsMatchItems` | `ReservationInv` |
| `TradingProofs!RacesTypeCorrect` | `RacesSpec => []RacesTypeOK` | same step lemmas, for any row seen |
| `TradingProofs!RacesReservationsCorrect` | `RacesSpec => []ReservationsMatchItems` | same |
| `TradingProofs!OrderStatusCorrect` | `Spec => []OrderStatusMatchesItems` | `OrdersInv` |
| `TradingProofs!OrdersStayClosed` | `Spec => ClosedOrdersStay` | every step is a step on open or new orders |
| `TradingProofs!RacesOrdersCorrect` | `RacesSpec => []OrderStatusMatchesItems /\ ClosedOrdersStay` | same |
| `TradingProofs!NeedStatusCorrect`, `RacesNeedStatusCorrect` | `Spec => []NeedStatusMatchesItems`, and of `RacesSpec` | `NeedsInv` |
| `TradingProofs!SourcesCorrect` | `Spec => []SourcesMatchListings` | `SourcesInv` |
| `TradingProofs!ChecksHold` | `Spec => []DatabaseChecks` | `SourcesInv` |
| `TradingProofs!MovementsCorrect` | `Spec => []MovementsExplainStock` | `SourcesInv`; each step adds one movement for what it adds |
| `TradingProofs!RacesSourcesCorrect` | `RacesSpec => []SourcesMatchListings /\ []DatabaseChecks` | same step lemmas, for any row seen |
| `TradingProofs!LedgerImplemented` | `Spec => LedgerSpec` | step simulation from `LedgerInv` |
| `ListingProofs!ProposalsCorrect` | `Spec => []ProposalsSoldOnce` | `OffersInv` |
| `ListingProofs!RemovedListingsStayRemoved` | `Spec => RemovedListingsStay` | what each step may write to a cancelled row |
| `ListingProofs!OffersCovered` | `Spec => []OffersAreCovered` | `CoverInv` |
| `ListingProofs!ShownCanBeBought` | `Spec => []OffersCanBeBought` | `SoundInv`; what is shown is among what is covered |
| `ListingProofs!FiguresCorrect` | `Spec => []FiguresAgree` | `SoundInv` and `NeedsInv`; sums regrouped |
| `ListingProofs!ButtonsWork` | `Spec => []OrderButtonsWork` | `ButtonsInv`; what is cancelled or confirmed never expects more than is reserved |
| `AllocationProofs!PlansAreBest` | `Spec => []BestPlan` | loop invariant `PlanHolds`; exchange of units at one price |
| `AllocationProofs!OverrunIsBounded` | `Spec => []OverrunBounded` | each share rounds by at most a half, and one of them is what the others left |
| `AllocationProofs!SharesAreProportional` | `Spec => []OthersProportional` | same |
| `CustomerDemandsProofs!DeficitIsWhatIsMissing` | a plan has no deficit after `bought` more units iff its deficit was at most `bought` | the greatest of the deficits of the dates |
| `CustomerDemandsProofs!SellableIsWhatIsSafe` | a plan without deficit has none after `sold` units left iff `sold` was sellable | the smallest of the margins of the dates |
| `CustomerDemandsProofs!ServableWithoutDeficit` | demands can be delivered from stock and forecast, each by its date, iff their plan has no deficit | what the early demands leave of the stock is part of what the late ones ask (`TotalPart`) |
| `CustomerDemandsProofs!AdviceCorrect` | `Spec => []AdviceServesDemands` | the three above, for the rows of a state in `DemandsInv` |
| `CustomerDemandsProofs!DemandsTypeCorrect` | `Spec => []DemandsTypeOK` | `DemandsInv` |
| `CustomerDemandsProofs!DeliveriesCorrect` | `Spec => []DeliveredAsAsked` | `DemandsInv` |
| `CustomerDemandsProofs!ReservedGoodsCorrect` | `Spec => []ReservedGoodsStay` | `DemandsInv` |
| `CustomerDemandsProofs!CoveredCorrect` | `Spec => []CoveredNotPublished` | `DemandsInv` |
| `CustomerDemandsProofs!CutsCorrect` | `Spec => DeliveryCutsOffers` | every step from `DemandsInv` cuts when it delivers |
| `CustomerDemandsProofs!TermsCorrect` | `Spec => PublishedTermsStay` | what a synchronisation writes, for any plan it read |
| `AlertsProofs!AlertsTypeCorrect` | `Spec => []AlertsTypeOK` | `AlertsInv` |
| `AlertsProofs!SnoozesAreSeen` | `Spec => []SnoozeIsSeen` | `AlertsInv` |
| `AlertsProofs!ResolvedAlertsStay` | `Spec => ResolvedStaysHidden` | every step from `AlertsInv` |
| `MessagingProofs!MessagingTypeCorrect` | `Spec => []MessagingTypeOK` | `MessagingInv` |
| `MessagingProofs!TextsArrive` | `Spec => []TextsReachThePage` | `MessagingInv` |
| `MessagingProofs!MessagesUnarchive` | `Spec => []NewMessageUnarchives` | `MessagingInv` |
| `AccountsProofs!AccountsCorrect` | `Spec => []AccountsUsable` | `AccountsInv` |
| `AccountsProofs!TicketsCorrect` | `Spec => []TicketsInOneHand` | `DeskInv` |
| `AccountsProofs!DeskTypeCorrect` | `Spec => []DeskTypeOK` | `DeskInv` |

Those of trading hold for any finite sets of producers, forecasts, listings and orders, any
needs and any sets of natural quantities: `ConstantsAssumption` (finite sets,
producers and forecasts apart, owners are producers, NULL is not a row),
`MarketplaceAssumption`, `InventoryAssumption`, `InitialStockAssumption`,
`NeedAssumption` and `OrderAssumption` are all that is used. The last one
limits orders to two lines (`MaxLines \in {1, 2}`), so that all theorems of trading,
`ButtonsWork` among them, are about orders of at most two lines. Those of cuts
and purchases hold for any bounds (`BoundsAssumption`: they are naturals, as are
the prices), that is for any number of listings and offers and any quantities. Those of customer
demands hold for any finite set of demands, any sets of needs and requests, and
any sets of quantities and dates (`DemandsAssumption`); those of alerts for any
finite set of rows and any sets of keys, pages and users (`AlertsAssumption`: the
job is no page, NULL neither key nor row); those of messages for any users and pages,
any finite set of requests, any number of messages and any positive limit of the
catch-up (`MessagingAssumption`), whichever announcements are lost; those
of accounts for any sets of users, links, requests and tickets
(`AccountsAssumption`, `SupportAssumption`).

`ReservationsMatchItems` is not inductive by itself. A publication writes a row
with nothing reserved, which is right only if no item refers to a listing that
does not exist yet; and quantities have to be naturals for the clamped
subtractions to be exact. Hence

```
ReservationInv == TypeOK /\ ItemsHaveListings /\ ReservationsMatchItems
```

with one lemma per action. An order creation adds items to reservable listings
and `CanReconcile` guarantees that the available quantity takes the whole
difference; a cancellation or receipt changes items of one order, and
`ExpectedReserved` of the listings it does not touch is unchanged because no
reserving item of theirs changed (`ExpectedEqual`). A receipt is one or two
applications of `ReceiveLine`, each of which keeps the invariant of the tables it
works on.
Everything about `listing[l].reserved` in the unlocked handlers is proved for an
arbitrary row `seen`: none of them writes the column. This is what makes the same
lemmas prove the theorems about `TradingRaces`, where `seen` is any earlier row:
reservations do not depend on the missing locks, while coverage and removal do.

The order theorems rest on

```
OrdersInv == TypeOK /\ NoItemsYet /\ LinesBounded /\ OrderStatusMatchesItems
```

`NoItemsYet` says that an order row that is not inserted has no items, so that a
creation gives it exactly the pending ones; `LinesBounded` that an order has at
most `MaxLines` active items, so that a receipt, which consumes them one after
the other, has completed every one of them when it stores `COMPLETED`. Each
order transaction is then a `StepOn(touched)`: the orders in `touched` were open
or new and get the status of their items, all others keep their row and items.

The status of a need is the one its items give because every transaction that
moves an item recalculates the needs of its order: `NeedsInv == OrdersInv /\
NeedStatusMatchesItems` is inductive, given that an item keeps the need it was
bought for, so that the needs to recalculate are the same before and after
(`ItemsMoved`), and that coverage is a function of the items bought for the need
(`SameCoverage`).

Stocks and forecasts rest on

```
SourcesInv == ReservationInv /\ SourcesMatchListings /\ DatabaseChecks
```

A reconciliation writes to a source what its listings gained and released, clamped
at zero; `ReservedOfChanged` shows that the clamp never bites, since the sums over
the listings before and after differ by just that. A receipt takes a line off its
listing and off its source, and `SourcesMatchListings` gives that the source has it.
`MovementsKept` says of each step that a stock and the sum of its movements change
by the same. All but the last are proved for any row `seen`, hence for
`TradingRaces` as well.

The refinement maps the goods on hand to the current quantities and the goods an
order holds to its reserving items, grouped by stock. `LedgerInv` adds to the above
that an order has one seller and another buyer (`Deal`). That no goods are promised
twice is a double count: the sum over orders of what each holds in a stock and the
sum over its listings of what each reserves are the same sum over items
(`ItemsAreReserved`, `HeldIsReserved`), and `DatabaseChecks` bounds it by the stock.

For single listings,

```
OffersInv == OrdersInv /\ ReservationInv /\ OffersHold
CoverInv  == SourcesInv /\ OffersInv /\ \A l : GoodRow(listing[l]) /\ Covered(...)
SoundInv  == CoverInv /\ \A l : SoundRow(listing[l])
```

`OffersHold` says that a proposal has at most one item, bought for its need, that
its response is the one the item gives unless it was rejected, that a rejected one
reserves nothing, and that a proposal has no date but the one its withdrawal sets.
`Covered` is about what the listings of a source *claim*: what each has reserved, and
what it has available while that counts (public and open, or a proposal nobody
bought). Every step but two kinds lets the claim of each listing stay or fall: a
reconciliation moves quantity between the two parts, a closed row claims what it
reserves. The two are publications, edits and reactivations, which ask
`MaxPublishable` (`PublishableCovers`), and cuts, after which the sum of the shares
is bounded by `ReducedBounds`. `OffersAreCovered` alone is not inductive: a buyer's
cancellation makes reserved goods available again, which is covered only because the
claim counted them before; and a closed row with something left would be on offer
again when a cancellation opens it (`GoodRow`). `SoundRow` is what the pages rely on
beyond that: a proposal is never from the producer who has the need, and a listing
said to be reserved reserves something.

The bound on a cut is the one place that multiplies. With `n` listings offering `A`
together and a target of `T < A`, each listing but the last gets a share `r` of its
quantity `a` with `2rA <= 2aT + A`. If those shares stay within `T`, the last takes
what is left and the sum is `T`. Otherwise the last gets nothing and the sum is
theirs; since the last had something, their exact shares add up to less than `T`,
and the `n - 1` roundings to `(n - 1)/2` at most, so that `2 * sum <= 2T + n - 2`.

For the buttons of an order,

```
ButtonsInv == LedgerInv /\ \A o : Together(item, o)
```

An order page decides on the status of the order, a command on the statuses of its
items. `Together` says that the active items of an order have one status, which the
status of the order then tells (`StatusTells`): a seller's command finds all of them
in the status it moves, since by `Deal` they are all that seller's. The strict
reconciliation of a cancellation or confirmation then has nothing to refuse
(`NothingMoreReserved`): no listing is to reserve more than it does. The theorem
compares the condition of a button with the `Can...` of its command. What follows
that guard in the action only assigns values that exist, so that the guard is when
the command goes through.

A recommended purchase is planned by a loop, and

```
PlanHolds == problem.kind = "plan" => Taken(...) /\ what is to come gave nothing
                                                 /\ and comes last
```

is its invariant: a listing with something left that can deliver in time is still to
come, or nothing remains to be bought; and whatever gave something precedes every
other listing with something left. What is saved then has the same with nothing to
come. `BestPlan` compares it with every other purchase of the quantity. Stocks precede
forecasts, so that nobody gets more of it from stocks; and of one kind the plan has
more than another purchase only where it is no dearer than where it has less. There
is then a price that divides the two sorts of listings (`CheapestPurchase`), and
every unit exchanged between them costs at most that on one side and at least that
on the other (`Exchange`).

The advice is about a plan of coverage by date and about who can be served, two
things the code never compares. A plan without deficit leaves enough stock for
all demands that fall before the forecast (their last date is one the plan looked at)
and enough of both for all together; of what the later demands ask, `TotalPart`
takes from the stock what the early ones left, and the forecast gives the rest. The
other way round, an allocation bounds what is asked by each date. The choice of a
greatest part needs induction on numbers only, which `LeastExists` has from the
well-foundedness of `<`. With `DeficitIsWhatIsMissing` and `SellableIsWhatIsSafe`, the
deficit is then the least purchase that serves everybody, one unit less does not, and
the same holds of what is sellable; what the wizard, stock page, alert and
publication form show is computed from these two numbers.

For customer demands, `DeliveredAsAsked` alone is not inductive: a commit adds the
quantity of a demand to its movements, which is right only if it has none, and takes
goods out of the stock, which is right only if they are still there.

```
DemandsInv == TablesTyped /\ DeliveredAsAsked /\ ReservedGoodsStay
  /\ CoveredNotPublished
  /\ \A s : SessionOK(demand, stock, session[s])  /\  \A s, t # s : Apart(s, t)
```

`SessionOK` says what a request may still rely on: the demand it works on has the
status it found, and, once it holds the stock for a delivery, the unreserved goods
suffice. `Apart` is what the row locks give: no two requests work on one demand,
and one at most holds the stock. A step of anybody else therefore leaves a request
undisturbed (`Undisturbed`), and each step lemma shows just that of the others. The
plan a session carries is used for nothing but its type: needs keep their terms,
and covered needs stay off the marketplace, for any deficit and date read earlier.

For accounts,

```
AccountsInv == AccountsTypeOK
  /\ \A u : RowOK(account[u])  /\  \A l : LinkOK(account, link, l)
  /\ \A r : RequestGood(account, link, request[r])
```

`LinkOK` says that a link which confirms belongs to an account that registered
itself, is still pending, and has no second such link, so that using it lifts no
suspension. `RequestGood` says, for each statement a request may come to, what is
left of what it read before, since other requests change the row between any two
statements: that the account registered itself or was invited, which links are
still out, and, for a toggle, that the account is in use or suspended.
`DeskInv` adds `TicketOK`: the administrator of a ticket completed the registration,
which no later step on the account takes back, and the stored column
`last_message_by_role` follows the thread.

For alerts,

```
AlertsInv == TablesTyped /\ \A a : RowGood(a) /\ OneOpen /\ Ranked /\ Seen
  /\ \A u : UserGood(u) /\ UsersAgree
```

`OneOpen` is the unique index on open alerts, `Ranked` that `newer` orders the
ignored alerts of a key, and `Seen` that the one that still counts is the last of
them. A button carries the row it read, which in the meantime may have been closed
but never used for another key (`UserGood`); a synchronisation carries the keys it
read, and holds the rows it locked. A synchronisation
writes a row in one of few ways (`WrittenBy`), none of which shows or closes a
resolved alert whose condition it saw.

For messages,

```
MessagingInv == MessagingTypeOK /\ HasLatest
  /\ \A r : RequestHolds(r) /\ RecipientsAwake(r)
  /\ \A p : PageHolds(p)  /\ NewMessageUnarchives
```

`PageHolds` extends the property to what a page has in its inbox, and says that what
is announced is stored; `RequestHolds` that a text is stored before it is announced,
so that whoever caught up before the commit is in the group when it is announced, and
hears of it or has it among `unheard`, while whoever catches up after it finds the row,
or so many earlier ones that the limit is full (`BeyondLimit`). That the limit stays
full is a lemma of its own: a page only adds to what it shows, so that a count of it
can only grow (`CountGrows`). `RecipientsAwake` says, from the statement that ends the
archive to the end of the request, that a recipient's archive is newer than the message
or about to be ended by the commit of a file.

Only model-checked: the liveness properties `ConditionsAreShown`, `GoneAlertsClose`,
`SnoozedComeBack` and `ShownIsRead`, whose fairness is about `ENABLED`, which is
beyond the prover. The `violation` runs need no proof.

## 5. Not modelled, and the plan

Order of work; each brings its own proofs or run.

1. `LockOrder`: which rows each transaction locks in which order, and whether two
   of them can wait for each other.
2. The socket of the ticket page, next to `Messaging`.

Left out for good: the screens of the dashboard, catalogue and settings forms,
products added to and removed from an inventory (one flag of one row),
notifications, integrations and audit rows, which write single rows nobody
decides on; order numbers and their retry (the retry runs inside the aborted
transaction and fails, which is no step); e-mails, rate limits, attachments,
wording and layout; prices, delivery data and weather.
