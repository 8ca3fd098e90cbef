------------------------------- MODULE Alerts --------------------------------
(***************************************************************************)
(* The operational alerts of one producer (apps/alerts).  Some keys are    *)
(* managed: sync_alerts_for_producer keeps one alert in step with a        *)
(* condition of the producer's stocks, needs, listings or orders.  Others  *)
(* are notices that a request raises once.  The synchronisation runs in    *)
(* the scheduled job and at the end of most requests, and reads the        *)
(* conditions before it locks any alert; the buttons on the alert page     *)
(* work on an alert read without a lock.                                   *)
(***************************************************************************)
EXTENDS Naturals, FiniteSets, Functions

CONSTANTS
  Keys,    \* type and context_key of an alert
  Alerts,  \* rows; one that is closed for good is used again
  Pages,   \* requests that synchronise
  Job,     \* the scheduled job
  Users,   \* requests of the buttons on the alert page
  None

ASSUME AlertsAssumption ==
  /\ None \notin Alerts \cup Keys
  /\ Job \notin Pages
  /\ IsFiniteSet(Alerts)

VARIABLES
  kind,     \* of each key, what its type is about; it never changes
  cause,    \* which conditions hold
  alert,    \* alerts: key, status, whether cleared_at is set on an ignored
            \* one, and which of snoozed_until and expires_at have passed
  newer,    \* pairs of IGNORED rows of one key, the later updated_at first
  sync,     \* synchronisations in progress
  user      \* button requests in progress and the alert as they read it

vars == <<kind, cause, alert, newer, sync, user>>

\* A condition that comes and goes, one that ends on a date (a listing about
\* to expire), an order that waits for its seller, and what is only told
\* once: a cancelled order or a rejected offer.
Kinds == {"condition", "listing", "order", "notice"}

\* The keys of MANAGED_ALERT_TYPES
Managed == {k \in Keys : kind[k] # "notice"}
Syncs == Pages \cup {Job}

\* RESOLVED and cleared, CLEARED, or never used.
Closed == [key |-> None, status |-> "CLOSED", cleared |-> FALSE,
           lapsed |-> FALSE, due |-> FALSE]
NewAlert(k) == [Closed EXCEPT !.key = k, !.status = "ACTIVE"]
NoSync == [pc |-> "idle", seen |-> {}, locked |-> {}]
NoRequest == [alert |-> None, key |-> None, status |-> "CLOSED"]

Ignored(k) == {a \in Alerts : alert[a].key = k /\ alert[a].status = "IGNORED"}

Comparable(a, b) == a # b /\ \E k \in Keys : a \in Ignored(k) /\ b \in Ignored(k)

\* Every row and every request has its type, and updated_at orders the
\* ignored rows of a key.
AlertsTypeOK ==
  /\ kind \in [Keys -> Kinds] /\ cause \in [Keys -> BOOLEAN]
  /\ alert \in [Alerts ->
       [key : Keys \cup {None}, status : {"CLOSED", "ACTIVE", "IGNORED", "RESOLVED"},
        cleared : BOOLEAN, lapsed : BOOLEAN, due : BOOLEAN]]
  /\ newer \subseteq Alerts \X Alerts
  /\ \A a, b \in Alerts :
       /\ Comparable(a, b) <=> <<a, b>> \in newer \/ <<b, a>> \in newer
       /\ <<a, b>> \in newer => <<b, a>> \notin newer
  /\ \A a, b, c \in Alerts :
       <<a, b>> \in newer /\ <<b, c>> \in newer => <<a, c>> \in newer
  /\ sync \in [Syncs -> [pc : {"idle", "expired", "read", "holding"},
                         seen : SUBSET Keys, locked : SUBSET Alerts]]
  /\ user \in [Users -> [alert : Alerts \cup {None}, key : Keys \cup {None},
                         status : {"CLOSED", "ACTIVE", "IGNORED"}]]

Init ==
  /\ kind \in [Keys -> Kinds]
  /\ cause = [k \in Keys |-> FALSE]
  /\ alert = [a \in Alerts |-> Closed]
  /\ newer = {}
  /\ sync = [s \in Syncs |-> NoSync]
  /\ user = [u \in Users |-> NoRequest]

(***************************************************************************)
(* Rows.                                                                   *)
(***************************************************************************)
Open(a) == alert[a].status # "CLOSED" /\ ~alert[a].cleared

\* The unique index uniq_active_alert_context: a transaction that would
\* leave a second open row for the key of a row fails.
Clashes(k, a) == \E b \in Alerts \ {a} : alert[b].key = k /\ Open(b)

Locked == UNION {sync[s].locked : s \in Syncs}

\* Rows that a new alert can take.
FreeRows == {a \in Alerts : alert[a] = Closed /\ \A u \in Users : user[u].alert # a}

\* The pairs of rows of which none is in rows.
Without(rows) == {p \in newer : p[1] \notin rows /\ p[2] \notin rows}

\* Faulty variant of Reordered: a button leaves updated_at as it was.
ReorderedLast(k, a, status) ==
  Without({a}) \cup IF status = "IGNORED" THEN (Ignored(k) \ {a}) \X {a} ELSE {}

\* Faulty variant of Reordered: an alert that is no longer ignored keeps its
\* place.
ReorderedKept(k, a, status) ==
  IF status = "IGNORED" THEN Without({a}) \cup ({a} \X (Ignored(k) \ {a})) ELSE newer

\* newer after the row a of key k was saved.
Reordered(k, a, status) ==
  Without({a}) \cup IF status = "IGNORED" THEN {a} \X (Ignored(k) \ {a}) ELSE {}

\* newer after the rows were saved as IGNORED in one transaction.
Fronted(rows) ==
  Without(rows) \cup
    UNION {{a} \X (Ignored(alert[a].key) \ rows) : a \in rows}

(***************************************************************************)
(* What happens elsewhere.                                                 *)
(***************************************************************************)
\* Stocks, needs, forecasts, proposals or listings change.
Appear(k) ==
  /\ kind[k] \in {"condition", "listing"} /\ ~cause[k]
  /\ cause' = [cause EXCEPT ![k] = TRUE]
  /\ UNCHANGED <<kind, alert, newer, sync, user>>

Disappear(k) ==
  /\ cause[k]
  /\ cause' = [cause EXCEPT ![k] = FALSE]
  /\ UNCHANGED <<kind, alert, newer, sync, user>>

\* The date of a listing passes, and with it expires_at of its alerts.
DatePasses(k) ==
  /\ kind[k] = "listing"
  /\ cause[k]
  /\ cause' = [cause EXCEPT ![k] = FALSE]
  /\ alert' = [a \in Alerts |->
                 IF alert[a].key = k THEN [alert[a] EXCEPT !.due = TRUE] ELSE alert[a]]
  /\ UNCHANGED <<kind, newer, sync, user>>

\* snoozed_until of an ignored alert passes.
SnoozeLapses(a) ==
  /\ alert[a].status = "IGNORED" /\ ~alert[a].lapsed
  /\ alert' = [alert EXCEPT ![a].lapsed = TRUE]
  /\ UNCHANGED <<kind, cause, newer, sync, user>>

\* create_order_interaction_alert and create_need_response_event_alert: the
\* open alert of the key is made active, whatever the user did with it, or
\* there is a new one.
Raise(k) ==
  LET open == {a \in Alerts : alert[a].key = k /\ Open(a)}
  IN  \E a \in (IF open = {} THEN FreeRows ELSE open \ Locked) :
        /\ alert' = [alert EXCEPT ![a].key = k, ![a].status = "ACTIVE",
                                  ![a].lapsed = FALSE]
        /\ newer' = Reordered(k, a, "ACTIVE")

\* An order is placed: its seller is asked to confirm it.  A key is used for
\* the next order once nothing refers to the one before.
PlaceOrder(k) ==
  /\ kind[k] = "order" /\ ~cause[k]
  /\ \A a \in Alerts : alert[a].key # k
  /\ \A s \in Syncs : k \notin sync[s].seen
  /\ \A u \in Users : user[u].key # k
  /\ cause' = [cause EXCEPT ![k] = TRUE]
  /\ Raise(k)
  /\ UNCHANGED <<kind, sync, user>>

\* A seller cancels an order, or an offer is rejected.
RaiseNotice(k) ==
  /\ kind[k] = "notice"
  /\ Raise(k)
  /\ UNCHANGED <<kind, cause, sync, user>>

(***************************************************************************)
(* Expiry: expire_ignored_alerts_for_producer and expire_due_alerts.       *)
(***************************************************************************)
\* Faulty variant of LapsedRows: only alerts whose condition is gone expire.
LapsedAndCleared ==
  {a \in Alerts : alert[a].status = "IGNORED" /\ alert[a].lapsed /\ alert[a].cleared}

LapsedRows == {a \in Alerts : alert[a].status = "IGNORED" /\ alert[a].lapsed}

DueRows == {a \in Alerts : alert[a].status \in {"ACTIVE", "IGNORED"} /\ alert[a].due}

Expire(rows) ==
  /\ rows \cap Locked = {}
  /\ alert' = [a \in Alerts |-> IF a \in rows THEN Closed ELSE alert[a]]
  /\ newer' = Without(rows)

(***************************************************************************)
(* sync_alerts_for_producer.                                               *)
(***************************************************************************)
\* The job: both expiries, then the synchronisation.
StartJob ==
  /\ sync[Job] = NoSync
  /\ Expire(LapsedRows \cup DueRows)
  /\ sync' = [sync EXCEPT ![Job].pc = "expired"]
  /\ UNCHANGED <<kind, cause, user>>

\* Faulty variant of Candidates: no producer of candidates for the orders.
CandidatesButOrders == {k \in Keys : cause[k] /\ kind[k] # "order"}

\* _candidate_rows: the conditions of the managed alerts that hold.
Candidates == {k \in Keys : cause[k]}

\* The candidates are read before any row is locked.
ReadCandidates(s) ==
  /\ sync[s].pc = IF s = Job THEN "expired" ELSE "idle"
  /\ sync' = [sync EXCEPT ![s].pc = "read", ![s].seen = Candidates]
  /\ UNCHANGED <<kind, cause, alert, newer, user>>

\* The three SELECT ... FOR UPDATE, as one.
LockRows(s) ==
  LET rows == {a \in Alerts : alert[a].status # "CLOSED" /\ alert[a].key \in Managed}
  IN  /\ sync[s].pc = "read"
      /\ rows \cap Locked = {}
      /\ sync' = [sync EXCEPT ![s].pc = "holding", ![s].locked = rows]
      /\ UNCHANGED <<kind, cause, alert, newer, user>>

RowOf(s, k, status) ==
  {a \in sync[s].locked : alert[a].key = k /\ alert[a].status = status}

\* ignored_map: of the ignored rows of a key only the last updated.
LastIgnored(s, k) ==
  {a \in RowOf(s, k, "IGNORED") :
     \A b \in RowOf(s, k, "IGNORED") \ {a} : <<a, b>> \in newer}

\* The alert of the key that the synchronisation goes by, if any.
Current(s, k) ==
  RowOf(s, k, "ACTIVE") \cup RowOf(s, k, "RESOLVED")
    \cup {a \in LastIgnored(s, k) : ~alert[a].cleared}

ToCreate(s) == {k \in sync[s].seen : Current(s, k) = {}}

\* Faulty variant of Gone: active alerts are left alone.
GoneButActive(s) ==
  {a \in UNION {Current(s, k) : k \in Managed \ sync[s].seen} :
     alert[a].status # "ACTIVE"}

\* Faulty variant of Gone: a resolved alert is cleared by the next
\* synchronisation whether or not its condition still holds.
GoneOrResolved(s) ==
  UNION {Current(s, k) : k \in Managed \ sync[s].seen}
    \cup {a \in sync[s].locked : alert[a].status = "RESOLVED"}

\* The alerts of the conditions that no longer hold.
Gone(s) == UNION {Current(s, k) : k \in Managed \ sync[s].seen}

\* A row after the synchronisation: an ignored alert whose condition is gone
\* stays in its tab, and an active one gets the candidate's expires_at.
Settled(s, a) ==
  IF a \in Gone(s)
  THEN IF alert[a].status = "IGNORED" THEN [alert[a] EXCEPT !.cleared = TRUE] ELSE Closed
  ELSE IF a \in sync[s].locked /\ alert[a].status = "ACTIVE"
  THEN [alert[a] EXCEPT !.due = FALSE]
  ELSE alert[a]

SyncFails(s) ==
  \/ \E k \in ToCreate(s) : Clashes(k, None)
  \/ Cardinality(FreeRows) < Cardinality(ToCreate(s))  \* a bound

Commit(s) ==
  /\ sync[s].pc = "holding"
  /\ ~SyncFails(s)
  /\ \E row \in {f \in [ToCreate(s) -> FreeRows] : IsInjective(f)} :
       alert' = [a \in Alerts |->
                   IF \E k \in ToCreate(s) : row[k] = a
                   THEN NewAlert(CHOOSE k \in ToCreate(s) : row[k] = a)
                   ELSE Settled(s, a)]
  /\ newer' = Fronted({a \in Gone(s) : alert[a].status = "IGNORED"})
  /\ sync' = [sync EXCEPT ![s] = NoSync]
  /\ UNCHANGED <<kind, cause, user>>

\* The index refuses a new row, and the whole synchronisation is rolled back.
Abort(s) ==
  /\ sync[s].pc = "holding"
  /\ SyncFails(s)
  /\ sync' = [sync EXCEPT ![s] = NoSync]
  /\ UNCHANGED <<kind, cause, alert, newer, user>>

(***************************************************************************)
(* The buttons of the alert page.                                          *)
(***************************************************************************)
\* Every view first expires the ignored alerts, then reads its alert.
OpenAlert(u, a) ==
  /\ user[u] = NoRequest
  /\ alert[a].status \in {"ACTIVE", "IGNORED"}
  /\ a \notin LapsedRows
  /\ Expire(LapsedRows)
  /\ user' = [user EXCEPT ![u] =
                [alert |-> a, key |-> alert[a].key, status |-> alert[a].status]]
  /\ UNCHANGED <<kind, cause, sync>>

\* A button saves the columns it sets over whatever the row is by now; due
\* is expires_at, which it leaves.
Save(u, status) ==
  LET a == user[u].alert
      k == user[u].key
  IN  /\ a \notin Locked
      /\ IF Clashes(k, a) /\ status # "CLOSED"
         THEN UNCHANGED <<alert, newer>>
         ELSE /\ alert' = [alert EXCEPT ![a] =
                   IF status = "CLOSED" THEN Closed
                   ELSE [NewAlert(k) EXCEPT !.status = status,
                                            !.due = alert[a].due]]
              /\ newer' = Reordered(k, a, status)
      /\ user' = [user EXCEPT ![u] = NoRequest]
      /\ UNCHANGED <<kind, cause, sync>>

IgnoreAlert(u) == user[u].status = "ACTIVE" /\ Save(u, "IGNORED")

\* A managed alert stays RESOLVED while its condition holds, so that the
\* synchronisation does not open another.
ResolveAlert(u) ==
  /\ user[u].status = "ACTIVE"
  /\ Save(u, IF user[u].key \in Managed THEN "RESOLVED" ELSE "CLOSED")

ReactivateIgnoredAlert(u) == user[u].status = "IGNORED" /\ Save(u, "ACTIVE")

\* ignore_all_active_alerts, with or without a filter
IgnoreAllActiveAlerts ==
  \E rows \in SUBSET {a \in Alerts : alert[a].status = "ACTIVE"} :
    /\ rows # {} /\ rows \cap Locked = {}
    /\ alert' = [a \in Alerts |->
                   IF a \in rows THEN [alert[a] EXCEPT !.status = "IGNORED"] ELSE alert[a]]
    /\ newer' = Fronted(rows)
    /\ UNCHANGED <<kind, cause, sync, user>>

Elsewhere ==
  \/ \E k \in Keys : \/ Appear(k) \/ Disappear(k) \/ DatePasses(k)
                      \/ PlaceOrder(k) \/ RaiseNotice(k)
  \/ \E a \in Alerts : SnoozeLapses(a)

SyncStep(s) == ReadCandidates(s) \/ LockRows(s) \/ Commit(s) \/ Abort(s)

ButtonStep(u) == IgnoreAlert(u) \/ ResolveAlert(u) \/ ReactivateIgnoredAlert(u)

Next ==
  \/ Elsewhere
  \/ StartJob
  \/ \E s \in Syncs : SyncStep(s)
  \/ \E u \in Users : (\E a \in Alerts : OpenAlert(u, a)) \/ ButtonStep(u)
  \/ IgnoreAllActiveAlerts

\* The scheduler runs the job again and again, PostgreSQL hands a row to the
\* transactions that wait for it in turn, a request that was begun ends, and
\* time passes.
Fairness ==
  /\ SF_vars(StartJob) /\ SF_vars(LockRows(Job))
  /\ WF_vars(ReadCandidates(Job)) /\ WF_vars(Commit(Job)) /\ WF_vars(Abort(Job))
  /\ \A s \in Pages : SF_vars(LockRows(s)) /\ WF_vars(Commit(s)) /\ WF_vars(Abort(s))
  /\ \A u \in Users : SF_vars(ButtonStep(u))
  /\ \A a \in Alerts : WF_vars(SnoozeLapses(a))

Spec == Init /\ [][Next]_vars /\ Fairness

(***************************************************************************)
(* Properties.                                                             *)
(***************************************************************************)
Shown(k) == \E a \in Alerts : alert[a].key = k /\ alert[a].status = "ACTIVE"

Dealt(k) ==
  \E a \in Alerts :
    alert[a].key = k /\ Open(a) /\ alert[a].status \in {"IGNORED", "RESOLVED"}

\* ignored_map keeps one row of a key.  It is always the one that still
\* counts: if an older one did, every synchronisation of the producer would
\* fail on the index until the snooze ends.
SnoozeIsSeen ==
  \A a \in Alerts :
    alert[a].status = "IGNORED" /\ Open(a) =>
      \A b \in Ignored(alert[a].key) \ {a} : <<a, b>> \in newer

\* "fica oculto enquanto a mesma condicao persistir" (alerts/views.py:209):
\* an alert that the user resolved stays hidden while its condition holds,
\* unless a request that read the alerts or the conditions earlier is still
\* under way.
ResolvedStaysHidden ==
  [][\A a \in Alerts :
       LET k == alert[a].key IN
       /\ alert[a].status = "RESOLVED" /\ cause[k] /\ cause'[k]
       /\ \A s \in Syncs : sync[s].pc \in {"read", "holding"} => k \in sync[s].seen
       /\ \A u \in Users : user[u].alert # a
       => alert'[a] = alert[a]]_vars

\* A condition that lasts is shown, unless the user has dealt with it: no
\* race of synchronisations, buttons and locks hides it for ever.
ConditionsAreShown ==
  \A k \in Keys : k \in Managed /\ cause[k] ~> (Shown(k) \/ Dealt(k) \/ ~cause[k])

\* An alert whose condition has gone for good does not stay.
GoneAlertsClose == \A k \in Keys : k \in Managed /\ ~cause[k] ~> (~Shown(k) \/ cause[k])

\* An alert put off is reminded of later: if its condition lasts, it is shown
\* again, unless the user resolves it.
SnoozedComeBack ==
  \A k \in Keys :
    (k \in Managed /\ \E a \in Ignored(k) : Open(a))
      ~> (Shown(k) \/ ~cause[k] \/
          \E a \in Alerts : alert[a].key = k /\ alert[a].status = "RESOLVED")
=============================================================================
