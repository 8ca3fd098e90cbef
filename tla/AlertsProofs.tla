---------------------------- MODULE AlertsProofs -----------------------------
(***************************************************************************)
(* Alerts for any keys, rows and requests: one row of a key is open, the   *)
(* ignored row that still counts is the one that a synchronisation finds,  *)
(* and a resolved alert stays hidden.                                      *)
(***************************************************************************)
EXTENDS Alerts, TLAPS

AlertRow ==
  [key : Keys \cup {None}, status : {"CLOSED", "ACTIVE", "IGNORED", "RESOLVED"},
   cleared : BOOLEAN, lapsed : BOOLEAN, due : BOOLEAN]

SyncRow ==
  [pc : {"idle", "expired", "read", "holding"}, seen : SUBSET Keys, locked : SUBSET Alerts]

UserRow ==
  [alert : Alerts \cup {None}, key : Keys \cup {None},
   status : {"CLOSED", "ACTIVE", "IGNORED"}]

TablesTyped ==
  /\ kind \in [Keys -> Kinds] /\ cause \in [Keys -> BOOLEAN]
  /\ alert \in [Alerts -> AlertRow]
  /\ sync \in [Syncs -> SyncRow]
  /\ user \in [Users -> UserRow]

\* A row is closed and empty, or an alert of a key; only ignored ones are
\* cleared without being closed, and only managed ones resolved.
RowGood(a) ==
  /\ alert[a].status = "CLOSED" => alert[a] = Closed
  /\ alert[a].status # "CLOSED" => alert[a].key \in Keys
  /\ alert[a].cleared => alert[a].status = "IGNORED"
  /\ alert[a].status = "RESOLVED" => alert[a].key \in Managed

\* The unique index.
OneOpen ==
  \A a, b \in Alerts : a # b /\ Open(a) /\ Open(b) => alert[a].key # alert[b].key

\* The key for which a row is in the tab of the ignored ones.
IgnoredKey(a) == IF alert[a].status = "IGNORED" THEN alert[a].key ELSE None

Ranked ==
  /\ newer \subseteq Alerts \X Alerts
  /\ \A a, b \in Alerts :
       /\ a # b /\ IgnoredKey(a) = IgnoredKey(b) /\ IgnoredKey(a) # None
            <=> <<a, b>> \in newer \/ <<b, a>> \in newer
       /\ <<a, b>> \in newer => <<b, a>> \notin newer
  /\ \A a, b, c \in Alerts :
       <<a, b>> \in newer /\ <<b, c>> \in newer => <<a, c>> \in newer

Seen ==
  \A a, b \in Alerts :
    a # b /\ IgnoredKey(a) # None /\ IgnoredKey(b) = IgnoredKey(a) /\ Open(a)
      => <<a, b>> \in newer

\* The row a button request read is still an alert of that key, or was
\* closed and not used again.
UserGood(u) ==
  \/ user[u] = NoRequest
  \/ /\ user[u].alert \in Alerts /\ user[u].key \in Keys
     /\ user[u].status \in {"ACTIVE", "IGNORED"}
     /\ alert[user[u].alert] = Closed \/ alert[user[u].alert].key = user[u].key

UsersAgree ==
  \A u, v \in Users : user[u].alert = user[v].alert => user[u].key = user[v].key

AlertsInv ==
  /\ TablesTyped
  /\ \A a \in Alerts : RowGood(a)
  /\ OneOpen
  /\ Ranked
  /\ Seen
  /\ \A u \in Users : UserGood(u)
  /\ UsersAgree

LEMMA Meaning ==
  ASSUME AlertsInv
  PROVE  AlertsTypeOK /\ SnoozeIsSeen
  <1>1. \A a \in Alerts : IgnoredKey(a) # None <=> alert[a].status = "IGNORED"
    BY AlertsAssumption DEF AlertsAssumption, AlertsInv, RowGood, IgnoredKey
  <1>2. \A a, b \in Alerts :
          Comparable(a, b) <=> a # b /\ IgnoredKey(a) = IgnoredKey(b) /\ IgnoredKey(a) # None
    <2> SUFFICES ASSUME NEW a \in Alerts, NEW b \in Alerts
                 PROVE  (\E k \in Keys : a \in Ignored(k) /\ b \in Ignored(k))
                          <=> IgnoredKey(a) = IgnoredKey(b) /\ IgnoredKey(a) # None
      BY DEF Comparable
    <2>1. RowGood(a) /\ RowGood(b)
      BY DEF AlertsInv
    <2> QED
      BY <1>1, <2>1, AlertsAssumption
      DEF AlertsAssumption, RowGood, IgnoredKey, Ignored
  <1>3. AlertsTypeOK
    BY <1>2 DEF AlertsInv, TablesTyped, Ranked, AlertsTypeOK, AlertRow, SyncRow, UserRow
  <1>4. SnoozeIsSeen
    <2> SUFFICES ASSUME NEW a \in Alerts, alert[a].status = "IGNORED", Open(a),
                        NEW b \in Ignored(alert[a].key) \ {a}
                 PROVE  <<a, b>> \in newer
      BY DEF SnoozeIsSeen
    <2>1. b \in Alerts /\ IgnoredKey(b) = IgnoredKey(a) /\ IgnoredKey(a) # None
      BY <1>1 DEF Ignored, IgnoredKey
    <2> QED
      BY <2>1 DEF AlertsInv, Seen
  <1> QED
    BY <1>3, <1>4

(***************************************************************************)
(* The order of the ignored rows.                                          *)
(***************************************************************************)
\* The rows in drop lose their place and those in front are the newest of
\* their keys.
Placed(drop, front) ==
  Without(drop) \cup
    {p \in Alerts \X Alerts : /\ p[1] \in front /\ p[2] \notin drop
                              /\ IgnoredKey(p[2]) = IgnoredKey(p[1])'}

LEMMA Reranked ==
  ASSUME Ranked, Seen,
         NEW drop \in SUBSET Alerts, NEW front \in SUBSET drop,
         \A a \in Alerts \ drop :
           /\ IgnoredKey(a)' = IgnoredKey(a)
           /\ IgnoredKey(a) # None /\ Open(a)' =>
                Open(a) /\ \A b \in front : IgnoredKey(b)' # IgnoredKey(a),
         \A a \in drop \ front : IgnoredKey(a)' = None,
         \A a \in front : IgnoredKey(a)' # None,
         \A a, b \in front : a # b => IgnoredKey(a)' # IgnoredKey(b)',
         newer' = Placed(drop, front)
  PROVE  Ranked' /\ Seen'
  <1>1. ASSUME NEW a \in Alerts, NEW b \in Alerts
        PROVE  <<a, b>> \in newer' <=>
                 \/ a \notin drop /\ b \notin drop /\ <<a, b>> \in newer
                 \/ a \in front /\ b \notin drop /\ IgnoredKey(b) = IgnoredKey(a)'
    BY DEF Placed, Without
  <1>2. newer' \subseteq Alerts \X Alerts
    BY DEF Placed, Without, Ranked
  <1>3. ASSUME NEW a \in Alerts, NEW b \in Alerts
        PROVE  /\ a # b /\ IgnoredKey(a)' = IgnoredKey(b)' /\ IgnoredKey(a)' # None
                    <=> <<a, b>> \in newer' \/ <<b, a>> \in newer'
               /\ <<a, b>> \in newer' => <<b, a>> \notin newer'
    <2>1. CASE a \notin drop /\ b \notin drop
      BY <1>1, <2>1 DEF Ranked
    <2>2. CASE a \in front /\ b \notin drop
      BY <1>1, <2>2
    <2>3. CASE a \notin drop /\ b \in front
      BY <1>1, <2>3
    <2>4. CASE a \in drop /\ b \in drop
      BY <1>1, <2>4
    <2>5. CASE a \in drop \ front \/ b \in drop \ front
      BY <1>1, <2>5
    <2> QED
      BY <2>1, <2>2, <2>3, <2>4, <2>5
  <1>4. ASSUME NEW a \in Alerts, NEW b \in Alerts, NEW c \in Alerts,
               <<a, b>> \in newer', <<b, c>> \in newer'
        PROVE  <<a, c>> \in newer'
    <2>1. b \notin drop /\ c \notin drop /\ <<b, c>> \in newer
      BY <1>1, <1>4
    <2>2. IgnoredKey(c) = IgnoredKey(b)
      BY <2>1 DEF Ranked
    <2> QED
      BY <1>1, <1>4, <2>1, <2>2 DEF Ranked
  <1>5. ASSUME NEW a \in Alerts, NEW b \in Alerts, a # b, IgnoredKey(a)' # None,
               IgnoredKey(b)' = IgnoredKey(a)', Open(a)'
        PROVE  <<a, b>> \in newer'
    <2>1. CASE a \in front
      BY <1>1, <1>5, <2>1
    <2>2. CASE a \notin drop
      <3>1. b \notin drop
        BY <1>5, <2>2
      <3> QED
        BY <1>1, <1>5, <2>2, <3>1 DEF Seen
    <2> QED
      BY <1>5, <2>1, <2>2
  <1>6. Ranked'
    BY <1>2, <1>3, <1>4 DEF Ranked
  <1>7. Seen'
    BY <1>5 DEF Seen
  <1> QED
    BY <1>6, <1>7

(***************************************************************************)
(* One lemma per kind of step.                                             *)
(***************************************************************************)
LEMMA ClosedFacts ==
  /\ Closed \in AlertRow /\ Closed.status = "CLOSED" /\ Closed.key = None
  /\ Closed.cleared = FALSE
  BY DEF Closed, AlertRow

LEMMA ClosedGood ==
  ASSUME NEW a, alert'[a] = Closed
  PROVE  RowGood(a)' /\ ~Open(a)' /\ IgnoredKey(a)' = None
  BY ClosedFacts DEF RowGood, Open, IgnoredKey

LEMMA SameGood ==
  ASSUME NEW a, RowGood(a), alert'[a] = alert[a], kind' = kind
  PROVE  RowGood(a)' /\ Open(a)' = Open(a) /\ IgnoredKey(a)' = IgnoredKey(a)
  BY DEF RowGood, Open, IgnoredKey, Managed, Closed

SameRow(a) ==
  \/ alert'[a] = alert[a]
  \/ /\ alert[a].status # "CLOSED"
     /\ alert'[a].key = alert[a].key
     /\ alert'[a].status = alert[a].status
     /\ alert'[a].cleared = alert[a].cleared

\* Nothing but dates and requests changes.
LEMMA Unmoved ==
  ASSUME AlertsInv, TablesTyped', kind' = kind, newer' = newer,
         \A a \in Alerts : SameRow(a),
         \A u \in Users : user'[u] = user[u] \/ user'[u] = NoRequest
  PROVE  AlertsInv'
  <1>1. ASSUME NEW a \in Alerts
        PROVE  /\ RowGood(a)' /\ IgnoredKey(a)' = IgnoredKey(a) /\ Open(a)' = Open(a)
               /\ alert'[a].key = alert[a].key
               /\ alert[a] = Closed => alert'[a] = Closed
    <2>1. RowGood(a) /\ SameRow(a)
      BY DEF AlertsInv
    <2>2. CASE alert'[a] = alert[a]
      BY <2>1, <2>2, SameGood
    <2>3. CASE /\ alert[a].status # "CLOSED"
               /\ alert'[a].key = alert[a].key
               /\ alert'[a].status = alert[a].status
               /\ alert'[a].cleared = alert[a].cleared
      BY <2>1, <2>3, ClosedFacts DEF RowGood, IgnoredKey, Open, Managed
    <2> QED
      BY <2>1, <2>2, <2>3 DEF SameRow
  <1>2. OneOpen'
    BY <1>1 DEF AlertsInv, OneOpen
  <1>3. Ranked' /\ Seen'
    BY <1>1 DEF AlertsInv, Ranked, Seen
  <1>4. ASSUME NEW u \in Users PROVE UserGood(u)'
    <2>1. CASE user'[u] = NoRequest
      BY <2>1 DEF UserGood
    <2>2. CASE user'[u] = user[u] /\ user[u] # NoRequest
      <3>1. UserGood(u)
        BY DEF AlertsInv
      <3> QED
        BY <1>1, <2>2, <3>1 DEF UserGood
    <2> QED
      BY <2>1, <2>2
  <1>5. UsersAgree'
    <2> SUFFICES ASSUME NEW u \in Users, NEW v \in Users, user'[u].alert = user'[v].alert
                 PROVE  user'[u].key = user'[v].key
      BY DEF UsersAgree
    <2>1. UserGood(u) /\ UserGood(v) /\ UsersAgree
      BY DEF AlertsInv
    <2> QED
      BY <2>1, AlertsAssumption DEF AlertsAssumption, UserGood, UsersAgree, NoRequest
  <1> QED
    BY <1>1, <1>2, <1>3, <1>4, <1>5 DEF AlertsInv

\* What a button holds stays good if the row is closed or keeps its key.
LEMMA HeldAlerts ==
  ASSUME AlertsInv,
         \A v \in Users :
           \/ user'[v] = NoRequest
           \/ /\ user'[v] = user[v]
              /\ \/ user[v] = NoRequest
                 \/ alert'[user[v].alert] = Closed
                 \/ alert'[user[v].alert].key = user[v].key
                 \/ alert'[user[v].alert] = alert[user[v].alert]
  PROVE  (\A v \in Users : UserGood(v)') /\ UsersAgree'
  <1>1. ASSUME NEW v \in Users PROVE UserGood(v)'
    <2>1. UserGood(v)
      BY DEF AlertsInv
    <2>2. CASE user'[v] = NoRequest
      BY <2>2 DEF UserGood
    <2>3. CASE user'[v] # NoRequest
      <3>1. /\ user'[v] = user[v] /\ user[v].alert \in Alerts /\ user[v].key \in Keys
            /\ user[v].status \in {"ACTIVE", "IGNORED"}
            /\ alert[user[v].alert] = Closed \/ alert[user[v].alert].key = user[v].key
        BY <2>1, <2>3 DEF UserGood
      <3>2. alert'[user[v].alert] = Closed \/ alert'[user[v].alert].key = user[v].key
        BY <2>3, <3>1
      <3> QED
        BY <3>1, <3>2 DEF UserGood
    <2> QED
      BY <2>2, <2>3
  <1>2. ASSUME NEW u \in Users, NEW v \in Users, user'[u].alert = user'[v].alert
        PROVE  user'[u].key = user'[v].key
    <2>1. UserGood(u) /\ UserGood(v) /\ UsersAgree
      BY DEF AlertsInv
    <2> QED
      BY <1>2, <2>1, AlertsAssumption
      DEF AlertsAssumption, UserGood, UsersAgree, NoRequest
  <1> QED
    BY <1>1, <1>2 DEF UsersAgree

\* Expiry closes rows.
LEMMA ExpireInv ==
  ASSUME AlertsInv, NEW rows \in SUBSET Alerts, Expire(rows), kind' = kind
  PROVE  /\ \A a \in Alerts : RowGood(a)'
         /\ OneOpen' /\ Ranked' /\ Seen'
         /\ alert' \in [Alerts -> AlertRow]
  <1>1. \A a \in Alerts : alert'[a] = IF a \in rows THEN Closed ELSE alert[a]
    BY DEF Expire
  <1>2. alert' \in [Alerts -> AlertRow]
    BY ClosedFacts DEF Expire, AlertsInv, TablesTyped
  <1>3. ASSUME NEW a \in Alerts PROVE RowGood(a)'
    BY <1>1, ClosedGood, SameGood DEF AlertsInv
  <1>4. OneOpen'
    BY <1>1, ClosedFacts DEF AlertsInv, OneOpen, Open
  <1>5. \A a \in Alerts : /\ a \in rows => IgnoredKey(a)' = None
                          /\ a \notin rows => /\ IgnoredKey(a)' = IgnoredKey(a)
                                              /\ Open(a)' = Open(a)
    BY <1>1, ClosedFacts DEF IgnoredKey, Open
  <1>6. newer' = Placed(rows, {})
    BY DEF Expire, Placed
  <1>7. Ranked' /\ Seen'
    BY <1>5, <1>6, Reranked DEF AlertsInv
  <1> QED
    BY <1>2, <1>3, <1>4, <1>7 DEF AlertsInv

\* An alert is raised on the open row of its key or on a free one.
LEMMA RaiseInv ==
  ASSUME AlertsInv, TablesTyped', NEW k \in Keys, Raise(k), kind' = kind, user' = user
  PROVE  AlertsInv'
  <1> DEFINE open == {a \in Alerts : alert[a].key = k /\ Open(a)}
  <1>1. PICK a \in (IF open = {} THEN FreeRows ELSE open \ Locked) :
          /\ alert' = [alert EXCEPT ![a].key = k, ![a].status = "ACTIVE",
                                    ![a].lapsed = FALSE]
          /\ newer' = Reordered(k, a, "ACTIVE")
    BY DEF Raise
  <1>2. /\ a \in Alerts /\ RowGood(a) /\ alert[a] \in AlertRow
        /\ alert[a].cleared = FALSE
        /\ \A b \in Alerts \ {a} : Open(b) => alert[b].key # k
        /\ (\E u \in Users : user[u].alert = a) => alert[a].key = k
    BY <1>1, ClosedFacts DEF FreeRows, Open, AlertsInv, TablesTyped, OneOpen
  <1>3. /\ alert'[a].key = k /\ alert'[a].status = "ACTIVE" /\ alert'[a].cleared = FALSE
        /\ \A b \in Alerts \ {a} : alert'[b] = alert[b]
    BY <1>1, <1>2 DEF AlertsInv, TablesTyped, AlertRow
  <1>4. ASSUME NEW b \in Alerts
        PROVE  /\ RowGood(b)'
               /\ b # a => /\ Open(b)' = Open(b) /\ IgnoredKey(b)' = IgnoredKey(b)
                           /\ alert'[b].key = alert[b].key
    <2>1. CASE b = a
      BY <1>3, <2>1 DEF RowGood
    <2>2. CASE b # a
      BY <1>3, <2>2, SameGood DEF AlertsInv
    <2> QED
      BY <2>1, <2>2
  <1>5. OneOpen'
    BY <1>2, <1>3, <1>4 DEF AlertsInv, OneOpen
  <1>6. Ranked' /\ Seen'
    <2>1. newer' = Placed({a}, {})
      BY <1>1 DEF Reordered, Placed
    <2>2. IgnoredKey(a)' = None
      BY <1>3 DEF IgnoredKey
    <2> QED
      BY <1>2, <1>4, <2>1, <2>2, Reranked DEF AlertsInv
  <1>7. (\A u \in Users : UserGood(u)') /\ UsersAgree'
    <2> SUFFICES ASSUME NEW u \in Users, user[u] # NoRequest
                 PROVE  \/ alert'[user[u].alert].key = user[u].key
                        \/ alert'[user[u].alert] = alert[user[u].alert]
      BY HeldAlerts
    <2>1. UserGood(u)
      BY DEF AlertsInv
    <2>2. CASE user[u].alert = a
      BY <1>2, <1>3, <2>1, <2>2, <1>1, ClosedFacts DEF UserGood, FreeRows, Open
    <2>3. CASE user[u].alert # a
      BY <1>3, <2>1, <2>3 DEF UserGood
    <2> QED
      BY <2>2, <2>3
  <1> QED
    BY <1>4, <1>5, <1>6, <1>7 DEF AlertsInv

\* A button saves its row.
LEMMA SaveInv ==
  ASSUME AlertsInv, TablesTyped', NEW u \in Users,
         NEW status \in {"CLOSED", "ACTIVE", "IGNORED", "RESOLVED"},
         user[u].status # "CLOSED", status = "RESOLVED" => user[u].key \in Managed,
         Save(u, status)
  PROVE  AlertsInv'
  <1>0. PICK a \in Alerts, k \in Keys :
          /\ a = user[u].alert /\ k = user[u].key
          /\ alert[a] = Closed \/ alert[a].key = k
    BY DEF AlertsInv, UserGood, NoRequest
  <1>1. /\ alert[a] \in AlertRow
        /\ alert[a] = Closed \/ alert[a].key = k
    BY <1>0 DEF AlertsInv, TablesTyped
  <1>2. /\ kind' = kind
        /\ \A v \in Users : user'[v] = user[v] \/ user'[v] = NoRequest
    BY DEF Save, AlertsInv, TablesTyped
  <1>3. CASE Clashes(k, a) /\ status # "CLOSED"
    <2>1. newer' = newer /\ alert' = alert
      BY <1>0, <1>3 DEF Save
    <2> QED
      BY <1>2, <2>1, Unmoved DEF SameRow
  <1>4. CASE ~(Clashes(k, a) /\ status # "CLOSED")
    <2> DEFINE row == IF status = "CLOSED" THEN Closed
                      ELSE [NewAlert(k) EXCEPT !.status = status, !.due = alert[a].due]
    <2>1. alert' = [alert EXCEPT ![a] = row] /\ newer' = Reordered(k, a, status)
      BY <1>0, <1>4 DEF Save
    <2>2. /\ alert'[a] = row
          /\ \A b \in Alerts \ {a} : alert'[b] = alert[b]
      BY <1>1, <2>1 DEF AlertsInv, TablesTyped
    <2>3. /\ status = "CLOSED" => row = Closed
          /\ status # "CLOSED" => row.key = k /\ row.status = status /\ row.cleared = FALSE
      BY DEF NewAlert, Closed
    <2> HIDE DEF row
    <2>4. ASSUME NEW b \in Alerts
          PROVE  /\ RowGood(b)'
                 /\ b # a => /\ Open(b)' = Open(b) /\ IgnoredKey(b)' = IgnoredKey(b)
                             /\ alert'[b].key = alert[b].key
      <3>1. CASE b = a
        <4>1. CASE status = "CLOSED"
          BY <2>2, <2>3, <3>1, <4>1, ClosedGood
        <4>2. CASE status # "CLOSED"
          BY <1>0, <1>2, <2>2, <2>3, <3>1, <4>2 DEF RowGood, Managed
        <4> QED
          BY <4>1, <4>2
      <3>2. CASE b # a
        BY <1>2, <2>2, <3>2, SameGood DEF AlertsInv
      <3> QED
        BY <3>1, <3>2
    <2>5. \A b \in Alerts \ {a} : Open(b) /\ Open(a)' => alert[b].key # alert'[a].key
      BY <1>4, <2>2, <2>3, ClosedFacts DEF Clashes, Open
    <2>6. OneOpen'
      BY <2>4, <2>5 DEF AlertsInv, OneOpen
    <2>7. Ranked' /\ Seen'
      <3> DEFINE front == IF status = "IGNORED" THEN {a} ELSE {}
      <3>1. IgnoredKey(a)' = IF status = "IGNORED" THEN k ELSE None
        BY <2>2, <2>3, ClosedFacts DEF IgnoredKey
      <3>2. newer' = Placed({a}, front)
        <4>1. \A b \in Alerts : b \in Ignored(k) <=> IgnoredKey(b) = k
          BY <1>1, AlertsAssumption DEF AlertsAssumption, Ignored, IgnoredKey
        <4>2. Ignored(k) \subseteq Alerts
          BY DEF Ignored
        <4> QED
          BY <1>1, <2>1, <3>1, <4>1, <4>2 DEF Reordered, Placed
      <3>3. \A b \in Alerts \ {a} :
              IgnoredKey(b) # None /\ Open(b) /\ status = "IGNORED" => k # IgnoredKey(b)
        BY <2>2, <2>3, <2>5 DEF IgnoredKey, Open
      <3>4. k # None
        BY <1>1, AlertsAssumption DEF AlertsAssumption
      <3> QED
        BY <1>1, <2>4, <3>1, <3>2, <3>3, <3>4, Reranked DEF AlertsInv
    <2>8. (\A v \in Users : UserGood(v)') /\ UsersAgree'
      <3> SUFFICES ASSUME NEW v \in Users, user[v] # NoRequest
                   PROVE  \/ alert'[user[v].alert] = Closed
                          \/ alert'[user[v].alert].key = user[v].key
                          \/ alert'[user[v].alert] = alert[user[v].alert]
        BY <1>2, HeldAlerts
      <3>1. UserGood(v) /\ UsersAgree
        BY DEF AlertsInv
      <3> QED
        BY <1>0, <2>2, <2>3, <3>1 DEF UserGood, UsersAgree
    <2> QED
      BY <1>2, <2>4, <2>6, <2>7, <2>8 DEF AlertsInv
  <1> QED
    BY <1>3, <1>4

LEMMA IgnoredRows ==
  ASSUME NEW k \in Keys, NEW b \in Alerts
  PROVE  b \in Ignored(k) <=> IgnoredKey(b) = k
  BY AlertsAssumption DEF AlertsAssumption, Ignored, IgnoredKey

LEMMA FrontedPlaced ==
  ASSUME NEW rows \in SUBSET Alerts,
         \A a \in rows : alert[a].key \in Keys /\ IgnoredKey(a)' = alert[a].key
  PROVE  Fronted(rows) = Placed(rows, rows)
  <1> DEFINE front == UNION {{a} \X (Ignored(alert[a].key) \ rows) : a \in rows}
             front2 == {p \in Alerts \X Alerts : /\ p[1] \in rows /\ p[2] \notin rows
                                                 /\ IgnoredKey(p[2]) = IgnoredKey(p[1])'}
  <1>1. \A a, b \in Alerts : <<a, b>> \in front2 <=>
          a \in rows /\ b \notin rows /\ IgnoredKey(b) = alert[a].key
    OBVIOUS
  <1>2. \A a, b \in Alerts : <<a, b>> \in front <=>
          a \in rows /\ b \in Ignored(alert[a].key) /\ b \notin rows
    OBVIOUS
  <1>3. \A a \in rows, b \in Alerts : b \in Ignored(alert[a].key) <=> IgnoredKey(b) = alert[a].key
    BY IgnoredRows
  <1>4. front \subseteq Alerts \X Alerts /\ front2 \subseteq Alerts \X Alerts
    BY DEF Ignored
  <1>5. front = front2
    <2> HIDE DEF front, front2
    <2>1. \A p \in Alerts \X Alerts : p \in front <=> p \in front2
      BY <1>1, <1>2, <1>3
    <2> QED
      BY <1>4, <2>1
  <1> QED
    BY <1>5 DEF Fronted, Placed

\* The bulk button.
LEMMA IgnoreAllInv ==
  ASSUME AlertsInv, IgnoreAllActiveAlerts
  PROVE  AlertsInv'
  <1>1. PICK rows \in SUBSET {a \in Alerts : alert[a].status = "ACTIVE"} :
          /\ alert' = [a \in Alerts |->
               IF a \in rows THEN [alert[a] EXCEPT !.status = "IGNORED"] ELSE alert[a]]
          /\ newer' = Fronted(rows)
    BY DEF IgnoreAllActiveAlerts
  <1>2. UNCHANGED <<kind, cause, sync, user>>
    BY DEF IgnoreAllActiveAlerts
  <1>3. ASSUME NEW a \in rows
        PROVE  /\ a \in Alerts /\ alert[a].key \in Keys /\ Open(a)
               /\ alert'[a] \in AlertRow
               /\ alert'[a].key = alert[a].key /\ alert'[a].status = "IGNORED"
               /\ alert'[a].cleared = FALSE
    <2> DEFINE row == [alert[a] EXCEPT !.status = "IGNORED"]
    <2>1. a \in Alerts /\ alert[a].status = "ACTIVE" /\ alert[a] \in AlertRow /\ RowGood(a)
      BY DEF AlertsInv, TablesTyped
    <2>2. alert[a].key \in Keys /\ alert[a].cleared = FALSE
      BY <2>1 DEF RowGood, AlertRow
    <2>3. row \in AlertRow /\ row.key = alert[a].key /\ row.status = "IGNORED"
            /\ row.cleared = alert[a].cleared
      BY <2>1 DEF AlertRow
    <2>4. alert'[a] = row
      BY <1>1, <2>1
    <2> QED
      BY <2>1, <2>2, <2>3, <2>4 DEF Open
  <1>4. \A b \in Alerts \ rows : alert'[b] = alert[b]
    BY <1>1
  <1>5. TablesTyped'
    <2>1. alert' \in [Alerts -> AlertRow]
      <3>1. \A a \in Alerts : alert'[a] \in AlertRow
        BY <1>3, <1>4 DEF AlertsInv, TablesTyped
      <3>2. alert' = [a \in Alerts |-> alert'[a]]
        BY <1>1
      <3> QED
        BY <3>1, <3>2
    <2> QED
      BY <1>2, <2>1 DEF AlertsInv, TablesTyped
  <1>6. ASSUME NEW a \in Alerts
        PROVE  /\ RowGood(a)'
               /\ Open(a)' => Open(a)
               /\ alert'[a].key = alert[a].key
               /\ a \notin rows => IgnoredKey(a)' = IgnoredKey(a)
    <2>1. CASE a \in rows
      BY <1>3, <2>1 DEF RowGood
    <2>2. CASE a \notin rows
      BY <1>2, <1>4, <2>2, SameGood DEF AlertsInv
    <2> QED
      BY <2>1, <2>2
  <1>7. OneOpen'
    BY <1>6 DEF AlertsInv, OneOpen
  <1>8. Ranked' /\ Seen'
    <2>1. ASSUME NEW a \in rows
          PROVE  IgnoredKey(a)' = alert[a].key /\ IgnoredKey(a)' # None
      <3>1. alert'[a].key = alert[a].key /\ alert'[a].status = "IGNORED" /\ alert[a].key \in Keys
        BY <1>3
      <3> QED
        BY <3>1, AlertsAssumption DEF AlertsAssumption, IgnoredKey
    <2>2. rows \in SUBSET Alerts
      BY <1>3
    <2>3. newer' = Placed(rows, rows)
      BY <1>1, <1>3, <2>1, <2>2, FrontedPlaced
    <2>4. \A a, b \in rows : a # b => alert[a].key # alert[b].key
      BY <1>3 DEF AlertsInv, OneOpen
    <2>5. ASSUME NEW a \in Alerts \ rows, IgnoredKey(a) # None, Open(a)', NEW b \in rows
          PROVE  IgnoredKey(b)' # IgnoredKey(a)
      <3>1. Open(a) /\ Open(b) /\ a # b /\ b \in Alerts
        BY <1>3, <1>6, <2>5
      <3>2. alert[a].key # alert[b].key
        BY <3>1 DEF AlertsInv, OneOpen
      <3>3. IgnoredKey(a) = alert[a].key
        BY <2>5 DEF IgnoredKey
      <3>4. IgnoredKey(b)' = alert[b].key
        BY <2>1
      <3> QED
        BY <3>2, <3>3, <3>4
    <2> QED
      BY <1>6, <2>1, <2>2, <2>3, <2>4, <2>5, Reranked DEF AlertsInv
  <1>9. (\A v \in Users : UserGood(v)') /\ UsersAgree'
    <2> SUFFICES ASSUME NEW v \in Users, user[v] # NoRequest
                 PROVE  \/ alert'[user[v].alert] = alert[user[v].alert]
                        \/ alert'[user[v].alert].key = user[v].key
      BY <1>2, HeldAlerts
    <2>1. UserGood(v)
      BY DEF AlertsInv
    <2>2. PICK a \in Alerts : a = user[v].alert
      BY <2>1 DEF UserGood
    <2>3. CASE a \in rows
      BY <1>3, <2>1, <2>2, <2>3, ClosedFacts DEF UserGood, Open
    <2> QED
      BY <1>4, <2>2, <2>3
  <1> QED
    BY <1>5, <1>6, <1>7, <1>8, <1>9 DEF AlertsInv

(***************************************************************************)
(* A synchronisation writes.                                               *)
(***************************************************************************)
\* What a synchronisation goes by is open and of a managed key.
LEMMA CurrentOpen ==
  ASSUME AlertsInv, NEW s \in Syncs, NEW k \in Keys, NEW a \in Current(s, k)
  PROVE  a \in Alerts /\ a \in sync[s].locked /\ alert[a].key = k /\ Open(a)
  <1>1. sync[s] \in SyncRow
    BY DEF AlertsInv, TablesTyped
  <1>2. /\ a \in sync[s].locked /\ alert[a].key = k
        /\ \/ alert[a].status \in {"ACTIVE", "RESOLVED"}
           \/ alert[a].status = "IGNORED" /\ ~alert[a].cleared
    BY DEF Current, RowOf, LastIgnored
  <1>3. a \in Alerts
    BY <1>1, <1>2 DEF SyncRow
  <1> QED
    BY <1>2, <1>3 DEF AlertsInv, RowGood, Open

LEMMA GoneOpen ==
  ASSUME AlertsInv, NEW s \in Syncs, NEW a \in Gone(s)
  PROVE  /\ a \in Alerts /\ Open(a)
         /\ alert[a].key \in Managed \ sync[s].seen /\ alert[a].key \in Keys
  <1>1. PICK k \in Managed \ sync[s].seen : a \in Current(s, k)
    BY DEF Gone
  <1> QED
    BY <1>1, CurrentOpen DEF Managed

Cleared(a) == [alert[a] EXCEPT !.cleared = TRUE]

\* What a synchronisation does to a row: nothing but to its date, it gives a
\* free row to a condition without an open alert, closes the alert of a
\* condition that is gone, or clears it if it is ignored.
WrittenBy(s, a) ==
  \/ alert'[a] = alert[a]
  \/ alert[a].status = "ACTIVE" /\ alert'[a] = [alert[a] EXCEPT !.due = FALSE]
  \/ /\ a \in FreeRows
     /\ \E k \in ToCreate(s) : alert'[a] = NewAlert(k)
  \/ a \in Gone(s) /\ alert[a].status # "IGNORED" /\ alert'[a] = Closed
  \/ a \in Gone(s) /\ alert[a].status = "IGNORED" /\ alert'[a] = Cleared(a)

LEMMA CommitRows ==
  ASSUME AlertsInv, NEW s \in Syncs, Commit(s)
  PROVE  /\ \A a \in Alerts : WrittenBy(s, a)
         /\ \A a, b \in FreeRows :
              a # b /\ Open(a)' /\ Open(b)' => alert'[a].key # alert'[b].key
         /\ alert' = [a \in Alerts |-> alert'[a]]
  <1>1. PICK row \in [ToCreate(s) -> FreeRows] :
          /\ \A k, l \in ToCreate(s) : row[k] = row[l] => k = l
          /\ alert' = [a \in Alerts |->
               IF \E k \in ToCreate(s) : row[k] = a
               THEN NewAlert(CHOOSE k \in ToCreate(s) : row[k] = a)
               ELSE Settled(s, a)]
    BY DEF Commit, IsInjective
  <1>2. ASSUME NEW a \in Alerts, NEW k \in ToCreate(s), row[k] = a
        PROVE  a \in FreeRows /\ alert'[a] = NewAlert(k)
    <2>1. (CHOOSE l \in ToCreate(s) : row[l] = a) = k
      BY <1>1, <1>2
    <2> QED
      BY <1>1, <1>2, <2>1
  <1>3. ASSUME NEW a \in Alerts, ~ \E k \in ToCreate(s) : row[k] = a
        PROVE  /\ alert'[a] = Settled(s, a)
               /\ WrittenBy(s, a)
    <2>1. alert'[a] = Settled(s, a)
      BY <1>1, <1>3
    <2> QED
      BY <2>1 DEF Settled, WrittenBy, Cleared
  <1>4. ASSUME NEW a \in Alerts PROVE WrittenBy(s, a)
    <2>1. CASE \E k \in ToCreate(s) : row[k] = a
      BY <1>2, <2>1 DEF WrittenBy
    <2> QED
      BY <1>3, <2>1
  <1>5. ASSUME NEW a \in FreeRows, NEW b \in FreeRows, a # b, Open(a)', Open(b)'
        PROVE  alert'[a].key # alert'[b].key
    <2>1. a \in Alerts /\ b \in Alerts /\ alert[a] = Closed /\ alert[b] = Closed
      BY DEF FreeRows
    <2>2. ASSUME NEW c \in FreeRows, Open(c)'
          PROVE  \E k \in ToCreate(s) : row[k] = c
      <3>1. SUFFICES ASSUME ~ \E k \in ToCreate(s) : row[k] = c PROVE FALSE
        OBVIOUS
      <3>2. c \in Alerts /\ alert[c] = Closed
        BY DEF FreeRows
      <3>3. alert'[c] = Settled(s, c)
        BY <1>3, <3>1, <3>2
      <3>4. c \notin Gone(s)
        BY <3>2, GoneOpen, ClosedFacts DEF Open
      <3>5. alert'[c] = Closed
        BY <3>2, <3>3, <3>4, ClosedFacts DEF Settled
      <3> QED
        BY <2>2, <3>5, ClosedFacts DEF Open
    <2>3. PICK k \in ToCreate(s) : row[k] = a
      BY <1>5, <2>2
    <2>4. PICK l \in ToCreate(s) : row[l] = b
      BY <1>5, <2>2
    <2>5. k # l
      BY <1>5, <2>3, <2>4
    <2>6. alert'[a] = NewAlert(k) /\ alert'[b] = NewAlert(l)
      BY <1>2, <2>1, <2>3, <2>4
    <2>7. NewAlert(k).key = k /\ NewAlert(l).key = l
      BY DEF NewAlert, Closed
    <2> QED
      BY <2>5, <2>6, <2>7
  <1> QED
    BY <1>1, <1>4, <1>5

LEMMA CommitInv ==
  ASSUME AlertsInv, NEW s \in Syncs, Commit(s)
  PROVE  AlertsInv'
  <1> DEFINE kept == {a \in Gone(s) : alert[a].status = "IGNORED"}
  <1>1. UNCHANGED <<kind, cause, user>> /\ newer' = Fronted(kept)
          /\ sync' = [sync EXCEPT ![s] = NoSync]
    BY DEF Commit
  <1>2. \A k \in ToCreate(s) : k \in Keys /\ \A b \in Alerts : Open(b) => alert[b].key # k
    <2>1. sync[s] \in SyncRow
      BY DEF AlertsInv, TablesTyped
    <2>2. \A k \in ToCreate(s) : ~Clashes(k, None)
      BY DEF Commit, SyncFails
    <2> QED
      BY <2>1, <2>2, AlertsAssumption
      DEF AlertsAssumption, ToCreate, SyncRow, Clashes
  \* What becomes of a row.
  <1>3. ASSUME NEW a \in Alerts
        PROVE  /\ alert'[a] \in AlertRow /\ RowGood(a)'
               /\ Open(a)' =>
                    \/ Open(a) /\ alert'[a].key = alert[a].key
                    \/ a \in FreeRows /\ alert'[a].key \in ToCreate(s)
               /\ a \notin kept => IgnoredKey(a)' = IgnoredKey(a)
               /\ a \in kept => alert'[a].key = alert[a].key /\ alert'[a].status = "IGNORED"
               /\ \/ alert'[a] = Closed
                  \/ alert'[a].key = alert[a].key
                  \/ a \in FreeRows
    <2>0. RowGood(a) /\ alert[a] \in AlertRow /\ WrittenBy(s, a)
      BY CommitRows DEF AlertsInv, TablesTyped
    <2>1. CASE alert'[a] = alert[a] /\ a \notin kept
      BY <1>1, <2>0, <2>1, SameGood
    <2>2. CASE alert[a].status = "ACTIVE" /\ alert'[a] = [alert[a] EXCEPT !.due = FALSE]
      <3>1. /\ alert'[a] \in AlertRow /\ alert'[a].key = alert[a].key
            /\ alert'[a].status = "ACTIVE" /\ alert'[a].cleared = alert[a].cleared
        BY <2>0, <2>2 DEF AlertRow
      <3> QED
        BY <2>0, <2>2, <3>1 DEF RowGood, Open, IgnoredKey
    <2>3. CASE a \in FreeRows /\ \E k \in ToCreate(s) : alert'[a] = NewAlert(k)
      <3>1. PICK k \in ToCreate(s) : alert'[a] = NewAlert(k)
        BY <2>3
      <3>2. alert[a] = Closed /\ a \notin kept
        BY <2>3, ClosedFacts DEF FreeRows
      <3>3. /\ alert'[a] \in AlertRow /\ alert'[a].key = k
            /\ alert'[a].status = "ACTIVE" /\ alert'[a].cleared = FALSE
        BY <1>2, <3>1 DEF NewAlert, Closed, AlertRow
      <3> QED
        BY <1>2, <2>3, <3>2, <3>3, ClosedFacts DEF RowGood, IgnoredKey
    <2>4. CASE a \in Gone(s) /\ alert[a].status # "IGNORED" /\ alert'[a] = Closed
      BY <2>4, ClosedGood, ClosedFacts DEF IgnoredKey
    <2>5. CASE a \in Gone(s) /\ alert[a].status = "IGNORED" /\ alert'[a] = Cleared(a)
      <3>1. /\ alert'[a] \in AlertRow /\ alert'[a].key = alert[a].key
            /\ alert'[a].status = "IGNORED" /\ alert'[a].cleared = TRUE
        BY <2>0, <2>5 DEF Cleared, AlertRow
      <3> QED
        BY <2>0, <2>5, <3>1 DEF RowGood, Open
    <2>6. CASE alert'[a] = alert[a] /\ a \in kept
      BY <1>1, <2>0, <2>6, SameGood
    <2> QED
      BY <2>0, <2>1, <2>2, <2>3, <2>4, <2>5, <2>6 DEF WrittenBy
  <1>4. TablesTyped'
    <2>1. alert' \in [Alerts -> AlertRow]
      BY <1>3, CommitRows
    <2>2. sync' \in [Syncs -> SyncRow]
      BY <1>1 DEF AlertsInv, TablesTyped, NoSync, SyncRow
    <2> QED
      BY <1>1, <2>1, <2>2 DEF AlertsInv, TablesTyped
  <1>5. OneOpen'
    <2> SUFFICES ASSUME NEW a \in Alerts, NEW b \in Alerts, a # b, Open(a)', Open(b)'
                 PROVE  alert'[a].key # alert'[b].key
      BY DEF OneOpen
    <2>1. CASE a \in FreeRows /\ b \in FreeRows
      BY <2>1, CommitRows
    <2>2. CASE ~(a \in FreeRows /\ b \in FreeRows)
      BY <1>2, <1>3, <2>2 DEF AlertsInv, OneOpen
    <2> QED
      BY <2>1, <2>2
  <1>6. Ranked' /\ Seen'
    <2>1. ASSUME NEW a \in kept
          PROVE  /\ a \in Alerts /\ Open(a) /\ alert[a].key \in Keys
                 /\ IgnoredKey(a)' = alert[a].key /\ IgnoredKey(a)' # None
      <3>1. a \in Alerts /\ Open(a) /\ alert[a].key \in Keys
        BY GoneOpen
      <3>2. alert'[a].key = alert[a].key /\ alert'[a].status = "IGNORED"
        BY <1>3, <3>1
      <3> QED
        BY <3>1, <3>2, AlertsAssumption DEF AlertsAssumption, IgnoredKey
    <2> HIDE DEF kept
    <2>2. kept \in SUBSET Alerts
      BY <2>1
    <2>3. newer' = Placed(kept, kept)
      BY <1>1, <2>1, <2>2, FrontedPlaced
    <2>4. \A a, b \in kept : a # b => alert[a].key # alert[b].key
      BY <2>1 DEF AlertsInv, OneOpen
    <2>5. ASSUME NEW a \in Alerts \ kept, IgnoredKey(a) # None, Open(a)'
          PROVE  Open(a) /\ \A b \in kept : IgnoredKey(b)' # IgnoredKey(a)
      <3>1. alert[a].status = "IGNORED" /\ IgnoredKey(a) = alert[a].key
        BY <2>5 DEF IgnoredKey
      <3>2. a \notin FreeRows
        BY <3>1, ClosedFacts DEF FreeRows
      <3>3. Open(a)
        BY <1>3, <2>5, <3>2
      <3>4. ASSUME NEW b \in kept PROVE IgnoredKey(b)' # IgnoredKey(a)
        <4>1. b \in Alerts /\ Open(b) /\ IgnoredKey(b)' = alert[b].key /\ a # b
          BY <2>1
        <4> QED
          BY <3>1, <3>3, <4>1 DEF AlertsInv, OneOpen
      <3> QED
        BY <3>3, <3>4
    <2>6. \A a \in Alerts \ kept : IgnoredKey(a)' = IgnoredKey(a)
      BY <1>3
    <2>7. \A a, b \in kept : a # b => IgnoredKey(a)' # IgnoredKey(b)'
      BY <2>1, <2>4
    <2>8. Ranked /\ Seen
      BY DEF AlertsInv
    <2> QED
      BY <2>1, <2>2, <2>3, <2>5, <2>6, <2>7, <2>8, Reranked
  <1>7. (\A v \in Users : UserGood(v)') /\ UsersAgree'
    <2> SUFFICES ASSUME NEW v \in Users, user[v] # NoRequest
                 PROVE  \/ alert'[user[v].alert] = Closed
                        \/ alert'[user[v].alert] = alert[user[v].alert]
                        \/ alert'[user[v].alert].key = user[v].key
      BY <1>1, HeldAlerts
    <2>1. UserGood(v)
      BY DEF AlertsInv
    <2>2. PICK a \in Alerts : a = user[v].alert
      BY <2>1 DEF UserGood
    <2>3. a \notin FreeRows
      BY <2>2 DEF FreeRows
    <2>4. CASE alert[a] = Closed
      <3>1. a \notin Gone(s)
        BY <2>4, GoneOpen, ClosedFacts DEF Open
      <3> QED
        BY <2>2, <2>3, <2>4, <3>1, CommitRows, ClosedFacts DEF WrittenBy
    <2>5. CASE alert[a].key = user[v].key
      BY <1>3, <2>2, <2>3, <2>5
    <2> QED
      BY <2>1, <2>2, <2>4, <2>5 DEF UserGood
  <1> QED
    BY <1>3, <1>4, <1>5, <1>6, <1>7 DEF AlertsInv

(***************************************************************************)
(* Every step.                                                             *)
(***************************************************************************)
LEMMA InitAlerts == Init => AlertsInv
  <1> SUFFICES ASSUME Init PROVE AlertsInv
    OBVIOUS
  <1>1. TablesTyped
    BY ClosedFacts DEF Init, TablesTyped, NoSync, SyncRow, NoRequest, UserRow
  <1>2. \A a \in Alerts : RowGood(a) /\ ~Open(a) /\ IgnoredKey(a) = None
    BY ClosedFacts DEF Init, RowGood, Open, IgnoredKey
  <1>3. Ranked /\ Seen /\ OneOpen
    BY <1>2 DEF Init, Ranked, Seen, OneOpen
  <1>4. (\A u \in Users : UserGood(u)) /\ UsersAgree
    BY DEF Init, UserGood, UsersAgree
  <1> QED
    BY <1>1, <1>2, <1>3, <1>4 DEF AlertsInv

LEMMA RaisedTyped ==
  ASSUME AlertsInv, NEW k \in Keys, Raise(k)
  PROVE  alert' \in [Alerts -> AlertRow]
  <1>1. PICK a \in Alerts :
          alert' = [alert EXCEPT ![a].key = k, ![a].status = "ACTIVE", ![a].lapsed = FALSE]
    BY DEF Raise, FreeRows
  <1> QED
    BY <1>1 DEF AlertsInv, TablesTyped, AlertRow

LEMMA ElsewhereInv ==
  ASSUME AlertsInv, Elsewhere
  PROVE  AlertsInv'
  <1>1. ASSUME NEW k \in Keys, Appear(k) \/ Disappear(k) PROVE AlertsInv'
    <2>1. /\ kind' = kind /\ newer' = newer /\ alert' = alert /\ user' = user /\ sync' = sync
          /\ cause' \in [Keys -> BOOLEAN]
      BY <1>1 DEF Appear, Disappear, AlertsInv, TablesTyped
    <2>2. TablesTyped'
      BY <2>1 DEF AlertsInv, TablesTyped
    <2> QED
      BY <2>1, <2>2, Unmoved DEF SameRow
  <1>2. ASSUME NEW k \in Keys, DatePasses(k) PROVE AlertsInv'
    <2>1. /\ kind' = kind /\ newer' = newer /\ user' = user /\ sync' = sync
          /\ cause' \in [Keys -> BOOLEAN]
      BY <1>2 DEF DatePasses, AlertsInv, TablesTyped
    <2>2. ASSUME NEW a \in Alerts PROVE alert'[a] \in AlertRow /\ SameRow(a)
      <3>1. alert[a] \in AlertRow /\ RowGood(a)
        BY DEF AlertsInv, TablesTyped
      <3>2. alert'[a] = IF alert[a].key = k THEN [alert[a] EXCEPT !.due = TRUE] ELSE alert[a]
        BY <1>2 DEF DatePasses
      <3>3. alert[a].key = k => alert[a].status # "CLOSED"
        BY <3>1, ClosedFacts, AlertsAssumption DEF AlertsAssumption, RowGood
      <3> QED
        BY <3>1, <3>2, <3>3 DEF SameRow, AlertRow
    <2>3. TablesTyped'
      <3>1. alert' = [a \in Alerts |-> alert'[a]]
        BY <1>2 DEF DatePasses
      <3> QED
        BY <2>1, <2>2, <3>1 DEF AlertsInv, TablesTyped
    <2> QED
      BY <2>1, <2>2, <2>3, Unmoved
  <1>3. ASSUME NEW a \in Alerts, SnoozeLapses(a) PROVE AlertsInv'
    <2>1. /\ kind' = kind /\ newer' = newer /\ user' = user /\ sync' = sync /\ cause' = cause
          /\ alert[a].status = "IGNORED" /\ alert' = [alert EXCEPT ![a].lapsed = TRUE]
      BY <1>3 DEF SnoozeLapses
    <2>2. alert' \in [Alerts -> AlertRow] /\ \A b \in Alerts : SameRow(b)
      BY <2>1 DEF AlertsInv, TablesTyped, AlertRow, SameRow
    <2>3. TablesTyped'
      BY <2>1, <2>2 DEF AlertsInv, TablesTyped
    <2> QED
      BY <2>1, <2>2, <2>3, Unmoved
  <1>4. ASSUME NEW k \in Keys, PlaceOrder(k) \/ RaiseNotice(k) PROVE AlertsInv'
    <2>1. /\ kind' = kind /\ user' = user /\ sync' = sync
          /\ cause' \in [Keys -> BOOLEAN] /\ Raise(k)
      BY <1>4 DEF PlaceOrder, RaiseNotice, AlertsInv, TablesTyped
    <2>2. TablesTyped'
      BY <2>1, RaisedTyped DEF AlertsInv, TablesTyped
    <2> QED
      BY <2>1, <2>2, RaiseInv
  <1> QED
    BY <1>1, <1>2, <1>3, <1>4 DEF Elsewhere

\* The job expires alerts before it synchronises.
LEMMA StartJobInv ==
  ASSUME AlertsInv, StartJob
  PROVE  AlertsInv'
  <1> DEFINE rows == LapsedRows \cup DueRows
  <1>1. /\ Expire(rows) /\ rows \in SUBSET Alerts
        /\ UNCHANGED <<kind, cause, user>> /\ sync' = [sync EXCEPT ![Job].pc = "expired"]
    BY DEF StartJob, LapsedRows, DueRows
  <1>2. /\ \A a \in Alerts : RowGood(a)'
        /\ OneOpen' /\ Ranked' /\ Seen' /\ alert' \in [Alerts -> AlertRow]
    BY <1>1, ExpireInv
  <1>3. TablesTyped'
    BY <1>1, <1>2 DEF AlertsInv, TablesTyped, SyncRow
  <1>4. (\A u \in Users : UserGood(u)') /\ UsersAgree'
    <2>1. \A a \in Alerts : alert'[a] = Closed \/ alert'[a] = alert[a]
      BY <1>1 DEF Expire
    <2>2. \A u \in Users : user[u] = NoRequest \/ user[u].alert \in Alerts
      BY DEF AlertsInv, UserGood
    <2> QED
      BY <1>1, <2>1, <2>2, HeldAlerts
  <1> QED
    BY <1>2, <1>3, <1>4 DEF AlertsInv

LEMMA SyncStepInv ==
  ASSUME AlertsInv, NEW s \in Syncs, SyncStep(s)
  PROVE  AlertsInv'
  <1>1. CASE ReadCandidates(s) \/ LockRows(s) \/ Abort(s)
    <2>1. UNCHANGED <<kind, cause, alert, newer, user>>
      BY <1>1 DEF ReadCandidates, LockRows, Abort
    <2>2. sync' \in [Syncs -> SyncRow]
      BY <1>1 DEF ReadCandidates, LockRows, Abort, AlertsInv, TablesTyped, SyncRow, NoSync,
                  Candidates
    <2>3. TablesTyped'
      BY <2>1, <2>2 DEF AlertsInv, TablesTyped
    <2> QED
      BY <2>1, <2>3, Unmoved DEF SameRow
  <1> QED
    BY <1>1, CommitInv DEF SyncStep

\* A view expires alerts and reads one that is left.
LEMMA OpenAlertInv ==
  ASSUME AlertsInv, NEW u \in Users, NEW a \in Alerts, OpenAlert(u, a)
  PROVE  AlertsInv'
  <1> DEFINE request == [alert |-> a, key |-> alert[a].key, status |-> alert[a].status]
  <1>1. /\ Expire(LapsedRows) /\ LapsedRows \in SUBSET Alerts
        /\ UNCHANGED <<kind, cause, sync>> /\ user' = [user EXCEPT ![u] = request]
        /\ a \notin LapsedRows /\ alert[a].status \in {"ACTIVE", "IGNORED"}
    BY DEF OpenAlert, LapsedRows
  <1>2. /\ \A b \in Alerts : RowGood(b)'
        /\ OneOpen' /\ Ranked' /\ Seen' /\ alert' \in [Alerts -> AlertRow]
    BY <1>1, ExpireInv
  <1>3. alert[a].key \in Keys /\ alert'[a] = alert[a]
    <2>1. RowGood(a)
      BY DEF AlertsInv
    <2> QED
      BY <1>1, <2>1 DEF Expire, RowGood
  <1>4. TablesTyped'
    <2>1. request \in UserRow
      BY <1>1, <1>3 DEF UserRow
    <2> QED
      BY <1>1, <1>2, <2>1 DEF AlertsInv, TablesTyped
  <1>5. \A b \in Alerts : alert'[b] = Closed \/ alert'[b] = alert[b]
    BY <1>1 DEF Expire
  <1>6. ASSUME NEW v \in Users PROVE UserGood(v)'
    <2>1. UserGood(v)
      BY DEF AlertsInv
    <2>2. CASE v = u
      <3>1. user'[v] = request
        BY <1>1, <2>2 DEF AlertsInv, TablesTyped
      <3> QED
        BY <1>1, <1>3, <3>1 DEF UserGood
    <2>3. CASE v # u
      <3>1. user'[v] = user[v]
        BY <1>1, <2>3 DEF AlertsInv, TablesTyped
      <3> QED
        BY <1>5, <2>1, <3>1 DEF UserGood
    <2> QED
      BY <2>2, <2>3
  <1>7. UsersAgree'
    <2>1. ASSUME NEW v \in Users, v # u, user[v].alert = a PROVE user[v].key = alert[a].key
      <3>1. UserGood(v)
        BY DEF AlertsInv
      <3> QED
        BY <1>1, <2>1, <3>1, AlertsAssumption, ClosedFacts
        DEF AlertsAssumption, UserGood, NoRequest
    <2>2. /\ user'[u].alert = a /\ user'[u].key = alert[a].key
          /\ \A v \in Users \ {u} : user'[v] = user[v]
      BY <1>1 DEF AlertsInv, TablesTyped
    <2> QED
      BY <2>1, <2>2 DEF AlertsInv, UsersAgree
  <1> QED
    BY <1>2, <1>4, <1>6, <1>7 DEF AlertsInv

LEMMA SavedTyped ==
  ASSUME AlertsInv, NEW u \in Users,
         NEW status \in {"CLOSED", "ACTIVE", "IGNORED", "RESOLVED"},
         user[u].status # "CLOSED", Save(u, status)
  PROVE  TablesTyped'
  <1>1. PICK a \in Alerts, k \in Keys : a = user[u].alert /\ k = user[u].key
    BY DEF AlertsInv, UserGood, NoRequest
  <1>2. alert[a] \in AlertRow
    BY DEF AlertsInv, TablesTyped
  <1>3. [NewAlert(k) EXCEPT !.status = status, !.due = alert[a].due] \in AlertRow
    BY <1>2 DEF NewAlert, Closed, AlertRow
  <1>4. alert' \in [Alerts -> AlertRow]
    BY <1>1, <1>3, ClosedFacts DEF Save, AlertsInv, TablesTyped
  <1>5. user' \in [Users -> UserRow]
    <2>1. NoRequest \in UserRow
      BY DEF NoRequest, UserRow
    <2> QED
      BY <2>1 DEF Save, AlertsInv, TablesTyped
  <1> QED
    BY <1>4, <1>5 DEF Save, AlertsInv, TablesTyped

LEMMA ButtonStepInv ==
  ASSUME AlertsInv, NEW u \in Users, ButtonStep(u)
  PROVE  AlertsInv'
  <1>1. PICK status \in {"CLOSED", "ACTIVE", "IGNORED", "RESOLVED"} :
          /\ user[u].status # "CLOSED" /\ Save(u, status)
          /\ status = "RESOLVED" => user[u].key \in Managed
    BY DEF ButtonStep, IgnoreAlert, ResolveAlert, ReactivateIgnoredAlert
  <1> QED
    BY <1>1, SavedTyped, SaveInv

LEMMA NextAlerts ==
  ASSUME AlertsInv, [Next]_vars
  PROVE  AlertsInv'
  <1>1. CASE UNCHANGED vars
    <2>1. UNCHANGED <<kind, cause, alert, newer, sync, user>>
      BY <1>1 DEF vars
    <2>2. TablesTyped'
      BY <2>1 DEF AlertsInv, TablesTyped
    <2> QED
      BY <2>1, <2>2, Unmoved DEF SameRow
  <1>2. CASE Next
    BY <1>2, ElsewhereInv, StartJobInv, SyncStepInv, OpenAlertInv, ButtonStepInv, IgnoreAllInv
    DEF Next
  <1> QED
    BY <1>1, <1>2

LEMMA AlertsInvariant == Spec => []AlertsInv
  <1>1. AlertsInv /\ [Next]_vars => AlertsInv'
    BY NextAlerts
  <1> QED
    BY <1>1, InitAlerts, PTL DEF Spec

(***************************************************************************)
(* Resolved alerts.                                                        *)
(***************************************************************************)
\* What ResolvedStaysHidden asks for before it says anything of row a.
Settling(a) ==
  LET k == alert[a].key
  IN  /\ alert[a].status = "RESOLVED" /\ cause[k] /\ cause'[k]
      /\ \A s \in Syncs : sync[s].pc \in {"read", "holding"} => k \in sync[s].seen
      /\ \A u \in Users : user[u].alert # a

LEMMA ResolvedStays ==
  ASSUME AlertsInv, [Next]_vars, NEW a \in Alerts, Settling(a)
  PROVE  alert'[a] = alert[a]
  <1>1. /\ alert[a].status = "RESOLVED" /\ alert[a] # Closed
        /\ alert[a].key \in Managed /\ alert[a].key \in Keys
    BY ClosedFacts DEF Settling, AlertsInv, RowGood
  <1>2. ASSUME NEW k \in Keys, Raise(k), kind[k] = "notice" \/ \A b \in Alerts : alert[b].key # k
        PROVE  alert'[a] = alert[a]
    <2>1. PICK b \in Alerts :
            /\ alert[b] = Closed \/ alert[b].key = k
            /\ alert' = [alert EXCEPT ![b].key = k, ![b].status = "ACTIVE", ![b].lapsed = FALSE]
      BY <1>2 DEF Raise, FreeRows
    <2>2. alert[a].key # k
      BY <1>1, <1>2 DEF Managed
    <2>3. b # a
      BY <1>1, <2>1, <2>2
    <2> QED
      BY <2>1, <2>3 DEF AlertsInv, TablesTyped
  <1>3. CASE Elsewhere
    <2>1. ASSUME NEW k \in Keys, DatePasses(k) PROVE alert[a].key # k
      <3>1. cause'[k] = FALSE
        BY <2>1 DEF DatePasses, AlertsInv, TablesTyped
      <3> QED
        BY <3>1 DEF Settling
    <2>2. ASSUME NEW k \in Keys, DatePasses(k) PROVE alert'[a] = alert[a]
      BY <2>1, <2>2 DEF DatePasses
    <2>3. ASSUME NEW k \in Keys, Appear(k) \/ Disappear(k) PROVE alert'[a] = alert[a]
      BY <2>3 DEF Appear, Disappear
    <2>4. ASSUME NEW k \in Keys, PlaceOrder(k) \/ RaiseNotice(k) PROVE alert'[a] = alert[a]
      BY <1>2, <2>4 DEF PlaceOrder, RaiseNotice
    <2>5. ASSUME NEW b \in Alerts, SnoozeLapses(b) PROVE alert'[a] = alert[a]
      BY <1>1, <2>5 DEF SnoozeLapses, AlertsInv, TablesTyped
    <2> QED
      BY <1>3, <2>2, <2>3, <2>4, <2>5 DEF Elsewhere
  <1>4. ASSUME NEW rows, Expire(rows), rows \subseteq LapsedRows \cup DueRows
        PROVE  alert'[a] = alert[a]
    BY <1>1, <1>4 DEF Expire, LapsedRows, DueRows
  <1>5. ASSUME NEW s \in Syncs, Commit(s) PROVE alert'[a] = alert[a]
    <2>1. alert[a].key \in sync[s].seen
      BY <1>5 DEF Settling, Commit
    <2>2. a \notin Gone(s)
      BY <2>1, GoneOpen
    <2>3. a \notin FreeRows
      BY <1>1 DEF FreeRows
    <2> QED
      BY <1>1, <1>5, <2>2, <2>3, CommitRows DEF WrittenBy
  <1>6. ASSUME NEW u \in Users, ButtonStep(u) PROVE alert'[a] = alert[a]
    <2>1. PICK status : Save(u, status)
      BY <1>6 DEF ButtonStep, IgnoreAlert, ResolveAlert, ReactivateIgnoredAlert
    <2>2. user[u].alert # a
      BY DEF Settling
    <2> QED
      BY <2>1, <2>2 DEF Save, AlertsInv, TablesTyped
  <1>7. CASE IgnoreAllActiveAlerts
    BY <1>1, <1>7 DEF IgnoreAllActiveAlerts
  <1>8. CASE Next
    <2>1. ASSUME NEW s \in Syncs, SyncStep(s) PROVE alert'[a] = alert[a]
      BY <1>5, <2>1 DEF SyncStep, ReadCandidates, LockRows, Abort
    <2>2. ASSUME NEW u \in Users, NEW b \in Alerts, OpenAlert(u, b) PROVE alert'[a] = alert[a]
      BY <1>4, <2>2 DEF OpenAlert
    <2>3. CASE StartJob
      BY <1>4, <2>3 DEF StartJob
    <2> QED
      BY <1>3, <1>6, <1>7, <1>8, <2>1, <2>2, <2>3 DEF Next
  <1> QED
    BY <1>8 DEF vars

\* Alerts, synchronisations and button requests keep their types, and
\* updated_at orders the ignored rows of a key, whatever the requests.
THEOREM AlertsTypeCorrect == Spec => []AlertsTypeOK
  <1>1. AlertsInv => AlertsTypeOK
    BY Meaning
  <1> QED
    BY <1>1, AlertsInvariant, PTL

\* The ignored alert that still counts is the one ignored_map keeps: no
\* synchronisation ever fails on the index because of an older row.
THEOREM SnoozesAreSeen == Spec => []SnoozeIsSeen
  <1>1. AlertsInv => SnoozeIsSeen
    BY Meaning
  <1> QED
    BY <1>1, AlertsInvariant, PTL

\* An alert that the user resolved stays hidden while its condition holds,
\* through any synchronisation, notice and expiry.
THEOREM ResolvedAlertsStay == Spec => ResolvedStaysHidden
  <1>1. AlertsInv /\ [Next]_vars =>
          [\A a \in Alerts :
             LET k == alert[a].key IN
             /\ alert[a].status = "RESOLVED" /\ cause[k] /\ cause'[k]
             /\ \A s \in Syncs : sync[s].pc \in {"read", "holding"} => k \in sync[s].seen
             /\ \A u \in Users : user[u].alert # a
             => alert'[a] = alert[a]]_vars
    BY ResolvedStays DEF Settling
  <1> QED
    BY <1>1, AlertsInvariant, PTL DEF Spec, ResolvedStaysHidden
=============================================================================
