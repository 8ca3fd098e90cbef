--------------------------- MODULE AccountsProofs ---------------------------
(***************************************************************************)
(* AccountsUsable for any users, links and requests.  It is not inductive: *)
(* what a request is about to write must be harmless for the account as it *)
(* is by then, which depends on what the request read.  RequestGood says,  *)
(* for each statement a request can come to, what is left of it.  Then the *)
(* same for the tickets, which rely on the accounts.                       *)
(***************************************************************************)
EXTENDS SupportDesk, TLAPS

InUse == {"ACTIVE", "SUSPENDED"}

\* What AccountsUsable says of one row, and that who registered chose a
\* password at once.
RowOK(row) ==
  /\ row.active <=> row.status = "ACTIVE"
  /\ row.status \in InUse => row.verified /\ row.password
  /\ row.status # "UNUSED" /\ row.source = "SELF_REGISTERED" => row.password

Confirms(links, l, u) == links[l].user = u /\ links[l].purpose = "SIGNUP_CONFIRMATION"

\* An open link has an account of the kind it is for, and only one link
\* confirms the address of a registration, as long as that is pending.
LinkOK(rows, links, l) ==
  /\ links[l].user = None => links[l] = NoLink
  /\ links[l].user # None =>
       /\ rows[links[l].user].status # "UNUSED"
       /\ links[l].purpose = "SIGNUP_CONFIRMATION" =>
            /\ rows[links[l].user].status = "PENDING"
            /\ rows[links[l].user].source = "SELF_REGISTERED"
            /\ \A k \in Links : Confirms(links, k, links[l].user) => k = l
       /\ links[l].purpose = "ADMIN_INVITE" =>
            rows[links[l].user].source = "ADMIN_CREATED"

RequestGood(rows, links, q) ==
  q.do # "idle" =>
    /\ q.on \in Users
    /\ rows[q.on].status # "UNUSED"
    /\ q.do \in {"use link", "verify"} => rows[q.on].source = "SELF_REGISTERED"
    /\ q.do = "use link" => \A l \in Links : Confirms(links, l, q.on) => l = q.link
    /\ q.do = "verify" => \A l \in Links : ~Confirms(links, l, q.on)
    /\ q.do \in {"complete", "resend"} => rows[q.on].source = "ADMIN_CREATED"
    /\ q.do = "toggle" =>
         /\ rows[q.on].status \in InUse
         /\ q.row.status \in InUse
         /\ q.row.active <=> q.row.status = "ACTIVE"

AccountsInv ==
  /\ AccountsTypeOK
  /\ \A u \in Users : RowOK(account[u])
  /\ \A l \in Links : LinkOK(account, link, l)
  /\ \A r \in Requests : RequestGood(account, link, request[r])

(***************************************************************************)
(* What every step does to a row, a link and a request, from which the     *)
(* invariant follows (StepKeeps).                                          *)
(***************************************************************************)
\* No step takes an account back: it keeps its origin, and one in use stays
\* in use or suspended.
RowStep(u) ==
  /\ RowOK(account'[u])
  /\ account[u].status # "UNUSED" =>
       /\ account'[u].status # "UNUSED"
       /\ account'[u].source = account[u].source
       /\ account[u].status \in InUse => account'[u].status \in InUse

Kept(l) == link'[l] = link[l] \/ link'[l] = NoLink

\* A step leaves a link, closes it, or opens a new one; a new link that
\* confirms an address is the only one, and its account is new as well.
LinkStep(l) ==
  \/ Kept(l)
  \/ /\ link'[l].user \in Users
     /\ account'[link'[l].user].status # "UNUSED"
     /\ link'[l].purpose = "SIGNUP_CONFIRMATION" =>
          /\ account[link'[l].user].status = "UNUSED"
          /\ account'[link'[l].user].source = "SELF_REGISTERED"
          /\ \A k \in Links \ {l} : Kept(k)
     /\ link'[l].purpose = "ADMIN_INVITE" =>
          account'[link'[l].user].source = "ADMIN_CREATED"

\* A registration still waits as long as a link confirms it.
PendingStays(l) ==
  link'[l].user # None /\ link'[l].purpose = "SIGNUP_CONFIRMATION" =>
    account'[link'[l].user].status = "PENDING"

RequestStep(r) ==
  request'[r] = request[r] \/ RequestGood(account', link', request'[r])

GoodStep ==
  /\ AccountsTypeOK'
  /\ \A u \in Users : RowStep(u)
  /\ \A l \in Links : LinkStep(l) /\ PendingStays(l)
  /\ \A r \in Requests : RequestStep(r)

\* A user to whom a link belongs is a user, and not NULL.
LEMMA NoneIsNobody == None \notin Users /\ None \notin Links
  BY AccountsAssumption

\* An address that was confirmed or waits for it gets no new link for that.
LEMMA ConfirmsStays ==
  ASSUME AccountsInv, GoodStep, NEW u \in Users, account[u].status # "UNUSED",
         NEW k \in Links, Confirms(link', k, u)
  PROVE  Confirms(link, k, u)
  <1>1. LinkStep(k) BY DEF GoodStep
  <1>2. link'[k] # NoLink BY NoneIsNobody DEF Confirms, NoLink
  <1> QED BY <1>1, <1>2 DEF LinkStep, Kept, Confirms

LEMMA StepKeeps ==
  ASSUME AccountsInv, GoodStep
  PROVE  AccountsInv'
  <1>1. AccountsTypeOK' BY DEF GoodStep
  <1>2. ASSUME NEW u \in Users PROVE RowOK(account'[u])
    BY DEF GoodStep, RowStep
  <1>3. ASSUME NEW l \in Links PROVE LinkOK(account', link', l)
    <2> DEFINE u == link'[l].user
    <2>1. LinkOK(account, link, l) /\ LinkStep(l) /\ PendingStays(l)
      BY DEF AccountsInv, GoodStep
    <2>2. CASE link'[l] = NoLink
      BY <2>2 DEF LinkOK, NoLink
    <2>3. CASE link'[l] = link[l] /\ u = None
      BY <2>1, <2>3 DEF LinkOK
    <2>4. CASE link'[l] = link[l] /\ u # None
      <3>1. u \in Users BY <2>4 DEF AccountsInv, AccountsTypeOK, LinkRow
      <3>2. RowStep(u) BY <3>1 DEF GoodStep
      <3>3. account[u].status # "UNUSED" BY <2>1, <2>4 DEF LinkOK
      <3>4. ASSUME link'[l].purpose = "SIGNUP_CONFIRMATION",
                   NEW k \in Links, Confirms(link', k, u)
            PROVE  k = l
        <4>1. Confirms(link, k, u) BY <3>1, <3>3, <3>4, ConfirmsStays
        <4> QED BY <2>1, <2>4, <3>4, <4>1 DEF LinkOK
      <3> QED BY <2>1, <2>4, <3>2, <3>3, <3>4 DEF LinkOK, RowStep, PendingStays
    <2>5. CASE ~Kept(l)
      <3>1. u \in Users /\ u # None BY <2>1, <2>5, NoneIsNobody DEF LinkStep
      <3>2. ASSUME link'[l].purpose = "SIGNUP_CONFIRMATION",
                   NEW k \in Links, Confirms(link', k, u)
            PROVE  k = l
        <4>1. SUFFICES ASSUME k # l PROVE FALSE OBVIOUS
        <4>2. Kept(k) /\ account[u].status = "UNUSED"
          BY <2>1, <2>5, <3>2, <4>1 DEF LinkStep
        <4>3. link'[k] # NoLink BY <3>1, <3>2 DEF Confirms, NoLink
        <4>4. link[k].user = u BY <3>2, <4>2, <4>3 DEF Kept, Confirms
        <4> QED BY <3>1, <4>2, <4>4 DEF AccountsInv, LinkOK
      <3> QED BY <2>1, <2>5, <3>1, <3>2 DEF LinkStep, LinkOK, PendingStays
    <2> QED BY <2>2, <2>3, <2>4, <2>5 DEF Kept
  <1>4. ASSUME NEW r \in Requests PROVE RequestGood(account', link', request'[r])
    <2> DEFINE q == request[r]
    <2>1. RequestGood(account, link, q) /\ RequestStep(r) BY DEF AccountsInv, GoodStep
    <2>2. SUFFICES ASSUME request'[r] = q, q.do # "idle"
                   PROVE  RequestGood(account', link', q)
      BY <2>1 DEF RequestStep, RequestGood
    <2>3. q.on \in Users /\ account[q.on].status # "UNUSED" BY <2>1, <2>2 DEF RequestGood
    <2>4. RowStep(q.on) BY <2>3 DEF GoodStep
    <2>5. \A l \in Links : Confirms(link', l, q.on) => Confirms(link, l, q.on)
      BY <2>3, ConfirmsStays
    <2> QED BY <2>1, <2>3, <2>4, <2>5 DEF RequestGood, RowStep
  <1> QED BY <1>1, <1>2, <1>3, <1>4 DEF AccountsInv

(***************************************************************************)
(* What the writes of Accounts do, each by itself.                         *)
(***************************************************************************)
\* A table of accounts that is left alone.
LEMMA AccountsLeft ==
  ASSUME AccountsInv, UNCHANGED account
  PROVE  /\ account' \in [Users -> AccountRow]
         /\ \A u \in Users : RowStep(u)
  BY DEF AccountsInv, AccountsTypeOK, RowStep

\* One row written, which keeps its origin and leaves no use.
LEMMA RowWritten ==
  ASSUME AccountsInv, NEW u \in Users, NEW row \in AccountRow,
         account' = [account EXCEPT ![u] = row],
         RowOK(row), row.status # "UNUSED",
         account[u].status # "UNUSED" => row.source = account[u].source,
         account[u].status \in InUse => row.status \in InUse
  PROVE  /\ account' \in [Users -> AccountRow]
         /\ \A v \in Users : RowStep(v)
         /\ account'[u] = row
         /\ \A v \in Users \ {u} : account'[v] = account[v]
  <1>1. account \in [Users -> AccountRow] BY DEF AccountsInv, AccountsTypeOK
  <1>2. ASSUME NEW v \in Users PROVE RowStep(v)
    <2>1. CASE v = u BY <1>1, <2>1 DEF RowStep
    <2>2. CASE v # u BY <1>1, <2>2 DEF RowStep, AccountsInv
    <2> QED BY <2>1, <2>2
  <1> QED BY <1>1, <1>2

\* Links that are closed, or left alone.
LEMMA LinksClosed ==
  ASSUME AccountsInv, NEW closed, Close(closed)
  PROVE  /\ link' \in [Links -> LinkRow]
         /\ \A l \in Links : Kept(l)
         /\ \A l \in Links : l \in closed => link'[l] = NoLink
  BY NoneIsNobody
     DEF Close, LinksWritten, AccountsInv, AccountsTypeOK, LinkRow, NoLink, Purposes, Kept

LEMMA LinksLeft ==
  ASSUME AccountsInv, UNCHANGED link
  PROVE  link' \in [Links -> LinkRow] /\ \A l \in Links : Kept(l)
  BY DEF AccountsInv, AccountsTypeOK, Kept

\* A link that is written anew, and others that are closed.
LEMMA LinkOpened ==
  ASSUME AccountsInv, NEW closed, NEW l \in Links, NEW u \in Users,
         NEW purpose \in Purposes, LinksWritten(closed, l, u, purpose)
  PROVE  /\ link' \in [Links -> LinkRow]
         /\ link'[l] = [user |-> u, purpose |-> purpose]
         /\ \A k \in Links \ {l} : Kept(k)
  BY DEF LinksWritten, AccountsInv, AccountsTypeOK, LinkRow, NoLink, Purposes, Kept

\* Links none of which is new, when the account that is written is not one
\* that such a link still confirms.
LEMMA LinksStep ==
  ASSUME AccountsInv, NEW l \in Links, Kept(l),
         link'[l].purpose = "SIGNUP_CONFIRMATION" /\ link'[l].user # None =>
           account'[link'[l].user] = account[link'[l].user]
  PROVE  LinkStep(l) /\ PendingStays(l)
  <1>1. LinkOK(account, link, l) BY DEF AccountsInv
  <1> QED BY <1>1 DEF Kept, LinkStep, PendingStays, LinkOK, NoLink

LEMMA RequestsLeft ==
  ASSUME AccountsInv, UNCHANGED request
  PROVE  request' \in [Requests -> RequestRow] /\ \A r \in Requests : RequestStep(r)
  BY DEF AccountsInv, AccountsTypeOK, RequestStep

\* One request that goes on to a statement that is harmless.
LEMMA RequestWritten ==
  ASSUME AccountsInv, NEW r \in Requests, NEW q \in RequestRow,
         request' = [request EXCEPT ![r] = q], RequestGood(account', link', q)
  PROVE  request' \in [Requests -> RequestRow] /\ \A k \in Requests : RequestStep(k)
  <1>1. request \in [Requests -> RequestRow] BY DEF AccountsInv, AccountsTypeOK
  <1>2. ASSUME NEW k \in Requests PROVE RequestStep(k)
    <2>1. CASE k = r BY <1>1, <2>1 DEF RequestStep
    <2>2. CASE k # r BY <1>1, <2>2 DEF RequestStep
    <2> QED BY <2>1, <2>2
  <1> QED BY <1>1, <1>2

\* A request that ends does nothing more.
LEMMA RequestEnds ==
  ASSUME AccountsInv, NEW r \in Requests,
         request' = [request EXCEPT ![r] = NoRequest]
  PROVE  request' \in [Requests -> RequestRow] /\ \A k \in Requests : RequestStep(k)
  <1>1. NoRequest \in RequestRow
    BY DEF NoRequest, RequestRow, NoAccount, AccountRow
  <1>2. RequestGood(account', link', NoRequest) BY DEF RequestGood, NoRequest
  <1> QED BY <1>1, <1>2, RequestWritten

(***************************************************************************)
(* The steps of Accounts, one by one.                                      *)
(***************************************************************************)
\* A step that leaves the accounts alone and opens no link.
LEMMA NothingNew ==
  ASSUME AccountsInv, UNCHANGED account,
         link' \in [Links -> LinkRow], \A l \in Links : Kept(l),
         request' \in [Requests -> RequestRow], \A r \in Requests : RequestStep(r)
  PROVE  GoodStep
  <1>1. account' \in [Users -> AccountRow] /\ \A u \in Users : RowStep(u)
    BY AccountsLeft
  <1>2. \A l \in Links : LinkStep(l) /\ PendingStays(l) BY LinksStep
  <1> QED BY <1>1, <1>2 DEF GoodStep, AccountsTypeOK

\* A step that opens a link for an account that was unused.
LEMMA NewAccount ==
  ASSUME AccountsInv, NEW u \in Users, account[u].status = "UNUSED",
         NEW row \in AccountRow, account' = [account EXCEPT ![u] = row],
         RowOK(row), row.status = "PENDING",
         NEW purpose \in Purposes,
         purpose = "SIGNUP_CONFIRMATION" => row.source = "SELF_REGISTERED",
         purpose = "ADMIN_INVITE" => row.source = "ADMIN_CREATED",
         \E l \in FreeLinks : LinksWritten({}, l, u, purpose),
         UNCHANGED request
  PROVE  GoodStep
  <1>1. PICK n \in FreeLinks : LinksWritten({}, n, u, purpose) OBVIOUS
  <1>2. n \in Links BY DEF FreeLinks
  <1>3. /\ link' \in [Links -> LinkRow]
        /\ link'[n] = [user |-> u, purpose |-> purpose]
        /\ \A k \in Links \ {n} : Kept(k)
    BY <1>1, <1>2, LinkOpened
  <1>4. /\ account' \in [Users -> AccountRow] /\ \A v \in Users : RowStep(v)
        /\ account'[u] = row
        /\ \A v \in Users \ {u} : account'[v] = account[v]
    BY RowWritten DEF InUse
  <1>5. request' \in [Requests -> RequestRow] /\ \A r \in Requests : RequestStep(r)
    BY RequestsLeft
  <1>6. ASSUME NEW l \in Links PROVE LinkStep(l) /\ PendingStays(l)
    <2>1. CASE l = n
      BY <1>3, <1>4, <2>1 DEF LinkStep, PendingStays
    <2>2. CASE l # n
      <3>1. Kept(l) BY <1>3, <2>2
      <3>2. LinkOK(account, link, l) BY DEF AccountsInv
      <3>3. link'[l].user # None => link'[l].user \in Users \ {u}
        BY <1>3, <3>1, <3>2 DEF Kept, LinkOK, LinkRow, NoLink
      <3> QED BY <1>4, <3>1, <3>3, LinksStep
    <2> QED BY <2>1, <2>2
  <1> QED BY <1>3, <1>4, <1>5, <1>6 DEF GoodStep, AccountsTypeOK

LEMMA RegisterKeeps ==
  ASSUME AccountsInv, NEW u \in Users, Register(u)
  PROVE  GoodStep
  <1>1. SignedUp \in AccountRow /\ RowOK(SignedUp)
    BY DEF SignedUp, NoAccount, AccountRow, RowOK, InUse
  <1> QED BY <1>1, NewAccount DEF Register, SignedUp, NoAccount, Purposes

LEMMA InviteKeeps ==
  ASSUME AccountsInv, NEW by \in Admins, NEW u \in Users, Invite(by, u)
  PROVE  GoodStep
  <1>1. InvitedAccount \in AccountRow /\ RowOK(InvitedAccount)
    BY DEF InvitedAccount, NoAccount, AccountRow, RowOK, InUse
  <1> QED BY <1>1, NewAccount DEF Invite, InvitedAccount, NoAccount, Purposes

LEMMA ExpireKeeps ==
  ASSUME AccountsInv, NEW l \in Links, Expire(l)
  PROVE  GoodStep
  BY NothingNew, LinksClosed, RequestsLeft DEF Expire

\* A request reads, and what it will come to is harmless.
LEMMA ReadKeeps ==
  ASSUME AccountsInv, NEW r \in Requests, NEW do, NEW u, NEW l, NEW row,
         Waits(do, u, l, row) \in RequestRow, Read(r, do, u, l, row),
         RequestGood(account, link, Waits(do, u, l, row))
  PROVE  GoodStep
  <1>1. UNCHANGED <<account, link>> BY DEF Read
  <1>2. RequestGood(account', link', Waits(do, u, l, row)) BY <1>1
  <1>3. request' \in [Requests -> RequestRow] /\ \A k \in Requests : RequestStep(k)
    BY <1>2, RequestWritten DEF Read
  <1> QED BY <1>1, <1>3, NothingNew, LinksLeft

LEMMA OpenLinkKeeps ==
  ASSUME AccountsInv, NEW r \in Requests, NEW l \in Links, OpenLink(r, l)
  PROVE  GoodStep
  <1> DEFINE u == link[l].user
  <1>1. LinkOK(account, link, l) /\ link[l] # NoLink BY DEF AccountsInv, OpenLink
  <1>2. u \in Users /\ account[u].status # "UNUSED"
    BY <1>1 DEF LinkOK, AccountsInv, AccountsTypeOK, LinkRow
  <1>3. NoAccount \in AccountRow BY DEF NoAccount, AccountRow
  <1>4. CASE link[l].purpose = "SIGNUP_CONFIRMATION" /\ Read(r, "use link", u, l, NoAccount)
    <2>1. RequestGood(account, link, Waits("use link", u, l, NoAccount))
      BY <1>1, <1>2, <1>4, NoneIsNobody DEF RequestGood, Waits, LinkOK
    <2>2. Waits("use link", u, l, NoAccount) \in RequestRow
      BY <1>2, <1>3 DEF Waits, RequestRow
    <2> QED BY <1>4, <2>1, <2>2, ReadKeeps
  <1>5. CASE link[l].purpose = "ADMIN_INVITE" /\ Read(r, "complete", u, l, NoAccount)
    <2>1. RequestGood(account, link, Waits("complete", u, l, NoAccount))
      BY <1>1, <1>2, <1>5, NoneIsNobody DEF RequestGood, Waits, LinkOK
    <2>2. Waits("complete", u, l, NoAccount) \in RequestRow
      BY <1>2, <1>3 DEF Waits, RequestRow
    <2> QED BY <1>5, <2>1, <2>2, ReadKeeps
  <1>6. CASE Read(r, "set password", u, l, NoAccount)
    <2>1. RequestGood(account, link, Waits("set password", u, l, NoAccount))
      BY <1>2 DEF RequestGood, Waits
    <2>2. Waits("set password", u, l, NoAccount) \in RequestRow
      BY <1>2, <1>3 DEF Waits, RequestRow
    <2> QED BY <1>6, <2>1, <2>2, ReadKeeps
  <1> QED BY <1>4, <1>5, <1>6 DEF OpenLink

LEMMA ForgetPasswordKeeps ==
  ASSUME AccountsInv, NEW r \in Requests, NEW u \in Users, ForgetPassword(r, u)
  PROVE  GoodStep
  <1>1. account[u].status # "UNUSED"
    BY DEF ForgetPassword, AccountsInv, RowOK
  <1>2. RequestGood(account, link, Waits("send reset", u, None, NoAccount))
    BY <1>1 DEF RequestGood, Waits
  <1>3. Waits("send reset", u, None, NoAccount) \in RequestRow
    BY DEF Waits, RequestRow, NoAccount, AccountRow
  <1> QED BY <1>2, <1>3, ReadKeeps DEF ForgetPassword

LEMMA ReadByAdminKeeps ==
  ASSUME AccountsInv, NEW r \in Requests, NEW by \in Admins, NEW u \in Users,
         ReadByAdmin(r, by, u)
  PROVE  GoodStep
  <1>1. account[u] \in AccountRow /\ RowOK(account[u]) /\ account[u].status # "UNUSED"
    BY DEF AccountsInv, AccountsTypeOK, ReadByAdmin
  <1>2. \A do \in {"confirm", "resend", "revoke"} :
          Waits(do, u, None, NoAccount) \in RequestRow
    BY DEF Waits, RequestRow, NoAccount, AccountRow
  <1>3. CASE Read(r, "confirm", u, None, NoAccount)
    <2>1. RequestGood(account, link, Waits("confirm", u, None, NoAccount))
      BY <1>1 DEF RequestGood, Waits
    <2> QED BY <1>2, <1>3, <2>1, ReadKeeps
  <1>4. CASE /\ ~(~account[u].active /\ account[u].status = "PENDING")
             /\ Read(r, "toggle", u, None, account[u])
    <2>1. account[u].status \in InUse
      BY <1>1, <1>4 DEF AccountRow, RowOK, InUse
    <2>2. RequestGood(account, link, Waits("toggle", u, None, account[u]))
      BY <1>1, <2>1 DEF RequestGood, Waits, RowOK
    <2>3. Waits("toggle", u, None, account[u]) \in RequestRow
      BY <1>1 DEF Waits, RequestRow
    <2> QED BY <1>4, <2>2, <2>3, ReadKeeps
  <1>5. CASE /\ account[u].source = "ADMIN_CREATED"
             /\ Read(r, "resend", u, None, NoAccount)
    <2>1. RequestGood(account, link, Waits("resend", u, None, NoAccount))
      BY <1>1, <1>5 DEF RequestGood, Waits
    <2> QED BY <1>2, <1>5, <2>1, ReadKeeps
  <1>6. CASE Read(r, "revoke", u, None, NoAccount)
    <2>1. RequestGood(account, link, Waits("revoke", u, None, NoAccount))
      BY <1>1 DEF RequestGood, Waits
    <2> QED BY <1>2, <1>6, <2>1, ReadKeeps
  <1> QED BY <1>3, <1>4, <1>5, <1>6 DEF ReadByAdmin

\* The statement a request comes to: what is known of it, and the request
\* when it is the last.
LEMMA LastStatement ==
  ASSUME AccountsInv, NEW r \in Requests, NEW do, do # "idle", Step(r, do, "idle")
  PROVE  /\ request[r].do = do
         /\ RequestGood(account, link, request[r])
         /\ request[r].on \in Users /\ account[request[r].on].status # "UNUSED"
         /\ account[request[r].on] \in AccountRow /\ RowOK(account[request[r].on])
         /\ request' \in [Requests -> RequestRow]
         /\ \A k \in Requests : RequestStep(k)
  <1>1. request[r].do = do /\ RequestGood(account, link, request[r])
    BY DEF Step, AccountsInv
  <1>2. request[r].on \in Users /\ account[request[r].on].status # "UNUSED"
    BY <1>1 DEF RequestGood
  <1>3. account[request[r].on] \in AccountRow /\ RowOK(account[request[r].on])
    BY <1>2 DEF AccountsInv, AccountsTypeOK
  <1> QED BY <1>1, <1>2, <1>3, RequestEnds DEF Step

LEMMA FirstStatement ==
  ASSUME AccountsInv, NEW r \in Requests, NEW do, do # "idle",
         NEW next \in {"verify", "use invites", "use reset"}, Step(r, do, next)
  PROVE  /\ request[r].do = do
         /\ RequestGood(account, link, request[r])
         /\ request[r].on \in Users /\ account[request[r].on].status # "UNUSED"
         /\ account[request[r].on] \in AccountRow /\ RowOK(account[request[r].on])
         /\ [request[r] EXCEPT !.do = next] \in RequestRow
         /\ request' = [request EXCEPT ![r] = [request[r] EXCEPT !.do = next]]
  <1>1. request[r].do = do /\ RequestGood(account, link, request[r])
    BY DEF Step, AccountsInv
  <1>2. request[r].on \in Users /\ account[request[r].on].status # "UNUSED"
    BY <1>1 DEF RequestGood
  <1>3. account[request[r].on] \in AccountRow /\ RowOK(account[request[r].on])
    BY <1>2 DEF AccountsInv, AccountsTypeOK
  <1>4. request[r] \in RequestRow BY DEF AccountsInv, AccountsTypeOK
  <1>5. [request[r] EXCEPT !.do = next] \in RequestRow BY <1>4 DEF RequestRow
  <1>6. next # "idle" OBVIOUS
  <1> QED BY <1>1, <1>2, <1>3, <1>5, <1>6 DEF Step

LEMMA UseSignupLinkKeeps ==
  ASSUME AccountsInv, NEW r \in Requests, UseSignupLink(r)
  PROVE  GoodStep
  <1> DEFINE q == [request[r] EXCEPT !.do = "verify"]
  <1>1. /\ request[r].do = "use link"
        /\ RequestGood(account, link, request[r])
        /\ q \in RequestRow /\ request' = [request EXCEPT ![r] = q]
    BY FirstStatement DEF UseSignupLink
  <1>2. /\ link' \in [Links -> LinkRow] /\ \A l \in Links : Kept(l)
        /\ \A l \in Links : l = request[r].link => link'[l] = NoLink
    BY LinksClosed DEF UseSignupLink
  <1>3. UNCHANGED account BY DEF UseSignupLink
  <1>4. q.on = request[r].on /\ q.do = "verify"
    BY DEF AccountsInv, AccountsTypeOK, RequestRow
  <1>5. q.on \in Users /\ q.on # None BY <1>1, <1>4, NoneIsNobody DEF RequestGood
  <1>6. ASSUME NEW l \in Links, Confirms(link', l, q.on) PROVE FALSE
    <2>1. link'[l] # NoLink BY <1>5, <1>6 DEF Confirms, NoLink
    <2>2. Confirms(link, l, q.on) BY <1>2, <1>6, <2>1 DEF Kept, Confirms
    <2>3. l = request[r].link BY <1>1, <1>4, <2>2 DEF RequestGood
    <2> QED BY <1>2, <2>1, <2>3
  <1>7. RequestGood(account', link', q)
    BY <1>1, <1>3, <1>4, <1>5, <1>6 DEF RequestGood
  <1> QED BY <1>1, <1>2, <1>3, <1>7, RequestWritten, NothingNew

\* An account is written, and no link that stays confirms its address.
LEMMA RowWrittenKeeps ==
  ASSUME AccountsInv, NEW u \in Users, account[u].status # "UNUSED",
         NEW row \in AccountRow, account' = [account EXCEPT ![u] = row],
         RowOK(row), row.status # "UNUSED", row.source = account[u].source,
         account[u].status \in InUse => row.status \in InUse,
         link' \in [Links -> LinkRow], \A l \in Links : Kept(l),
         row.status # "PENDING" => \A l \in Links : ~Confirms(link', l, u),
         request' \in [Requests -> RequestRow], \A r \in Requests : RequestStep(r)
  PROVE  GoodStep
  <1>1. /\ account' \in [Users -> AccountRow] /\ \A v \in Users : RowStep(v)
        /\ account'[u] = row
        /\ \A v \in Users \ {u} : account'[v] = account[v]
    BY RowWritten
  <1>2. ASSUME NEW l \in Links PROVE LinkStep(l) /\ PendingStays(l)
    <2>1. CASE Confirms(link', l, u)
      BY <1>1, <2>1 DEF LinkStep, PendingStays, Confirms
    <2>2. CASE ~Confirms(link', l, u)
      <3>1. link'[l].purpose = "SIGNUP_CONFIRMATION" /\ link'[l].user # None =>
              link'[l].user \in Users \ {u}
        BY <2>2 DEF Confirms, LinkRow
      <3> QED BY <1>1, <3>1, LinksStep
    <2> QED BY <2>1, <2>2
  <1> QED BY <1>1, <1>2 DEF GoodStep, AccountsTypeOK

\* A link that confirms an address belongs to a registration.
LEMMA ConfirmsPending ==
  ASSUME AccountsInv, NEW u \in Users, NEW l \in Links, Kept(l), Confirms(link', l, u)
  PROVE  /\ Confirms(link, l, u)
         /\ account[u].status = "PENDING" /\ account[u].source = "SELF_REGISTERED"
  <1>1. link'[l] # NoLink BY NoneIsNobody DEF Confirms, NoLink
  <1>2. Confirms(link, l, u) BY <1>1 DEF Kept, Confirms
  <1> QED BY <1>2, NoneIsNobody DEF AccountsInv, LinkOK, Confirms

LEMMA VerifyEmailKeeps ==
  ASSUME AccountsInv, NEW r \in Requests, VerifyEmail(r)
  PROVE  GoodStep
  <1> DEFINE u == request[r].on
  <1> DEFINE row == Verified(account[u])
  <1>1. /\ request[r].do = "verify" /\ RequestGood(account, link, request[r])
        /\ u \in Users /\ account[u].status # "UNUSED"
        /\ account[u] \in AccountRow /\ RowOK(account[u])
        /\ request' \in [Requests -> RequestRow] /\ \A k \in Requests : RequestStep(k)
    BY LastStatement DEF VerifyEmail
  <1>2. /\ account[u].source = "SELF_REGISTERED"
        /\ \A l \in Links : ~Confirms(link, l, u)
    BY <1>1 DEF RequestGood
  <1>3. /\ row \in AccountRow /\ row.status = "ACTIVE" /\ row.source = account[u].source
        /\ RowOK(row)
    BY <1>1, <1>2 DEF Verified, AccountRow, RowOK, InUse
  <1>4. link' \in [Links -> LinkRow] /\ \A l \in Links : Kept(l)
    BY LinksLeft DEF VerifyEmail
  <1>5. \A l \in Links : ~Confirms(link', l, u) BY <1>1, <1>2, <1>4, ConfirmsPending
  <1>6. account' = [account EXCEPT ![u] = row] BY DEF VerifyEmail, WriteAccount
  <1>7. row.status # "UNUSED" /\ row.status \in InUse BY <1>3 DEF InUse
  <1> HIDE DEF u, row
  <1> QED BY <1>1, <1>3, <1>4, <1>5, <1>6, <1>7, RowWrittenKeeps

LEMMA CompleteInviteKeeps ==
  ASSUME AccountsInv, NEW r \in Requests, CompleteInvite(r)
  PROVE  GoodStep
  <1> DEFINE u == request[r].on
  <1> DEFINE row == Completed(account[u])
  <1> DEFINE q == [request[r] EXCEPT !.do = "use invites"]
  <1>1. /\ request[r].do = "complete" /\ RequestGood(account, link, request[r])
        /\ u \in Users /\ account[u].status # "UNUSED"
        /\ account[u] \in AccountRow /\ RowOK(account[u])
        /\ q \in RequestRow /\ request' = [request EXCEPT ![r] = q]
    BY FirstStatement DEF CompleteInvite
  <1>2. account[u].source = "ADMIN_CREATED" BY <1>1 DEF RequestGood
  <1>3. /\ row \in AccountRow /\ row.status = "ACTIVE" /\ row.source = account[u].source
        /\ RowOK(row)
    BY <1>1 DEF Completed, Verified, AccountRow, RowOK, InUse
  <1>4. link' \in [Links -> LinkRow] /\ \A l \in Links : Kept(l)
    BY LinksLeft DEF CompleteInvite
  <1>5. \A l \in Links : ~Confirms(link', l, u)
    BY <1>1, <1>2, <1>4, ConfirmsPending
  <1>6. account' = [account EXCEPT ![u] = row] BY DEF CompleteInvite, WriteAccount
  <1>7. row.status # "UNUSED" /\ row.status \in InUse BY <1>3 DEF InUse
  <1>8. account'[u] = row BY <1>1, <1>6 DEF AccountsInv, AccountsTypeOK
  <1>9. q.on = u /\ q.do = "use invites" BY DEF AccountsInv, AccountsTypeOK, RequestRow
  <1>10. RequestGood(account', link', q) BY <1>1, <1>7, <1>8, <1>9 DEF RequestGood
  <1>11. request' \in [Requests -> RequestRow] /\ \A k \in Requests : RequestStep(k)
    BY <1>1, <1>10, RequestWritten
  <1> HIDE DEF u, row
  <1> QED BY <1>1, <1>3, <1>4, <1>5, <1>6, <1>7, <1>11, RowWrittenKeeps

LEMMA UseInvitesKeeps ==
  ASSUME AccountsInv, NEW r \in Requests, UseInvites(r)
  PROVE  GoodStep
  BY LastStatement, LinksClosed, NothingNew DEF UseInvites

LEMMA UseResetKeeps ==
  ASSUME AccountsInv, NEW r \in Requests, UseReset(r)
  PROVE  GoodStep
  BY LastStatement, LinksClosed, NothingNew DEF UseReset

LEMMA RevokeInviteKeeps ==
  ASSUME AccountsInv, NEW r \in Requests, RevokeInvite(r)
  PROVE  GoodStep
  BY LastStatement, LinksClosed, NothingNew DEF RevokeInvite

LEMMA RequestDiesKeeps ==
  ASSUME AccountsInv, NEW r \in Requests, RequestDies(r)
  PROVE  GoodStep
  BY RequestEnds, LinksLeft, NothingNew DEF RequestDies

\* A request ends with a link of another kind for an account there is.
LEMMA LinkSent ==
  ASSUME AccountsInv, UNCHANGED account, NEW u \in Users, account[u].status # "UNUSED",
         NEW purpose \in Purposes, purpose # "SIGNUP_CONFIRMATION",
         purpose = "ADMIN_INVITE" => account[u].source = "ADMIN_CREATED",
         NEW closed, \E l \in FreeLinks : LinksWritten(closed, l, u, purpose),
         request' \in [Requests -> RequestRow], \A r \in Requests : RequestStep(r)
  PROVE  GoodStep
  <1>1. PICK n \in FreeLinks : LinksWritten(closed, n, u, purpose) OBVIOUS
  <1>2. n \in Links BY DEF FreeLinks
  <1>3. /\ link' \in [Links -> LinkRow]
        /\ link'[n] = [user |-> u, purpose |-> purpose]
        /\ \A k \in Links \ {n} : Kept(k)
    BY <1>1, <1>2, LinkOpened
  <1>4. account' \in [Users -> AccountRow] /\ \A v \in Users : RowStep(v)
    BY AccountsLeft
  <1>5. ASSUME NEW l \in Links PROVE LinkStep(l) /\ PendingStays(l)
    <2>1. CASE l = n BY <1>3, <2>1 DEF LinkStep, PendingStays
    <2>2. CASE l # n BY <1>3, <2>2, LinksStep
    <2> QED BY <2>1, <2>2
  <1> QED BY <1>3, <1>4, <1>5 DEF GoodStep, AccountsTypeOK

LEMMA SendResetKeeps ==
  ASSUME AccountsInv, NEW r \in Requests, SendReset(r)
  PROVE  GoodStep
  <1>1. /\ request[r].on \in Users /\ account[request[r].on].status # "UNUSED"
        /\ request' \in [Requests -> RequestRow] /\ \A k \in Requests : RequestStep(k)
    BY LastStatement DEF SendReset
  <1> QED BY <1>1, LinkSent DEF SendReset, Purposes

LEMMA ResendInviteKeeps ==
  ASSUME AccountsInv, NEW r \in Requests, ResendInvite(r)
  PROVE  GoodStep
  <1>1. /\ request[r].do = "resend" /\ RequestGood(account, link, request[r])
        /\ request[r].on \in Users /\ account[request[r].on].status # "UNUSED"
        /\ request' \in [Requests -> RequestRow] /\ \A k \in Requests : RequestStep(k)
    BY LastStatement DEF ResendInvite
  <1>2. account[request[r].on].source = "ADMIN_CREATED" BY <1>1 DEF RequestGood
  <1> QED BY <1>1, <1>2, LinkSent DEF ResendInvite, Purposes

LEMMA SetPasswordKeeps ==
  ASSUME AccountsInv, NEW r \in Requests, SetPassword(r)
  PROVE  GoodStep
  <1> DEFINE u == request[r].on
  <1> DEFINE row == [account[u] EXCEPT !.password = TRUE]
  <1> DEFINE q == [request[r] EXCEPT !.do = "use reset"]
  <1>1. /\ u \in Users /\ account[u].status # "UNUSED"
        /\ account[u] \in AccountRow /\ RowOK(account[u])
        /\ q \in RequestRow /\ request' = [request EXCEPT ![r] = q]
    BY FirstStatement DEF SetPassword
  <1>2. /\ row \in AccountRow /\ RowOK(row) /\ row.source = account[u].source
        /\ row.status = account[u].status
    BY <1>1 DEF AccountRow, RowOK, InUse
  <1>3. link' \in [Links -> LinkRow] /\ \A l \in Links : Kept(l)
    BY LinksLeft DEF SetPassword
  <1>4. row.status # "PENDING" => \A l \in Links : ~Confirms(link', l, u)
    BY <1>1, <1>2, <1>3, ConfirmsPending
  <1>5. account' = [account EXCEPT ![u] = row] BY DEF SetPassword, WriteAccount
  <1>6. account'[u] = row BY <1>1, <1>5 DEF AccountsInv, AccountsTypeOK
  <1>7. q.on = u /\ q.do = "use reset" BY DEF AccountsInv, AccountsTypeOK, RequestRow
  <1>8. RequestGood(account', link', q) BY <1>1, <1>2, <1>6, <1>7 DEF RequestGood
  <1>9. request' \in [Requests -> RequestRow] /\ \A k \in Requests : RequestStep(k)
    BY <1>1, <1>8, RequestWritten
  <1> HIDE DEF u, row
  <1> QED BY <1>1, <1>2, <1>3, <1>4, <1>5, <1>9, RowWrittenKeeps

LEMMA ConfirmEmailKeeps ==
  ASSUME AccountsInv, NEW r \in Requests, ConfirmEmail(r)
  PROVE  GoodStep
  <1> DEFINE u == request[r].on
  <1> DEFINE row == Confirmed(account[u])
  <1> DEFINE closed == IF account[u].source = "ADMIN_CREATED" THEN {}
                       ELSE LinksOf(u, {"SIGNUP_CONFIRMATION", "ADMIN_INVITE"})
  <1>1. /\ u \in Users /\ account[u].status # "UNUSED"
        /\ account[u] \in AccountRow /\ RowOK(account[u])
        /\ request' \in [Requests -> RequestRow] /\ \A k \in Requests : RequestStep(k)
    BY LastStatement DEF ConfirmEmail
  <1>2. /\ row \in AccountRow /\ RowOK(row) /\ row.source = account[u].source
        /\ row.status # "UNUSED"
        /\ account[u].status \in InUse => row.status \in InUse
        /\ account[u].source = "ADMIN_CREATED" => row.status = account[u].status
    BY <1>1 DEF Confirmed, Verified, AccountRow, RowOK, InUse
  <1>3. /\ link' \in [Links -> LinkRow] /\ \A l \in Links : Kept(l)
        /\ \A l \in Links : l \in closed => link'[l] = NoLink
    BY LinksClosed DEF ConfirmEmail
  <1>4. account' = [account EXCEPT ![u] = row] BY DEF ConfirmEmail, WriteAccount
  <1>5. ASSUME NEW l \in Links, Confirms(link', l, u) PROVE FALSE
    <2>1. Confirms(link, l, u) /\ account[u].source = "SELF_REGISTERED"
      BY <1>1, <1>3, <1>5, ConfirmsPending
    <2>2. l \in closed BY <2>1 DEF Confirms, LinksOf
    <2>3. link'[l] = NoLink BY <1>3, <2>2
    <2> QED BY <1>1, <1>5, <2>3, NoneIsNobody DEF Confirms, NoLink
  <1> HIDE DEF u, row
  <1> QED BY <1>1, <1>2, <1>3, <1>4, <1>5, RowWrittenKeeps

LEMMA ToggleStatusKeeps ==
  ASSUME AccountsInv, NEW r \in Requests, ToggleStatus(r)
  PROVE  GoodStep
  <1> DEFINE u == request[r].on
  <1> DEFINE row == Toggled(account[u], request[r].row)
  <1>1. /\ request[r].do = "toggle" /\ RequestGood(account, link, request[r])
        /\ u \in Users /\ account[u].status # "UNUSED"
        /\ account[u] \in AccountRow /\ RowOK(account[u])
        /\ request' \in [Requests -> RequestRow] /\ \A k \in Requests : RequestStep(k)
    BY LastStatement DEF ToggleStatus
  <1>2. /\ account[u].status \in InUse /\ request[r].row.status \in InUse
        /\ request[r].row.active <=> request[r].row.status = "ACTIVE"
    BY <1>1 DEF RequestGood
  <1>3. /\ row \in AccountRow /\ RowOK(row) /\ row.source = account[u].source
        /\ row.status \in InUse
    BY <1>1, <1>2 DEF Toggled, AccountRow, RowOK, InUse
  <1>4. link' \in [Links -> LinkRow] /\ \A l \in Links : Kept(l)
    BY LinksLeft DEF ToggleStatus
  <1>5. \A l \in Links : ~Confirms(link', l, u)
    BY <1>1, <1>2, <1>4, ConfirmsPending DEF InUse
  <1>6. account' = [account EXCEPT ![u] = row] BY DEF ToggleStatus, WriteAccount
  <1>7. row.status # "UNUSED" BY <1>3 DEF InUse
  <1> HIDE DEF u, row
  <1> QED BY <1>1, <1>3, <1>4, <1>5, <1>6, <1>7, RowWrittenKeeps

(***************************************************************************)
(* The invariant and the theorems.                                         *)
(***************************************************************************)
LEMMA InitGood ==
  ASSUME AccountsInit
  PROVE  AccountsInv
  <1>1. FirstAdmin \in Users BY AccountsAssumption DEF Users
  <1>2. /\ NoAccount \in AccountRow /\ Completed(NoAccount) \in AccountRow
        /\ RowOK(NoAccount) /\ RowOK(Completed(NoAccount))
    BY DEF Completed, Verified, NoAccount, AccountRow, RowOK, InUse
  <1>3. NoLink \in LinkRow /\ NoRequest \in RequestRow
    BY DEF NoLink, LinkRow, Purposes, NoRequest, RequestRow, NoAccount, AccountRow
  <1>4. AccountsTypeOK BY <1>1, <1>2, <1>3 DEF AccountsInit, AccountsTypeOK
  <1>5. \A u \in Users : RowOK(account[u]) BY <1>2 DEF AccountsInit
  <1>6. \A l \in Links : LinkOK(account, link, l) BY DEF AccountsInit, LinkOK, NoLink
  <1>7. \A r \in Requests : RequestGood(account, link, request[r])
    BY DEF AccountsInit, RequestGood, NoRequest
  <1> QED BY <1>4, <1>5, <1>6, <1>7 DEF AccountsInv

LEMMA RequestKeeps ==
  ASSUME AccountsInv, NEW r \in Requests,
         \/ \E l \in Links : OpenLink(r, l)
         \/ \E u \in Users : ForgetPassword(r, u)
         \/ \E by \in Admins, u \in Users : ReadByAdmin(r, by, u)
         \/ UseSignupLink(r) \/ VerifyEmail(r)
         \/ CompleteInvite(r) \/ UseInvites(r)
         \/ SendReset(r) \/ SetPassword(r) \/ UseReset(r)
         \/ ConfirmEmail(r) \/ ToggleStatus(r) \/ ResendInvite(r) \/ RevokeInvite(r)
         \/ RequestDies(r)
  PROVE  GoodStep
  BY OpenLinkKeeps, ForgetPasswordKeeps, ReadByAdminKeeps, UseSignupLinkKeeps,
     VerifyEmailKeeps, CompleteInviteKeeps, UseInvitesKeeps, SendResetKeeps,
     SetPasswordKeeps, UseResetKeeps, ConfirmEmailKeeps, ToggleStatusKeeps,
     ResendInviteKeeps, RevokeInviteKeeps, RequestDiesKeeps

LEMMA AccountsStepGood ==
  ASSUME AccountsInv, AccountsNext
  PROVE  GoodStep
  BY RegisterKeeps, InviteKeeps, ExpireKeeps, RequestKeeps DEF AccountsNext

LEMMA NextGood ==
  ASSUME AccountsInv, [Next]_vars
  PROVE  AccountsInv'
  <1>1. CASE AccountsNext BY <1>1, AccountsStepGood, StepKeeps
  <1>2. CASE UNCHANGED accountVars
    <2>1. GoodStep BY <1>2, NothingNew, LinksLeft, RequestsLeft DEF accountVars
    <2> QED BY <2>1, StepKeeps
  <1>3. AccountsNext \/ UNCHANGED accountVars
    BY DEF Next, vars, accountVars, CreateTicket, ReplyAsRequester, Claim, Reply, CloseTicket
  <1> QED BY <1>1, <1>2, <1>3

\* The invariant gives what AccountsUsable says: a password once an account
\* is in use is what makes login and session the same test.
LEMMA GoodIsUsable ==
  ASSUME AccountsInv
  PROVE  AccountsUsable
  <1>1. ASSUME NEW u \in Users
        PROVE  /\ account[u].active <=> account[u].status = "ACTIVE"
               /\ Authenticates(u) <=> SessionUser(u)
               /\ account[u].status \in InUse => account[u].verified /\ account[u].password
    BY DEF AccountsInv, RowOK, InUse, Authenticates, SessionUser
  <1>2. ASSUME NEW l \in Links, link[l].user # None,
               link[l].purpose = "SIGNUP_CONFIRMATION"
        PROVE  account[link[l].user].status = "PENDING"
    BY <1>2 DEF AccountsInv, LinkOK
  <1> QED BY <1>1, <1>2 DEF AccountsUsable, InUse

\* However many users, links and requests there are, and however the handlers
\* interleave or break off between two statements, the columns of an account
\* agree, one in use has a confirmed address and a password, and no link
\* still confirms an address whose account no longer waits for it.
THEOREM AccountsCorrect == Spec => []AccountsUsable
  <1>1. Init => AccountsInv BY InitGood DEF Init
  <1>2. AccountsInv /\ [Next]_vars => AccountsInv' BY NextGood
  <1>3. AccountsInv => AccountsUsable BY GoodIsUsable
  <1> QED BY <1>1, <1>2, <1>3, PTL DEF Spec

(***************************************************************************)
(* Tickets.                                                                *)
(***************************************************************************)
TicketsTyped == ticket \in [Tickets -> TicketRow \cup {NoTicket}]

LEMMA TicketWritten ==
  ASSUME TicketsTyped, NEW t \in Tickets, NEW row \in TicketRow,
         ticket' = [ticket EXCEPT ![t] = row]
  PROVE  TicketsTyped'
  BY DEF TicketsTyped

LEMMA MessageTyped ==
  ASSUME NEW row \in TicketRow, NEW u \in Users, NEW role \in {"REQUESTER", "ADMIN"}
  PROVE  WithMessage(row, u, role) \in TicketRow
  <1>1. Append(row.thread, u) \in Seq(Users)
    <2>1. row.thread \in Seq(Users) BY DEF TicketRow
    <2> QED BY <2>1
  <1>2. [row EXCEPT !.thread = Append(row.thread, u), !.lastRole = role] \in TicketRow
    BY <1>1 DEF TicketRow
  <1> QED BY <1>2 DEF WithMessage

\* What TicketsInOneHand says of one ticket, and why it stays so: its column
\* of the last message tells the truth, and its administrator was let in, and
\* an account once in use stays in use or suspended.
TicketOK(rows, row) ==
  /\ row.admin = None <=> row.status = "OPEN"
  /\ row.admin # None => rows[row.admin].status \in InUse
  /\ row.thread # <<>>
  /\ ToSet(row.thread) \subseteq {row.requester, row.admin}
  /\ Last(row.thread) = row.requester <=> row.lastRole = "REQUESTER"
  /\ row.status = "OPEN" => row.lastRole = "REQUESTER"

DeskInv ==
  /\ AccountsInv /\ TicketsTyped
  /\ \A t \in Tickets : ticket[t] # NoTicket => TicketOK(account, ticket[t])

LEMMA ThreadAppended ==
  ASSUME NEW S, NEW s \in Seq(S), NEW x \in S
  PROVE  /\ Append(s, x) # <<>>
         /\ ToSet(Append(s, x)) = ToSet(s) \cup {x}
         /\ Last(Append(s, x)) = x
  <1>1. Len(Append(s, x)) = Len(s) + 1 /\ Len(s) \in Nat OBVIOUS
  <1>2. Append(s, x)[Len(s) + 1] = x OBVIOUS
  <1>3. \A i \in 1..Len(s) : Append(s, x)[i] = s[i] OBVIOUS
  <1>4. DOMAIN s = 1..Len(s) /\ DOMAIN Append(s, x) = 1..(Len(s) + 1) OBVIOUS
  <1>5. 1..(Len(s) + 1) = (1..Len(s)) \cup {Len(s) + 1} BY <1>1
  <1>6. ToSet(Append(s, x)) = ToSet(s) \cup {x}
    BY <1>2, <1>3, <1>4, <1>5 DEF ToSet
  <1>7. Append(s, x) # <<>> BY <1>1
  <1>8. Last(Append(s, x)) = x BY <1>1, <1>2 DEF Last
  <1> QED BY <1>6, <1>7, <1>8

\* A message of the requester, and one of the administrator.
LEMMA RequesterWrites ==
  ASSUME NEW row \in TicketRow, TicketOK(account, row)
  PROVE  TicketOK(account, WithMessage(row, row.requester, "REQUESTER"))
  <1> DEFINE new == WithMessage(row, row.requester, "REQUESTER")
  <1>1. row.requester \in Users /\ row.thread \in Seq(Users) BY DEF TicketRow, Users
  <1>2. /\ new.thread = Append(row.thread, row.requester) /\ new.lastRole = "REQUESTER"
        /\ new.admin = row.admin /\ new.status = row.status
        /\ new.requester = row.requester
    BY DEF WithMessage, TicketRow
  <1> SUFFICES TicketOK(account, new) OBVIOUS
  <1> HIDE DEF new
  <1>3. /\ new.thread # <<>> /\ Last(new.thread) = row.requester
        /\ ToSet(new.thread) = ToSet(row.thread) \cup {row.requester}
    BY <1>1, <1>2, ThreadAppended
  <1> QED BY <1>2, <1>3 DEF TicketOK

LEMMA AdminWrites ==
  ASSUME NEW row \in TicketRow, TicketOK(account, row), row.status = "CLAIMED"
  PROVE  TicketOK(account, WithMessage(row, row.admin, "ADMIN"))
  <1> DEFINE new == WithMessage(row, row.admin, "ADMIN")
  <1>1. row.admin \in Admins BY DEF TicketOK, TicketRow
  <1>2. row.admin \in Users /\ row.thread \in Seq(Users) BY <1>1 DEF TicketRow, Users
  <1>3. row.admin # row.requester BY <1>1, AccountsAssumption DEF TicketRow
  <1>4. /\ new.thread = Append(row.thread, row.admin) /\ new.lastRole = "ADMIN"
        /\ new.admin = row.admin /\ new.status = row.status
        /\ new.requester = row.requester
    BY DEF WithMessage, TicketRow
  <1> SUFFICES TicketOK(account, new) OBVIOUS
  <1> HIDE DEF new
  <1>5. /\ new.thread # <<>> /\ Last(new.thread) = row.admin
        /\ ToSet(new.thread) = ToSet(row.thread) \cup {row.admin}
    BY <1>2, <1>4, ThreadAppended
  <1>6. new.status # "OPEN" BY <1>4
  <1> QED BY <1>3, <1>4, <1>5, <1>6 DEF TicketOK

\* Whom a handler lets in is in use.
LEMMA SignedInInUse ==
  ASSUME AccountsInv, NEW u \in Users, SignedIn(u)
  PROVE  account[u].status \in InUse
  BY DEF SignedIn, SessionUser, InUse

\* A ticket that is written becomes a good one.
LEMMA TicketWrittenGood ==
  ASSUME DeskInv, UNCHANGED accountVars, NEW t \in Tickets, NEW row \in TicketRow,
         ticket' = [ticket EXCEPT ![t] = row], TicketOK(account, row)
  PROVE  DeskInv'
  <1>1. AccountsInv'
    <2>1. GoodStep BY NothingNew, LinksLeft, RequestsLeft DEF accountVars, DeskInv
    <2> QED BY <2>1, StepKeeps DEF DeskInv
  <1>2. TicketsTyped' BY TicketWritten DEF DeskInv
  <1>3. ASSUME NEW k \in Tickets, ticket'[k] # NoTicket
        PROVE  TicketOK(account', ticket'[k])
    <2>1. account' = account BY DEF accountVars
    <2>2. CASE k = t
      <3>1. ticket'[k] = row BY <2>2 DEF DeskInv, TicketsTyped
      <3> QED BY <2>1, <3>1
    <2>3. CASE k # t
      <3>1. ticket'[k] = ticket[k] BY <2>3 DEF DeskInv, TicketsTyped
      <3> QED BY <1>3, <2>1, <3>1 DEF DeskInv
    <2> QED BY <2>2, <2>3
  <1> QED BY <1>1, <1>2, <1>3 DEF DeskInv

LEMMA CreateTicketGood ==
  ASSUME DeskInv, NEW t \in Tickets, NEW u \in Clients, CreateTicket(u, t)
  PROVE  DeskInv'
  <1> DEFINE row == WithMessage(OpenedBy(u), u, "REQUESTER")
  <1>1. u \in Users BY DEF Users
  <1>2. <<>> \in Seq(Users) OBVIOUS
  <1>3. OpenedBy(u) \in TicketRow BY <1>2 DEF OpenedBy, NoTicket, TicketRow
  <1>4. row \in TicketRow BY <1>1, <1>3, MessageTyped
  <1>5. /\ row.thread = Append(<<>>, u) /\ row.lastRole = "REQUESTER"
        /\ row.admin = None /\ row.status = "OPEN" /\ row.requester = u
    BY DEF WithMessage, OpenedBy, NoTicket
  <1>6. ticket' = [ticket EXCEPT ![t] = row] /\ UNCHANGED accountVars BY DEF CreateTicket
  <1> HIDE DEF row
  <1>7. /\ row.thread # <<>> /\ Last(row.thread) = u
        /\ ToSet(row.thread) = {u}
    <2>1. row.thread = <<u>> BY <1>5
    <2>2. <<u>> # <<>> /\ Len(<<u>>) = 1 /\ <<u>>[1] = u /\ DOMAIN <<u>> = {1} OBVIOUS
    <2>3. Last(<<u>>) = u BY <2>2 DEF Last
    <2>4. ToSet(<<u>>) = {u} BY <2>2 DEF ToSet
    <2> QED BY <2>1, <2>2, <2>3, <2>4
  <1>8. TicketOK(account, row) BY <1>5, <1>7 DEF TicketOK
  <1> QED BY <1>4, <1>6, <1>8, TicketWrittenGood

LEMMA ReplyAsRequesterGood ==
  ASSUME DeskInv, NEW t \in Tickets, NEW u \in Clients, ReplyAsRequester(u, t)
  PROVE  DeskInv'
  <1>1. u \in Users /\ ticket[t].requester = u BY DEF ReplyAsRequester, WritableBy, Users
  <1>2. ticket[t] # NoTicket BY <1>1, NoneIsNobody DEF NoTicket
  <1>3. ticket[t] \in TicketRow /\ TicketOK(account, ticket[t])
    BY <1>2 DEF DeskInv, TicketsTyped
  <1>4. TicketOK(account, WithMessage(ticket[t], u, "REQUESTER"))
    BY <1>1, <1>3, RequesterWrites
  <1>5. WithMessage(ticket[t], u, "REQUESTER") \in TicketRow BY <1>1, <1>3, MessageTyped
  <1>6. /\ ticket' = [ticket EXCEPT ![t] = WithMessage(ticket[t], u, "REQUESTER")]
        /\ UNCHANGED accountVars
    BY DEF ReplyAsRequester
  <1> QED BY <1>4, <1>5, <1>6, TicketWrittenGood

LEMMA ReplyGood ==
  ASSUME DeskInv, NEW t \in Tickets, NEW by \in Admins, Reply(by, t)
  PROVE  DeskInv'
  <1>1. by \in Users /\ ticket[t].admin = by /\ ticket[t].status = "CLAIMED"
    BY DEF Reply, HandledBy, Users
  <1>2. ticket[t] # NoTicket BY <1>1 DEF NoTicket
  <1>3. ticket[t] \in TicketRow /\ TicketOK(account, ticket[t])
    BY <1>2 DEF DeskInv, TicketsTyped
  <1>4. TicketOK(account, WithMessage(ticket[t], by, "ADMIN"))
    BY <1>1, <1>3, AdminWrites
  <1>5. WithMessage(ticket[t], by, "ADMIN") \in TicketRow BY <1>1, <1>3, MessageTyped
  <1>6. /\ ticket' = [ticket EXCEPT ![t] = WithMessage(ticket[t], by, "ADMIN")]
        /\ UNCHANGED accountVars
    BY DEF Reply
  <1> QED BY <1>4, <1>5, <1>6, TicketWrittenGood

LEMMA ClaimGood ==
  ASSUME DeskInv, NEW t \in Tickets, NEW by \in Admins, Claim(by, t)
  PROVE  DeskInv'
  <1> DEFINE row == [ticket[t] EXCEPT !.admin = by, !.status = "CLAIMED"]
  <1>1. by \in Users /\ ticket[t].status = "OPEN" BY DEF Claim, Claimable, Users
  <1>2. ticket[t] # NoTicket BY <1>1 DEF NoTicket
  <1>3. ticket[t] \in TicketRow /\ TicketOK(account, ticket[t])
    BY <1>2 DEF DeskInv, TicketsTyped
  <1>4. account[by].status \in InUse BY <1>1, SignedInInUse DEF Claim, DeskInv
  <1>5. /\ row \in TicketRow /\ row.admin = by /\ row.status = "CLAIMED"
        /\ row.requester = ticket[t].requester /\ row.thread = ticket[t].thread
        /\ row.lastRole = ticket[t].lastRole
    BY <1>3 DEF TicketRow
  <1>6. ToSet(row.thread) \subseteq Users
    <2>1. row.thread \in Seq(Users) BY <1>5 DEF TicketRow
    <2> HIDE DEF row
    <2>2. \A i \in DOMAIN row.thread : row.thread[i] \in Users BY <2>1
    <2> QED BY <2>2 DEF ToSet
  <1>7. ticket' = [ticket EXCEPT ![t] = row] /\ UNCHANGED accountVars
    BY DEF Claim, DeskInv, TicketsTyped
  <1> HIDE DEF row
  <1>8. ToSet(row.thread) \subseteq {row.requester, row.admin}
    BY <1>1, <1>3, <1>5, <1>6, NoneIsNobody DEF TicketOK
  <1>9. TicketOK(account, row)
    BY <1>1, <1>3, <1>4, <1>5, <1>8, NoneIsNobody DEF TicketOK
  <1> QED BY <1>5, <1>7, <1>9, TicketWrittenGood

LEMMA CloseTicketGood ==
  ASSUME DeskInv, NEW t \in Tickets, NEW by \in Admins, CloseTicket(by, t)
  PROVE  DeskInv'
  <1> DEFINE row == [ticket[t] EXCEPT !.status = "CLOSED"]
  <1>1. ticket[t].status = "CLAIMED" BY DEF CloseTicket, HandledBy
  <1>2. ticket[t] # NoTicket BY <1>1 DEF NoTicket
  <1>3. ticket[t] \in TicketRow /\ TicketOK(account, ticket[t])
    BY <1>2 DEF DeskInv, TicketsTyped
  <1>4. /\ row \in TicketRow /\ row.admin = ticket[t].admin /\ row.status = "CLOSED"
        /\ row.requester = ticket[t].requester /\ row.thread = ticket[t].thread
        /\ row.lastRole = ticket[t].lastRole
    BY <1>3 DEF TicketRow
  <1>5. ticket' = [ticket EXCEPT ![t] = row] /\ UNCHANGED accountVars
    BY DEF CloseTicket, DeskInv, TicketsTyped
  <1> HIDE DEF row
  <1>6. TicketOK(account, row) BY <1>1, <1>3, <1>4 DEF TicketOK
  <1> QED BY <1>4, <1>5, <1>6, TicketWrittenGood

\* The accounts change under the tickets: an administrator in use stays so.
LEMMA AccountsUnderTickets ==
  ASSUME DeskInv, AccountsNext, UNCHANGED ticket
  PROVE  DeskInv'
  <1>1. GoodStep BY AccountsStepGood DEF DeskInv
  <1>2. AccountsInv' BY <1>1, StepKeeps DEF DeskInv
  <1>3. TicketsTyped' BY DEF DeskInv, TicketsTyped
  <1>4. ASSUME NEW t \in Tickets, ticket'[t] # NoTicket
        PROVE  TicketOK(account', ticket'[t])
    <2>1. ticket'[t] = ticket[t] /\ ticket[t] \in TicketRow
      BY <1>4 DEF DeskInv, TicketsTyped
    <2>2. TicketOK(account, ticket[t]) BY <1>4, <2>1 DEF DeskInv
    <2>3. ticket[t].admin # None => account'[ticket[t].admin].status \in InUse
      <3>1. SUFFICES ASSUME ticket[t].admin # None
                     PROVE  account'[ticket[t].admin].status \in InUse
        OBVIOUS
      <3>2. ticket[t].admin \in Users BY <2>1, <3>1 DEF TicketRow, Users
      <3>3. RowStep(ticket[t].admin) BY <1>1, <3>2 DEF GoodStep
      <3>4. account[ticket[t].admin].status \in InUse BY <2>2, <3>1 DEF TicketOK
      <3>5. account[ticket[t].admin].status # "UNUSED" BY <3>4 DEF InUse
      <3> QED BY <3>3, <3>4, <3>5 DEF RowStep
    <2> QED BY <2>1, <2>2, <2>3 DEF TicketOK
  <1> QED BY <1>2, <1>3, <1>4 DEF DeskInv

LEMMA DeskStepGood ==
  ASSUME DeskInv, [Next]_vars
  PROVE  DeskInv'
  <1>1. CASE UNCHANGED vars
    <2>1. AccountsInv' BY <1>1, NextGood DEF DeskInv
    <2>2. account' = account /\ ticket' = ticket BY <1>1 DEF vars
    <2>3. TicketsTyped' BY <2>2 DEF DeskInv, TicketsTyped
    <2> QED BY <2>1, <2>2, <2>3 DEF DeskInv
  <1>2. CASE Next
    BY <1>2, AccountsUnderTickets, CreateTicketGood, ReplyAsRequesterGood, ClaimGood,
       ReplyGood, CloseTicketGood DEF Next
  <1> QED BY <1>1, <1>2

LEMMA InOneHand ==
  ASSUME DeskInv
  PROVE  TicketsInOneHand
  <1>1. ASSUME NEW t \in Tickets, ticket[t] # NoTicket
        PROVE  /\ ticket[t].admin = None <=> ticket[t].status = "OPEN"
               /\ ticket[t].admin # None =>
                    /\ account[ticket[t].admin].password
                    /\ account[ticket[t].admin].verified
               /\ ToSet(ticket[t].thread) \subseteq {ticket[t].requester, ticket[t].admin}
    <2>1. TicketOK(account, ticket[t]) /\ ticket[t] \in TicketRow
      BY <1>1 DEF DeskInv, TicketsTyped
    <2>2. ticket[t].admin # None => ticket[t].admin \in Users
      BY <2>1 DEF TicketRow, Users
    <2> QED BY <2>1, <2>2 DEF TicketOK, DeskInv, AccountsInv, RowOK
  <1>2. ASSUME NEW t \in Tickets
        PROVE  AwaitsAdmin(ticket[t]) <=>
                 /\ ticket[t].status \in {"OPEN", "CLAIMED"}
                 /\ Last(ticket[t].thread) = ticket[t].requester
    <2>1. CASE ticket[t] = NoTicket BY <2>1 DEF NoTicket, AwaitsAdmin
    <2>2. CASE ticket[t] # NoTicket
      <3>1. TicketOK(account, ticket[t]) BY <2>2 DEF DeskInv
      <3> QED BY <3>1 DEF TicketOK, AwaitsAdmin
    <2> QED BY <2>1, <2>2
  <1>3. {t \in Tickets : AwaitsAdmin(ticket[t])} =
          {t \in Tickets : /\ ticket[t].status \in {"OPEN", "CLAIMED"}
                           /\ Last(ticket[t].thread) = ticket[t].requester}
    BY <1>2
  <1> QED BY <1>1, <1>3 DEF TicketsInOneHand, Badge

\* Whatever buttons any number of administrators press, suspended and invited
\* ones among them: a ticket is handled by one who completed the registration,
\* only that one and its requester write in it, and the badge counts the
\* tickets whose last word is the requester's.
THEOREM TicketsCorrect == Spec => []TicketsInOneHand
  <1>1. Init => DeskInv BY InitGood DEF Init, DeskInv, TicketsTyped
  <1>2. DeskInv /\ [Next]_vars => DeskInv' BY DeskStepGood
  <1>3. DeskInv => TicketsInOneHand BY InOneHand
  <1> QED BY <1>1, <1>2, <1>3, PTL DEF Spec

\* Every row of the accounts and of the desk keeps the type of its columns,
\* for any number of users, links, requests and tickets.
THEOREM DeskTypeCorrect == Spec => []DeskTypeOK
  <1>1. Init => DeskInv BY InitGood DEF Init, DeskInv, TicketsTyped
  <1>2. DeskInv /\ [Next]_vars => DeskInv' BY DeskStepGood
  <1>3. DeskInv => DeskTypeOK BY DEF DeskInv, AccountsInv, TicketsTyped, DeskTypeOK
  <1> QED BY <1>1, <1>2, <1>3, PTL DEF Spec
=============================================================================
