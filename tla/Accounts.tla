------------------------------ MODULE Accounts ------------------------------
(***************************************************************************)
(* Accounts, the links sent by e-mail that confirm them, and what          *)
(* administrators do to them.  No handler locks a row: each reads the      *)
(* account or the link first and writes later, in one or more statements,  *)
(* so that a request is here a read followed by its writes, between which  *)
(* others work and after any of which it can die.                          *)
(*                                                                         *)
(* Who is logged in is who may be: a session is looked up in the database  *)
(* at every request, so that an account in use can act at any time.        *)
(***************************************************************************)
EXTENDS Naturals, FiniteSets

CONSTANTS
  Clients, Admins,  \* users by their role, which never changes
  FirstAdmin,       \* the administrator the system starts with
  Links,            \* rows of account_verification_tokens that open something
  Requests,         \* requests under way
  None

Users == Clients \cup Admins

ASSUME AccountsAssumption ==
  FirstAdmin \in Admins /\ Clients \cap Admins = {} /\ None \notin Users \cup Links

VARIABLES
  account,  \* rows of users
  link,     \* links; one that opens nothing any more is NoLink
  request

accountVars == <<account, link, request>>

Purposes == {"SIGNUP_CONFIRMATION", "ADMIN_INVITE", "PASSWORD_RESET"}

\* verified: email_verified_at is set; password: one was chosen.
AccountRow ==
  [source : {"SELF_REGISTERED", "ADMIN_CREATED"},
   status : {"UNUSED", "PENDING", "ACTIVE", "SUSPENDED"},
   active : BOOLEAN, verified : BOOLEAN, password : BOOLEAN]
NoAccount == [source |-> "SELF_REGISTERED", status |-> "UNUSED", active |-> FALSE,
              verified |-> FALSE, password |-> FALSE]
LinkRow == [user : Users \cup {None}, purpose : Purposes]
NoLink == [user |-> None, purpose |-> "SIGNUP_CONFIRMATION"]

\* do: the statement the request comes to next; row: the account it has read.
RequestRow ==
  [do : {"idle", "use link", "verify", "complete", "use invites", "send reset",
         "set password", "use reset", "confirm", "toggle", "resend", "revoke"},
   on : Users \cup {None}, link : Links \cup {None}, row : AccountRow]
NoRequest == [do |-> "idle", on |-> None, link |-> None, row |-> NoAccount]
Waits(do, u, l, row) == [do |-> do, on |-> u, link |-> l, row |-> row]

(***************************************************************************)
(* Reading.                                                                *)
(***************************************************************************)
\* authenticate_user_with_reason: the login form reads the status first.
Authenticates(u) ==
  /\ account[u].status \notin {"UNUSED", "PENDING", "SUSPENDED"}
  /\ account[u].active
  /\ account[u].status = "ACTIVE"
  /\ account[u].password

\* resolve_active_session_user, which reads no password.
SessionUser(u) == account[u].active /\ account[u].status = "ACTIVE"

\* login_view opened the session, and the request it now makes is let in.
SignedIn(u) == Authenticates(u) /\ SessionUser(u)

LinksOf(u, purposes) ==
  {l \in Links : link[l].user = u /\ link[l].purpose \in purposes}

\* A row of a link nobody holds and that opens nothing is as good as none.
FreeLinks ==
  {l \in Links : link[l] = NoLink /\ \A r \in Requests : request[r].link # l}

\* validate_admin_invite_token, once the link is known to be open
Invited(u) == account[u].status = "PENDING" /\ ~account[u].active

(***************************************************************************)
(* Writing.                                                                *)
(***************************************************************************)
\* create_user_and_profile
SignedUp == [NoAccount EXCEPT !.status = "PENDING", !.password = TRUE]

\* create_invited_user_from_admin_form: the password stays empty.
InvitedAccount ==
  [NoAccount EXCEPT !.source = "ADMIN_CREATED", !.status = "PENDING"]

\* mark_user_as_verified
Verified(row) == [row EXCEPT !.status = "ACTIVE", !.active = TRUE, !.verified = TRUE]

\* complete_invited_user_account
Completed(row) == [Verified(row) EXCEPT !.password = TRUE]

\* Faulty variant of Confirmed: invited users need not complete the invitation.
ConfirmedAtOnce(row) == Verified(row)

\* confirm_user_email_by_admin: an invited user must still choose a password.
Confirmed(row) ==
  IF row.source = "ADMIN_CREATED" THEN [row EXCEPT !.verified = TRUE] ELSE Verified(row)

\* toggle_user_status_by_admin: the two columns are computed from the row
\* that was read and written over the one there is.
Toggled(row, read) ==
  IF read.active
  THEN [row EXCEPT !.active = FALSE,
                   !.status = IF read.status = "ACTIVE" THEN "SUSPENDED" ELSE read.status]
  ELSE [row EXCEPT !.active = TRUE,
                   !.status = IF read.status = "SUSPENDED" THEN "ACTIVE" ELSE read.status]

\* UPDATE and INSERT on the links: those of closed are used or revoked, and
\* l is a new one unless it is None.
LinksWritten(closed, l, u, purpose) ==
  link' = [k \in Links |-> IF k = l THEN [user |-> u, purpose |-> purpose]
                           ELSE IF k \in closed THEN NoLink ELSE link[k]]

Close(closed) == LinksWritten(closed, None, None, "SIGNUP_CONFIRMATION")

(***************************************************************************)
(* Registration and invitation: one transaction each.                      *)
(***************************************************************************)
Register(u) ==
  /\ u \in Clients /\ account[u].status = "UNUSED"
  /\ account' = [account EXCEPT ![u] = SignedUp]
  /\ \E l \in FreeLinks : LinksWritten({}, l, u, "SIGNUP_CONFIRMATION")
  /\ UNCHANGED request

Invite(by, u) ==
  /\ SignedIn(by) /\ account[u].status = "UNUSED"
  /\ account' = [account EXCEPT ![u] = InvitedAccount]
  /\ \E l \in FreeLinks : LinksWritten({}, l, u, "ADMIN_INVITE")
  /\ UNCHANGED request

\* expires_at passes.
Expire(l) ==
  /\ link[l] # NoLink
  /\ Close({l})
  /\ UNCHANGED <<account, request>>

(***************************************************************************)
(* A request reads what it decides on.                                     *)
(***************************************************************************)
Read(r, do, u, l, row) ==
  /\ request[r] = NoRequest
  /\ request' = [request EXCEPT ![r] = Waits(do, u, l, row)]
  /\ UNCHANGED <<account, link>>

\* verify_email_view, admin_invite_complete_view, password_reset_confirm_view
OpenLink(r, l) ==
  /\ link[l] # NoLink
  /\ \/ link[l].purpose = "SIGNUP_CONFIRMATION" /\ Read(r, "use link", link[l].user, l, NoAccount)
     \/ /\ link[l].purpose = "ADMIN_INVITE" /\ Invited(link[l].user)
        /\ Read(r, "complete", link[l].user, l, NoAccount)
     \/ link[l].purpose = "PASSWORD_RESET" /\ Read(r, "set password", link[l].user, l, NoAccount)

\* password_reset_request_view
ForgetPassword(r, u) == account[u].active /\ Read(r, "send reset", u, None, NoAccount)

\* The buttons of admin_user_detail_view, with the checks of their services
\* on the row that get_object_or_404 read.
ReadByAdmin(r, by, u) ==
  /\ SignedIn(by) /\ account[u].status # "UNUSED"
  /\ \/ by # u /\ account[u].status = "PENDING" /\ Read(r, "confirm", u, None, NoAccount)
     \/ /\ by # u /\ ~(~account[u].active /\ account[u].status = "PENDING")
        /\ Read(r, "toggle", u, None, account[u])
     \/ /\ account[u].source = "ADMIN_CREATED" /\ account[u].status = "PENDING"
        /\ Read(r, "resend", u, None, NoAccount) \/ Read(r, "revoke", u, None, NoAccount)

(***************************************************************************)
(* It writes, statement by statement.                                      *)
(***************************************************************************)
Step(r, do, next) ==
  /\ request[r].do = do
  /\ request' = [request EXCEPT ![r] = IF next = "idle" THEN NoRequest ELSE [@ EXCEPT !.do = next]]

WriteAccount(r, row) ==
  account' = [account EXCEPT ![request[r].on] = row]

\* verify_email_view
UseSignupLink(r) ==
  Step(r, "use link", "verify") /\ Close({request[r].link}) /\ UNCHANGED account

VerifyEmail(r) ==
  /\ Step(r, "verify", "idle")
  /\ WriteAccount(r, Verified(account[request[r].on]))
  /\ UNCHANGED link

\* admin_invite_complete_view
CompleteInvite(r) ==
  /\ Step(r, "complete", "use invites")
  /\ WriteAccount(r, Completed(account[request[r].on]))
  /\ UNCHANGED link

UseInvites(r) ==
  /\ Step(r, "use invites", "idle")
  /\ Close(LinksOf(request[r].on, {"ADMIN_INVITE"}))
  /\ UNCHANGED account

\* create_password_reset_token
SendReset(r) ==
  /\ Step(r, "send reset", "idle")
  /\ \E l \in FreeLinks :
       LinksWritten(LinksOf(request[r].on, {"PASSWORD_RESET"}), l, request[r].on, "PASSWORD_RESET")
  /\ UNCHANGED account

\* password_reset_confirm_view
SetPassword(r) ==
  /\ Step(r, "set password", "use reset")
  /\ WriteAccount(r, [account[request[r].on] EXCEPT !.password = TRUE])
  /\ UNCHANGED link

UseReset(r) ==
  Step(r, "use reset", "idle") /\ Close({request[r].link}) /\ UNCHANGED account

\* Faulty variant of ConfirmEmail: the link of the confirmation stays open.
ConfirmEmailOnly(r) ==
  /\ Step(r, "confirm", "idle")
  /\ WriteAccount(r, Confirmed(account[request[r].on]))
  /\ UNCHANGED link

\* confirm_user_email_by_admin, one transaction
ConfirmEmail(r) ==
  LET u == request[r].on
  IN  /\ Step(r, "confirm", "idle")
      /\ WriteAccount(r, Confirmed(account[u]))
      /\ Close(IF account[u].source = "ADMIN_CREATED" THEN {}
               ELSE LinksOf(u, {"SIGNUP_CONFIRMATION", "ADMIN_INVITE"}))

ToggleStatus(r) ==
  /\ Step(r, "toggle", "idle")
  /\ WriteAccount(r, Toggled(account[request[r].on], request[r].row))
  /\ UNCHANGED link

\* create_admin_invite_token
ResendInvite(r) ==
  /\ Step(r, "resend", "idle")
  /\ \E l \in FreeLinks :
       LinksWritten(LinksOf(request[r].on, {"ADMIN_INVITE"}), l, request[r].on, "ADMIN_INVITE")
  /\ UNCHANGED account

RevokeInvite(r) ==
  /\ Step(r, "revoke", "idle")
  /\ Close(LinksOf(request[r].on, {"ADMIN_INVITE"}))
  /\ UNCHANGED account

\* The server stops between two statements, or the database refuses one.
RequestDies(r) ==
  /\ request[r] # NoRequest
  /\ request' = [request EXCEPT ![r] = NoRequest]
  /\ UNCHANGED <<account, link>>

AccountsInit ==
  /\ account = [u \in Users |-> IF u = FirstAdmin THEN Completed(NoAccount) ELSE NoAccount]
  /\ link = [l \in Links |-> NoLink]
  /\ request = [r \in Requests |-> NoRequest]

AccountsNext ==
  \/ \E u \in Users : Register(u)
  \/ \E by \in Admins, u \in Users : Invite(by, u)
  \/ \E l \in Links : Expire(l)
  \/ \E r \in Requests :
       \/ \E l \in Links : OpenLink(r, l)
       \/ \E u \in Users : ForgetPassword(r, u)
       \/ \E by \in Admins, u \in Users : ReadByAdmin(r, by, u)
       \/ UseSignupLink(r) \/ VerifyEmail(r)
       \/ CompleteInvite(r) \/ UseInvites(r)
       \/ SendReset(r) \/ SetPassword(r) \/ UseReset(r)
       \/ ConfirmEmail(r) \/ ToggleStatus(r) \/ ResendInvite(r) \/ RevokeInvite(r)
       \/ RequestDies(r)

(***************************************************************************)
(* Properties.                                                             *)
(***************************************************************************)
AccountsTypeOK ==
  /\ account \in [Users -> AccountRow]
  /\ link \in [Links -> LinkRow]
  /\ request \in [Requests -> RequestRow]

\* However the handlers of users and administrators interleave, the columns
\* of an account agree, so that the login, the sessions and the buttons see
\* the same account; an account in use or suspended has a confirmed address
\* and a password; and a link that still confirms an address belongs to an
\* account that waits for it, so that opening an old one lifts no suspension.
AccountsUsable ==
  /\ \A u \in Users :
       /\ account[u].active <=> account[u].status = "ACTIVE"
       /\ Authenticates(u) <=> SessionUser(u)
       /\ account[u].status \in {"ACTIVE", "SUSPENDED"} =>
            account[u].verified /\ account[u].password
  /\ \A l \in Links :
       link[l].user # None /\ link[l].purpose = "SIGNUP_CONFIRMATION" =>
         account[link[l].user].status = "PENDING"
=============================================================================
