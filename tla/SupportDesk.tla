----------------------------- MODULE SupportDesk -----------------------------
(***************************************************************************)
(* Support tickets on top of the accounts: a client opens a ticket and     *)
(* writes in it until it is closed; one administrator claims it, answers   *)
(* and closes it.  Every service locks the row of the ticket and checks it *)
(* again, so that each is one step.                                        *)
(***************************************************************************)
EXTENDS Accounts, SequencesExt

CONSTANTS
  Tickets,
  MaxMessages  \* bound: messages of a ticket

ASSUME SupportAssumption == MaxMessages \in Nat /\ None \notin Tickets

VARIABLE ticket

vars == <<account, link, request, ticket>>

\* thread: the authors of support_ticket_messages, in order; lastRole:
\* last_message_by_role.
TicketRow ==
  [status : {"OPEN", "CLAIMED", "CLOSED"}, requester : Clients,
   admin : Admins \cup {None}, thread : Seq(Users), lastRole : {"REQUESTER", "ADMIN"}]
NoTicket == [status |-> "UNUSED", requester |-> None, admin |-> None,
             thread |-> <<>>, lastRole |-> "NONE"]

\* create_support_ticket, before its first message
OpenedBy(u) ==
  [NoTicket EXCEPT !.status = "OPEN", !.requester = u, !.lastRole = "REQUESTER"]

\* Faulty variant of WithMessage: the ticket is not told who wrote last.
WithMessageOnly(row, u, role) == [row EXCEPT !.thread = Append(@, u)]

\* _create_ticket_message
WithMessage(row, u, role) ==
  [row EXCEPT !.thread = Append(@, u), !.lastRole = role]

\* Faulty variant of Claimable: a ticket in treatment is claimed again.
ClaimableTwice(row) == row.status \in {"OPEN", "CLAIMED"}

\* claim_support_ticket
Claimable(row) == row.status = "OPEN"

\* reply_support_ticket and close_support_ticket
HandledBy(row, by) == row.status = "CLAIMED" /\ row.admin = by

\* reply_support_ticket_as_requester
WritableBy(row, u) == row.requester = u /\ row.status # "CLOSED"

\* _get_support_badge_count
AwaitsAdmin(row) ==
  \/ row.status = "OPEN"
  \/ row.status = "CLAIMED" /\ row.lastRole = "REQUESTER"

\* get_admin_support_badge_state
Badge == Cardinality({t \in Tickets : AwaitsAdmin(ticket[t])})

\* Faulty variant of CreateTicket: without the columns of the last message.
CreateTicketBare(u, t) ==
  /\ SignedIn(u) /\ u \in Clients /\ ticket[t] = NoTicket
  /\ ticket' = [ticket EXCEPT ![t] = [OpenedBy(u) EXCEPT !.lastRole = "NONE",
                                                         !.thread = <<u>>]]
  /\ UNCHANGED accountVars

CreateTicket(u, t) ==
  /\ SignedIn(u) /\ u \in Clients /\ ticket[t] = NoTicket
  /\ ticket' = [ticket EXCEPT ![t] = WithMessage(OpenedBy(u), u, "REQUESTER")]
  /\ UNCHANGED accountVars

Claim(by, t) ==
  /\ SignedIn(by) /\ Claimable(ticket[t])
  /\ ticket' = [ticket EXCEPT ![t].admin = by, ![t].status = "CLAIMED"]
  /\ UNCHANGED accountVars

Reply(by, t) ==
  /\ SignedIn(by) /\ HandledBy(ticket[t], by)
  /\ Len(ticket[t].thread) < MaxMessages
  /\ ticket' = [ticket EXCEPT ![t] = WithMessage(@, by, "ADMIN")]
  /\ UNCHANGED accountVars

ReplyAsRequester(u, t) ==
  /\ SignedIn(u) /\ u \in Clients /\ WritableBy(ticket[t], u)
  /\ Len(ticket[t].thread) < MaxMessages
  /\ ticket' = [ticket EXCEPT ![t] = WithMessage(@, u, "REQUESTER")]
  /\ UNCHANGED accountVars

CloseTicket(by, t) ==
  /\ SignedIn(by) /\ HandledBy(ticket[t], by)
  /\ ticket' = [ticket EXCEPT ![t].status = "CLOSED"]
  /\ UNCHANGED accountVars

Init == AccountsInit /\ ticket = [t \in Tickets |-> NoTicket]

Next ==
  \/ AccountsNext /\ UNCHANGED ticket
  \/ \E t \in Tickets :
       \/ \E u \in Clients : CreateTicket(u, t) \/ ReplyAsRequester(u, t)
       \/ \E by \in Admins : Claim(by, t) \/ Reply(by, t) \/ CloseTicket(by, t)

Spec == Init /\ [][Next]_vars

(***************************************************************************)
(* Properties.                                                             *)
(***************************************************************************)
\* Accounts, links, requests and tickets have the types of their columns.
DeskTypeOK ==
  /\ AccountsTypeOK
  /\ ticket \in [Tickets -> TicketRow \cup {NoTicket}]

\* Two administrators may press any button of one ticket at any time, and
\* either may be suspended or be somebody who was only just invited: still
\* a ticket is handled by one, who has completed the registration, and only
\* that one and its requester ever write in it.  The badge of the
\* administrators counts the tickets, not closed, in which the last word is
\* the requester's, by the author and not by the column it is read from.
TicketsInOneHand ==
  /\ \A t \in Tickets : ticket[t] # NoTicket =>
       LET row == ticket[t]
       IN  /\ row.admin = None <=> row.status = "OPEN"
           /\ row.admin # None => account[row.admin].password /\ account[row.admin].verified
           /\ ToSet(row.thread) \subseteq {row.requester, row.admin}
  /\ Badge = Cardinality({t \in Tickets :
       /\ ticket[t].status \in {"OPEN", "CLAIMED"}
       /\ Last(ticket[t].thread) = ticket[t].requester})
=============================================================================
