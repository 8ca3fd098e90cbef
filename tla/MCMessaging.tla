----------------------------- MODULE MCMessaging -----------------------------
(***************************************************************************)
(* Four instances of Messaging in one run: a behaviour keeps to the part   *)
(* it begins with.  Only what users do is limited, never a step of the     *)
(* server that Fairness is about.                                          *)
(***************************************************************************)
EXTENDS Messaging

CONSTANTS u1, u2, p1, p2, r1, r2

VARIABLE part

\* Every page is u1's.
MCReader == [p \in Pages |-> u1]

Unused(r) == request[r] = NoRequest
NoArchive == \A u \in Users : archived[u] = 0

\* Two messages sent at once, texts or files, to one page.
Sending == Len(sent) <= 2 /\ page[p2] = NoPage /\ NoArchive

\* Two messages sent at once, while both participants archive.
Archiving == Len(sent) <= 2 /\ \A p \in Pages : page[p] = NoPage

\* Three texts of u2, one after the other, more than a catch-up returns.
Missing ==
  /\ \A m \in 1..Len(sent) : sent[m] = [by |-> u2, kind |-> "TEXT"]
  /\ Unused(r2) /\ page[p2] = NoPage /\ NoArchive

\* Two pages of one user, and one message.
Beside == Len(sent) <= 1 /\ Unused(r2) /\ NoArchive

InPart ==
  CASE part = "sending" -> Sending
    [] part = "archiving" -> Archiving
    [] part = "missing" -> Missing
    [] part = "beside" -> Beside

MCInit == Init /\ part \in {"sending", "archiving", "missing", "beside"}
MCNext == Next /\ part' = part /\ InPart'
MCSpec == MCInit /\ [][MCNext]_<<vars, part>> /\ Fairness
=============================================================================
