-------------------------- MODULE MessagingProofs ---------------------------
(***************************************************************************)
(* Theorems about Messaging, for any participants, pages, requests, number *)
(* of messages and limit of the catch-up.                                  *)
(***************************************************************************)
EXTENDS Messaging, SequenceTheorems, FiniteSetTheorems, TLAPS

(***************************************************************************)
(* The inductive invariant.                                                *)
(***************************************************************************)
\* Among the messages stored there is a last one.
HasLatest == \E m \in stored \cup {0} : \A n \in stored : n <= m

\* A request that is not idle has its message, and knows whose it is and of
\* which kind until it is lost; a text is stored before it wakes anybody.
RequestHolds(r) ==
  /\ request[r].pc = "idle" => request[r].message = 0
  /\ request[r].pc # "idle" => request[r].message \in 1..Len(sent)
  /\ request[r].pc \notin {"idle", "lost"} =>
       /\ sent[request[r].message].by = request[r].by
       /\ sent[request[r].message].kind = request[r].kind
  /\ request[r].kind = "TEXT" /\ request[r].pc \notin {"idle", "stamped", "lost"} =>
       request[r].message \in stored

\* Once a request has woken its recipients, one of them has the conversation
\* in its archive only if it put it there later, or if the commit takes it out.
RecipientsAwake(r) ==
  request[r].pc \in {"awake", "clocked", "saved", "settled", "announced"} =>
    \A u \in Users \ {request[r].by} :
      \/ archived[u] = 0 \/ archived[u] > request[r].message
      \/ request[r].kind = "FILE" /\ u \in request[r].wakes

\* What TextsReachThePage says of one page, and that a text is announced
\* after it is stored.
PageHolds(p) ==
  /\ page[p].pc = "online" =>
       \A m \in (Texts \cap stored) \ UnderWay :
         m > page[p].since =>
           \/ m \in page[p].shown \cup ToSet(page[p].inbox)
           \/ m \in page[p].unheard \/ BeyondLimit(p, m)
  /\ (page[p].shown \cup ToSet(page[p].inbox)) \cap Texts \subseteq stored

MessagingInv ==
  /\ MessagingTypeOK
  /\ HasLatest
  /\ \A r \in Requests : RequestHolds(r) /\ RecipientsAwake(r)
  /\ \A p \in Pages : PageHolds(p)
  /\ NewMessageUnarchives

(***************************************************************************)
(* Types.                                                                  *)
(***************************************************************************)
MessageRows == [by : Users, kind : Kinds]

RequestRows(n) ==
  [pc : {"idle", "stamped", "stored", "awake", "clocked", "saved", "settled",
         "announced", "lost"},
   by : Users, from : SUBSET Pages, kind : Kinds, message : 0..n, read : 0..n,
   wakes : SUBSET Users]

PageRows(n) ==
  [pc : {"closed", "opening", "loaded", "joined", "online", "offline"},
   shown : SUBSET (1..n), since : 0..n, inbox : Seq(1..n), unheard : SUBSET (1..n),
   marking : {"no", "due", "writing"}, clock : 0..n]

LEMMA Types ==
  MessagingTypeOK <=>
    /\ sent \in Seq(MessageRows) /\ Len(sent) <= MaxMessages
    /\ stored \subseteq 1..Len(sent)
    /\ lastRead \in [Users -> 0..Len(sent)]
    /\ latestRead \in [Users -> 0..Len(sent)]
    /\ archived \in [Users -> 0..Len(sent) + 1]
    /\ request \in [Requests -> RequestRows(Len(sent))]
    /\ page \in [Pages -> PageRows(Len(sent))]
  BY DEF MessagingTypeOK, MessageRows, RequestRows, PageRows

LEMMA RowsGrow ==
  ASSUME NEW n \in Nat
  PROVE  /\ RequestRows(n) \subseteq RequestRows(n + 1)
         /\ PageRows(n) \subseteq PageRows(n + 1)
         /\ 0..n \subseteq 0..(n + 1) /\ 0..(n + 1) \subseteq 0..(n + 1) + 1
         /\ 1..n \subseteq 1..(n + 1)
  <1>1. 1..n \subseteq 1..(n + 1) /\ 0..n \subseteq 0..(n + 1)
    OBVIOUS
  <1>2. Seq(1..n) \subseteq Seq(1..(n + 1))
    BY <1>1, SeqMonotonic
  <1>3. RequestRows(n) \subseteq RequestRows(n + 1)
    BY <1>1 DEF RequestRows
  <1>4. PageRows(n) \subseteq PageRows(n + 1)
    BY <1>1, <1>2 DEF PageRows
  <1> QED
    BY <1>1, <1>3, <1>4

LEMMA NoRequestType ==
  ASSUME NEW n \in Nat
  PROVE  /\ NoRequest \in RequestRows(n)
         /\ \A m \in 0..n :
              [NoRequest EXCEPT !.pc = "lost", !.message = m] \in RequestRows(n)
         /\ \A m : [NoRequest EXCEPT !.pc = "lost", !.message = m].message = m
         /\ \A m : [NoRequest EXCEPT !.pc = "lost", !.message = m].pc = "lost"
         /\ NoRequest.pc = "idle" /\ NoRequest.message = 0
  <1>1. (CHOOSE u \in Users : TRUE) \in Users
    BY MessagingAssumption DEF MessagingAssumption
  <1>2. NoRequest \in RequestRows(n)
    BY <1>1 DEF NoRequest, RequestRows, Kinds
  <1>3. NoRequest.pc = "idle" /\ NoRequest.message = 0
    BY DEF NoRequest
  <1>4. ASSUME NEW m \in 0..n
        PROVE  [NoRequest EXCEPT !.pc = "lost", !.message = m] \in RequestRows(n)
    BY <1>2 DEF RequestRows
  <1>5. ASSUME NEW m
        PROVE  /\ [NoRequest EXCEPT !.pc = "lost", !.message = m].message = m
               /\ [NoRequest EXCEPT !.pc = "lost", !.message = m].pc = "lost"
    BY DEF NoRequest
  <1> QED
    BY <1>2, <1>3, <1>4, <1>5

LEMMA NoPageType ==
  ASSUME NEW n \in Nat
  PROVE  /\ NoPage \in PageRows(n)
         /\ NoPage.shown = {} /\ NoPage.inbox = <<>> /\ NoPage.pc = "closed"
         /\ \A view \in PageRows(n) :
              /\ Offline(view) \in PageRows(n) /\ Offline(view).pc = "offline"
              /\ Offline(view).shown = {} /\ Offline(view).inbox = <<>>
  <1>1. <<>> \in Seq(1..n)
    BY EmptySeq
  <1>2. NoPage.shown = {} /\ NoPage.inbox = <<>> /\ NoPage.pc = "closed"
    BY DEF NoPage
  <1>3. NoPage \in PageRows(n)
    BY <1>1 DEF NoPage, PageRows
  <1>4. ASSUME NEW view \in PageRows(n)
        PROVE  /\ Offline(view) \in PageRows(n) /\ Offline(view).pc = "offline"
               /\ Offline(view).shown = {} /\ Offline(view).inbox = <<>>
    <2>1. view.marking \in {"no", "due", "writing"} /\ view.clock \in 0..n
      BY DEF PageRows
    <2>2. /\ Offline(view).pc = "offline"
          /\ Offline(view).shown = {} /\ Offline(view).inbox = <<>>
      BY DEF Offline, NoPage
    <2>3. Offline(view) \in PageRows(n)
      BY <1>3, <2>1 DEF Offline, PageRows
    <2> QED
      BY <2>2, <2>3
  <1> QED
    BY <1>2, <1>3, <1>4

LEMMA MessagesFinite ==
  ASSUME NEW n \in Nat, NEW some \in SUBSET (1..n)
  PROVE  IsFiniteSet(some) /\ Cardinality(some) \in Nat
  <1>1. 1 \in Int /\ n \in Int
    OBVIOUS
  <1>2. IsFiniteSet(1..n)
    BY <1>1, FS_Interval
  <1>3. IsFiniteSet(some)
    BY <1>2, FS_Subset
  <1> QED
    BY <1>3, FS_CardinalityType

\* What is counted in a set of messages is counted in a larger one.
LEMMA CountGrows ==
  ASSUME NEW n \in Nat, NEW some \in SUBSET (1..n), NEW more \in SUBSET (1..n),
         some \subseteq more, CatchUpLimit <= Cardinality(some)
  PROVE  CatchUpLimit <= Cardinality(more)
  <1>1. /\ IsFiniteSet(more)
        /\ Cardinality(some) \in Nat /\ Cardinality(more) \in Nat
    BY MessagesFinite
  <1>2. Cardinality(some) <= Cardinality(more)
    BY <1>1, FS_Subset
  <1> QED
    BY <1>1, <1>2, MessagingAssumption DEF MessagingAssumption

LEMMA Appended ==
  ASSUME sent \in Seq(MessageRows), NEW row \in MessageRows, sent' = Append(sent, row)
  PROVE  /\ sent' \in Seq(MessageRows) /\ Len(sent') = Len(sent) + 1
         /\ \A m \in 1..Len(sent) : sent'[m] = sent[m]
         /\ sent'[Len(sent) + 1] = row
  BY AppendProperties

LEMMA LatestType ==
  ASSUME MessagingTypeOK, HasLatest
  PROVE  Latest(stored) \in 0..Len(sent)
  <1>1. Latest(stored) \in stored \cup {0}
    BY DEF HasLatest, Latest
  <1>2. Len(sent) \in Nat
    BY Types, LenProperties
  <1> QED
    BY <1>1, <1>2, Types

LEMMA LatestKept ==
  ASSUME MessagingTypeOK, HasLatest, NEW m \in Nat, stored' = stored \cup {m}
  PROVE  HasLatest'
  <1>1. PICK n \in stored \cup {0} : \A k \in stored : k <= n
    BY DEF HasLatest
  <1>2. n \in Nat /\ stored \subseteq Nat
    BY Types
  <1>3. CASE m <= n
    BY <1>1, <1>3 DEF HasLatest
  <1>4. CASE ~(m <= n)
    BY <1>1, <1>2, <1>4 DEF HasLatest
  <1> QED
    BY <1>3, <1>4

\* What was appended to the end or taken from the front of an inbox.
LEMMA InboxAppend ==
  ASSUME NEW n \in Nat, NEW inbox \in Seq(1..n), NEW m \in 1..n
  PROVE  /\ Append(inbox, m) \in Seq(1..n)
         /\ ToSet(Append(inbox, m)) = ToSet(inbox) \cup {m}
  <1>1. /\ Append(inbox, m) \in Seq(1..n)
        /\ Len(Append(inbox, m)) = Len(inbox) + 1
        /\ Append(inbox, m)[Len(inbox) + 1] = m
        /\ \A i \in 1..Len(inbox) : Append(inbox, m)[i] = inbox[i]
    BY AppendProperties
  <1>2. /\ Len(inbox) \in Nat /\ DOMAIN inbox = 1..Len(inbox)
        /\ DOMAIN Append(inbox, m) = 1..(Len(inbox) + 1)
    BY <1>1, LenProperties
  <1>3. \A i : i \in 1..(Len(inbox) + 1) <=> i \in 1..Len(inbox) \/ i = Len(inbox) + 1
    BY <1>2
  <1> QED
    BY <1>1, <1>2, <1>3 DEF ToSet

LEMMA InboxTail ==
  ASSUME NEW n \in Nat, NEW inbox \in Seq(1..n), inbox # <<>>
  PROVE  /\ Head(inbox) \in 1..n /\ Tail(inbox) \in Seq(1..n)
         /\ ToSet(inbox) = ToSet(Tail(inbox)) \cup {Head(inbox)}
  <1>1. /\ Head(inbox) \in 1..n /\ Tail(inbox) \in Seq(1..n)
        /\ Len(Tail(inbox)) = Len(inbox) - 1
        /\ \A i \in 1..Len(Tail(inbox)) : Tail(inbox)[i] = inbox[i + 1]
    BY HeadTailProperties
  <1>2. /\ Len(inbox) \in Nat \ {0} /\ DOMAIN inbox = 1..Len(inbox)
        /\ DOMAIN Tail(inbox) = 1..(Len(inbox) - 1)
    BY <1>1, LenProperties, EmptySeq
  <1>3. Head(inbox) = inbox[1]
    BY <1>2
  <1>4. ASSUME NEW i \in DOMAIN inbox
        PROVE  inbox[i] \in ToSet(Tail(inbox)) \cup {Head(inbox)}
    <2>1. CASE i = 1
      BY <1>3, <2>1
    <2>2. CASE i # 1
      <3>1. i - 1 \in 1..(Len(inbox) - 1) /\ (i - 1) + 1 = i
        BY <1>2, <1>4, <2>2
      <3>2. Tail(inbox)[i - 1] = inbox[i]
        BY <1>1, <3>1
      <3> QED
        BY <1>2, <3>1, <3>2 DEF ToSet
    <2> QED
      BY <2>1, <2>2
  <1>5. ASSUME NEW i \in DOMAIN Tail(inbox)
        PROVE  Tail(inbox)[i] \in ToSet(inbox)
    <2>1. i + 1 \in DOMAIN inbox /\ Tail(inbox)[i] = inbox[i + 1]
      BY <1>1, <1>2
    <2> QED
      BY <2>1 DEF ToSet
  <1>6. Head(inbox) \in ToSet(inbox)
    BY <1>2, <1>3 DEF ToSet
  <1> QED
    BY <1>1, <1>4, <1>5, <1>6 DEF ToSet

LEMMA InboxEmpty == ToSet(<<>>) = {}
  BY DEF ToSet

(***************************************************************************)
(* Steps in which no message arrives.                                      *)
(***************************************************************************)
\* The messages there were are as they were, and stay stored.
SentKept ==
  /\ Len(sent) <= Len(sent') /\ Len(sent') \in Nat
  /\ \A m \in 1..Len(sent) : sent'[m] = sent[m]
  /\ stored \subseteq stored'

\* A participant takes the conversation out of the archive, or into it.
ArchivedNow == \A u \in Users : archived'[u] \in {0, archived[u], Len(sent) + 1}

\* A page displays what it displayed and at most a file is announced to it,
\* or it loses its socket.
PageKept(p) ==
  \/ /\ page'[p].pc = "online" => page[p].pc = "online"
     /\ page'[p].shown = page[p].shown
     /\ ToSet(page[p].inbox) \subseteq ToSet(page'[p].inbox)
     /\ ToSet(page'[p].inbox) \subseteq ToSet(page[p].inbox) \cup ((1..Len(sent)) \ Texts)
     /\ page'[p].since = page[p].since
     /\ page[p].unheard \subseteq page'[p].unheard
  \/ page'[p].pc # "online" /\ page'[p].shown = {} /\ page'[p].inbox = <<>>

LEMMA UnderWayKept ==
  ASSUME MessagingInv,
         \A q \in Requests :
           request[q].message = 0 \/ request'[q].message = request[q].message,
         stored' \subseteq stored \cup (UnderWay \ {0})
  PROVE  stored' \ UnderWay' \subseteq stored \ UnderWay
  <1> SUFFICES ASSUME NEW m \in stored', m \notin UnderWay' PROVE m \in stored \ UnderWay
    OBVIOUS
  <1>1. m \notin UnderWay
    <2> SUFFICES ASSUME NEW q \in Requests, m = request[q].message PROVE FALSE
      BY DEF UnderWay
    <2>1. m = 0
      BY DEF UnderWay
    <2>2. m \in stored
      BY <2>1
    <2> QED
      BY <2>1, <2>2, Types DEF MessagingInv
  <1> QED
    BY <1>1

LEMMA SentTypes ==
  ASSUME MessagingInv
  PROVE  /\ Len(sent) \in Nat /\ stored \subseteq 1..Len(sent)
         /\ \A u \in Users : archived[u] \in Nat
         /\ \A p \in Pages :
              /\ page[p].shown \subseteq 1..Len(sent)
              /\ page[p].inbox \in Seq(1..Len(sent))
              /\ ToSet(page[p].inbox) \subseteq 1..Len(sent)
              /\ page[p].since \in 0..Len(sent)
         /\ \A r \in Requests : request[r].message \in 0..Len(sent)
  <1>1. MessagingTypeOK
    BY DEF MessagingInv
  <1>2. Len(sent) \in Nat
    BY <1>1, Types, LenProperties
  <1>3. \A p \in Pages : page[p] \in PageRows(Len(sent))
    BY <1>1, Types
  <1>4. \A r \in Requests : request[r] \in RequestRows(Len(sent))
    BY <1>1, Types
  <1>5. ASSUME NEW p \in Pages
        PROVE  /\ page[p].shown \subseteq 1..Len(sent)
               /\ page[p].inbox \in Seq(1..Len(sent))
               /\ ToSet(page[p].inbox) \subseteq 1..Len(sent)
               /\ page[p].since \in 0..Len(sent)
    <2>1. /\ page[p].shown \subseteq 1..Len(sent)
          /\ page[p].inbox \in Seq(1..Len(sent))
          /\ page[p].since \in 0..Len(sent)
      BY <1>3 DEF PageRows
    <2>2. ToSet(page[p].inbox) \subseteq 1..Len(sent)
      BY <2>1, LenProperties DEF ToSet
    <2> QED
      BY <2>1, <2>2
  <1>6. \A r \in Requests : request[r].message \in 0..Len(sent)
    BY <1>4 DEF RequestRows
  <1>7. \A u \in Users : archived[u] \in Nat
    BY <1>1, <1>2, Types
  <1> QED
    BY <1>1, <1>2, <1>5, <1>6, <1>7, Types

LEMMA TextsKept ==
  ASSUME MessagingInv, SentKept
  PROVE  Texts' \cap (1..Len(sent)) = Texts
  BY SentTypes DEF SentKept, Texts

\* What came after the limit of the catch-up still does when more is shown.
LEMMA BeyondKept ==
  ASSUME MessagingInv, NEW p \in Pages, NEW m \in Nat, BeyondLimit(p, m),
         page[p].shown \subseteq page'[p].shown, page'[p].shown \subseteq 1..Len(sent),
         page'[p].since = page[p].since
  PROVE  BeyondLimit(p, m)'
  <1> DEFINE some == {n \in page[p].shown : page[p].since < n /\ n < m}
             more == {n \in page'[p].shown : page'[p].since < n /\ n < m}
  <1>1. some \subseteq more /\ more \in SUBSET (1..Len(sent)) /\ some \in SUBSET (1..Len(sent))
    OBVIOUS
  <1>2. Cardinality(some) >= CatchUpLimit
    BY DEF BeyondLimit
  <1>3. Len(sent) \in Nat
    BY SentTypes
  <1> HIDE DEF some, more
  <1>5. Cardinality(some) \in Nat /\ Cardinality(more) \in Nat
    BY <1>1, <1>3, MessagesFinite
  <1>6. CatchUpLimit <= Cardinality(some)
    BY <1>2, <1>5, MessagingAssumption DEF MessagingAssumption
  <1>7. CatchUpLimit <= Cardinality(more)
    BY <1>1, <1>3, <1>6, CountGrows
  <1>8. Cardinality(more) >= CatchUpLimit
    BY <1>5, <1>7, MessagingAssumption DEF MessagingAssumption
  <1> QED
    BY <1>8 DEF BeyondLimit, more

LEMMA QuietPage ==
  ASSUME MessagingInv, SentKept, stored' \ UnderWay' \subseteq stored \ UnderWay,
         NEW p \in Pages, PageKept(p)
  PROVE  PageHolds(p)'
  <1>1. Texts' \cap (1..Len(sent)) = Texts
    BY TextsKept
  <1>2. PageHolds(p)
    BY DEF MessagingInv
  <1>3. /\ stored \subseteq 1..Len(sent) /\ Len(sent) \in Nat
        /\ page[p].shown \cup ToSet(page[p].inbox) \subseteq 1..Len(sent)
    BY SentTypes
  <1>4. CASE page'[p].pc # "online" /\ page'[p].shown = {} /\ page'[p].inbox = <<>>
    BY <1>4, InboxEmpty DEF PageHolds
  <1>5. CASE /\ page'[p].pc = "online" => page[p].pc = "online"
             /\ page'[p].shown = page[p].shown
             /\ ToSet(page[p].inbox) \subseteq ToSet(page'[p].inbox)
             /\ ToSet(page'[p].inbox)
                  \subseteq ToSet(page[p].inbox) \cup ((1..Len(sent)) \ Texts)
             /\ page'[p].since = page[p].since
             /\ page[p].unheard \subseteq page'[p].unheard
    <2>1. (Texts \cap stored)' \ UnderWay' \subseteq (Texts \cap stored) \ UnderWay
      BY <1>1, <1>3
    <2>2. \A m \in Nat : BeyondLimit(p, m) => BeyondLimit(p, m)'
      BY <1>3, <1>5, BeyondKept
    <2>3. stored \subseteq Nat
      BY <1>3
    <2> QED
      BY <1>1, <1>2, <1>3, <1>5, <2>1, <2>2, <2>3 DEF PageHolds, SentKept
  <1> QED
    BY <1>4, <1>5 DEF PageKept

LEMMA QuietArchive ==
  ASSUME MessagingInv, SentKept, stored' \ UnderWay' \subseteq stored \ UnderWay,
         ArchivedNow
  PROVE  NewMessageUnarchives'
  <1> SUFFICES ASSUME NEW u \in Users, archived'[u] # 0,
                      NEW m \in stored' \ UnderWay', sent'[m].by # u
               PROVE  m < archived'[u]
    BY DEF NewMessageUnarchives
  <1>1. m \in 1..Len(sent) /\ m \in stored \ UnderWay /\ sent[m].by # u
    BY SentTypes DEF SentKept
  <1>2. archived[u] # 0 => m < archived[u]
    BY <1>1 DEF MessagingInv, NewMessageUnarchives
  <1> QED
    BY <1>1, <1>2, SentTypes DEF ArchivedNow

\* A request that a step leaves alone.
LEMMA RequestKept ==
  ASSUME MessagingInv, SentKept, ArchivedNow,
         NEW q \in Requests, request'[q] = request[q]
  PROVE  RequestHolds(q)' /\ RecipientsAwake(q)'
  <1>1. RequestHolds(q) /\ RecipientsAwake(q)
    BY DEF MessagingInv
  <1>2. /\ request[q].message \in 0..Len(sent) /\ Len(sent) \in Nat
        /\ \A u \in Users : archived[u] \in Nat
    BY SentTypes
  <1>3. request[q].message # 0 =>
          sent'[request[q].message] = sent[request[q].message]
    BY <1>2 DEF SentKept
  <1>4. RequestHolds(q)'
    BY <1>1, <1>2, <1>3 DEF RequestHolds, SentKept
  <1>5. RecipientsAwake(q)'
    BY <1>1, <1>2 DEF RecipientsAwake, ArchivedNow
  <1> QED
    BY <1>4, <1>5

LEMMA TypesNext ==
  ASSUME /\ sent' \in Seq(MessageRows) /\ Len(sent') <= MaxMessages
         /\ stored' \subseteq 1..Len(sent')
         /\ lastRead' \in [Users -> 0..Len(sent')]
         /\ latestRead' \in [Users -> 0..Len(sent')]
         /\ archived' \in [Users -> 0..Len(sent') + 1]
         /\ request' \in [Requests -> RequestRows(Len(sent'))]
         /\ page' \in [Pages -> PageRows(Len(sent'))]
  PROVE  MessagingTypeOK'
  BY DEF MessagingTypeOK, MessageRows, RequestRows, PageRows

LEMMA QuietStep ==
  ASSUME MessagingInv, SentKept, ArchivedNow, MessagingTypeOK', HasLatest',
         stored' \subseteq stored \cup (UnderWay \ {0}),
         NEW r \in Requests,
         request[r].message = 0 \/ request'[r].message = request[r].message,
         RequestHolds(r)', RecipientsAwake(r)',
         \A q \in Requests \ {r} : request'[q] = request[q],
         \A p \in Pages : PageKept(p)
  PROVE  MessagingInv'
  <1>1. \A q \in Requests :
          request[q].message = 0 \/ request'[q].message = request[q].message
    OBVIOUS
  <1>2. stored' \ UnderWay' \subseteq stored \ UnderWay
    BY <1>1, UnderWayKept
  <1>3. \A q \in Requests : RequestHolds(q)' /\ RecipientsAwake(q)'
    BY RequestKept
  <1> QED
    BY <1>2, <1>3, QuietPage, QuietArchive DEF MessagingInv

(***************************************************************************)
(* Sending.                                                                *)
(***************************************************************************)
\* The message gets its place and is not stored yet.
LEMMA StampStep ==
  ASSUME MessagingInv, NEW u \in Users, NEW from \in SUBSET Pages, NEW r \in Requests,
         NEW kind \in Kinds, NEW wakes \in SUBSET Users, Stamp(u, from, r, kind, wakes),
         archived' \in [Users -> 0..Len(sent) + 1],
         \A v \in Users : archived'[v] \in {0, archived[v]}
  PROVE  MessagingInv'
  <1> DEFINE n == Len(sent)
             row == [by |-> u, kind |-> kind]
             new == [NoRequest EXCEPT !.pc = "stamped", !.by = u, !.from = from,
                       !.kind = kind, !.message = n + 1, !.wakes = wakes]
  <1>1. row \in MessageRows /\ row.by = u /\ row.kind = kind
    BY DEF MessageRows
  <1>2. sent' = Append(sent, row) /\ request' = [request EXCEPT ![r] = new]
    BY DEF Stamp
  <1> HIDE DEF row
  <1>3. /\ n \in Nat /\ sent \in Seq(MessageRows) /\ stored \subseteq 1..n
        /\ lastRead \in [Users -> 0..n] /\ latestRead \in [Users -> 0..n]
        /\ request \in [Requests -> RequestRows(n)] /\ page \in [Pages -> PageRows(n)]
    BY Types, SentTypes DEF MessagingInv
  <1>4. /\ sent' \in Seq(MessageRows) /\ Len(sent') = n + 1
        /\ \A m \in 1..n : sent'[m] = sent[m]
        /\ sent'[n + 1] = row
    BY <1>1, <1>2, <1>3, Appended
  <1>5. /\ new \in RequestRows(n + 1)
        /\ new.pc = "stamped" /\ new.by = u /\ new.kind = kind /\ new.message = n + 1
    <2>1. n + 1 \in Nat /\ n + 1 \in 0..(n + 1)
      BY <1>3
    <2>2. NoRequest \in RequestRows(n + 1)
      BY <2>1, NoRequestType
    <2>3. new \in RequestRows(n + 1)
      BY <2>1, <2>2 DEF RequestRows
    <2> QED
      BY <2>2, <2>3 DEF RequestRows
  <1> HIDE DEF new
  <1>6. /\ request' \in [Requests -> RequestRows(n + 1)] /\ request'[r] = new
        /\ \A q \in Requests \ {r} : request'[q] = request[q]
    BY <1>2, <1>3, <1>5, RowsGrow
  <1>7. MessagingTypeOK'
    <2>1. n + 1 <= MaxMessages
      BY <1>3, MessagingAssumption DEF Stamp, MessagingAssumption
    <2>2. PageRows(n) \subseteq PageRows(n + 1) /\ 0..n \subseteq 0..(n + 1)
          /\ 0..n + 1 \subseteq 0..(n + 1) + 1 /\ 1..n \subseteq 1..(n + 1)
      BY <1>3, RowsGrow
    <2>3. /\ page' \in [Pages -> PageRows(n + 1)] /\ lastRead' \in [Users -> 0..(n + 1)]
          /\ latestRead' \in [Users -> 0..(n + 1)]
          /\ archived' \in [Users -> 0..(n + 1) + 1] /\ stored' \subseteq 1..(n + 1)
      BY <1>3, <2>2 DEF Stamp
    <2> QED
      BY <1>4, <1>6, <2>1, <2>3, TypesNext
  <1>8. SentKept /\ ArchivedNow /\ HasLatest' /\ stored' = stored
    BY <1>3, <1>4 DEF SentKept, ArchivedNow, HasLatest, MessagingInv, Stamp
  <1>9. request[r].message = 0
    BY DEF MessagingInv, RequestHolds, Stamp
  <1>10. RequestHolds(r)' /\ RecipientsAwake(r)'
    BY <1>1, <1>3, <1>4, <1>5, <1>6 DEF RequestHolds, RecipientsAwake
  <1>11. \A p \in Pages : PageKept(p)
    BY DEF PageKept, Stamp
  <1> QED
    BY <1>6, <1>7, <1>8, <1>9, <1>10, <1>11, QuietStep

LEMMA SendStep ==
  ASSUME MessagingInv, NEW u \in Users, NEW from \in Origins, NEW r \in Requests,
         SendText(u, from, r) \/ SendFile(u, from, r)
  PROVE  MessagingInv'
  <1>1. from \in SUBSET Pages
    BY DEF Origins
  <1>2. archived \in [Users -> 0..Len(sent) + 1] /\ 0 \in 0..Len(sent) + 1
    BY Types, SentTypes DEF MessagingInv
  <1>3. CASE SendText(u, from, r)
    <2>1. /\ archived' \in [Users -> 0..Len(sent) + 1]
          /\ \A v \in Users : archived'[v] \in {0, archived[v]}
      BY <1>2, <1>3 DEF SendText
    <2>2. Stamp(u, from, r, "TEXT", {}) /\ "TEXT" \in Kinds
      BY <1>3 DEF SendText, Kinds
    <2> QED
      BY <1>1, <2>1, <2>2, StampStep
  <1>4. CASE SendFile(u, from, r)
    <2> DEFINE wakes == IF archived[u] = 0 THEN {} ELSE {u}
    <2>1. /\ archived' \in [Users -> 0..Len(sent) + 1]
          /\ \A v \in Users : archived'[v] \in {0, archived[v]}
      BY <1>2, <1>4 DEF SendFile
    <2>2. Stamp(u, from, r, "FILE", wakes) /\ "FILE" \in Kinds /\ wakes \in SUBSET Users
      BY <1>4 DEF SendFile, Kinds
    <2> HIDE DEF wakes
    <2> QED
      BY <1>1, <2>1, <2>2, StampStep
  <1> QED
    BY <1>3, <1>4

(***************************************************************************)
(* A request goes on, with the message under way.                          *)
(***************************************************************************)
LEMMA RequestRow ==
  ASSUME MessagingInv, NEW r \in Requests
  PROVE  request[r] \in RequestRows(Len(sent))
  BY Types DEF MessagingInv

\* The read marks are between the start and the time it is.
MarksKept ==
  /\ lastRead' \in [Users -> 0..Len(sent)]
  /\ latestRead' \in [Users -> 0..Len(sent)]

LEMMA MarkReadKeeps ==
  ASSUME MessagingInv, NEW u \in Users, NEW n \in 0..Len(sent), MarkRead(u, n)
  PROVE  MarksKept
  <1>1. lastRead \in [Users -> 0..Len(sent)] /\ latestRead \in [Users -> 0..Len(sent)]
    BY Types DEF MessagingInv
  <1> QED
    BY <1>1 DEF MarkRead, MarksKept

LEMMA RequestMoves ==
  ASSUME MessagingInv, NEW r \in Requests, request[r].pc # "idle",
         NEW row \in RequestRows(Len(sent)), request' = [request EXCEPT ![r] = row],
         row.message = request[r].message, sent' = sent,
         stored' = stored \/ stored' = stored \cup {request[r].message},
         MarksKept,
         archived' \in [Users -> 0..Len(sent) + 1], ArchivedNow,
         page' \in [Pages -> PageRows(Len(sent))],
         \A p \in Pages : PageKept(p),
         RequestHolds(r)', RecipientsAwake(r)'
  PROVE  MessagingInv'
  <1>1. /\ request \in [Requests -> RequestRows(Len(sent))] /\ Len(sent) \in Nat
        /\ sent \in Seq(MessageRows) /\ Len(sent) <= MaxMessages
        /\ stored \subseteq 1..Len(sent)
    BY Types, SentTypes DEF MessagingInv
  <1>2. request[r].message \in 1..Len(sent)
    BY DEF MessagingInv, RequestHolds
  <1>3. MessagingTypeOK'
    BY <1>1, <1>2, TypesNext DEF MarksKept
  <1>4. SentKept
    BY <1>1 DEF SentKept
  <1>5. HasLatest'
    <2>1. CASE stored' = stored
      BY <2>1 DEF MessagingInv, HasLatest
    <2>2. CASE stored' = stored \cup {request[r].message}
      <3>1. request[r].message \in Nat
        BY <1>1, <1>2
      <3> QED
        BY <2>2, <3>1, LatestKept DEF MessagingInv
    <2> QED
      BY <2>1, <2>2
  <1>6. stored' \subseteq stored \cup (UnderWay \ {0})
    BY <1>2 DEF UnderWay
  <1>7. request'[r] = row /\ \A q \in Requests \ {r} : request'[q] = request[q]
    BY <1>1
  <1> QED
    BY <1>3, <1>4, <1>5, <1>6, <1>7, QuietStep

LEMMA UnchangedRows ==
  ASSUME MessagingInv
  PROVE  /\ UNCHANGED <<lastRead, latestRead>> => MarksKept
         /\ archived \in [Users -> 0..Len(sent) + 1]
         /\ page \in [Pages -> PageRows(Len(sent))]
         /\ archived' = archived => ArchivedNow
         /\ page' = page => \A p \in Pages : PageKept(p)
  BY Types DEF MessagingInv, ArchivedNow, PageKept, MarksKept

\* A request takes a step that leaves its message and its sender as they are.
RequestGoes(r, pc) ==
  /\ request'[r].pc = pc /\ request'[r].message = request[r].message
  /\ request'[r].by = request[r].by /\ request'[r].kind = request[r].kind
  /\ request'[r].from = request[r].from /\ request[r].wakes \subseteq request'[r].wakes
  /\ request'[r] \in RequestRows(Len(sent))
  /\ request' = [request EXCEPT ![r] = request'[r]]

LEMMA AdvanceGoes ==
  ASSUME MessagingInv, NEW r \in Requests,
         NEW pc \in {"stored", "awake", "clocked", "saved", "settled", "announced"},
         Advance(r, pc)
  PROVE  RequestGoes(r, pc)
  <1> DEFINE row == [request[r] EXCEPT !.pc = pc]
  <1>1. /\ row \in RequestRows(Len(sent)) /\ row.message = request[r].message
        /\ row.pc = pc /\ row.by = request[r].by /\ row.kind = request[r].kind
        /\ row.from = request[r].from /\ row.wakes = request[r].wakes
    BY RequestRow DEF RequestRows
  <1>2. request' = [request EXCEPT ![r] = row]
    BY DEF Advance
  <1> HIDE DEF row
  <1>3. request'[r] = row
    BY <1>2, Types DEF MessagingInv
  <1> QED
    BY <1>1, <1>2, <1>3 DEF RequestGoes

LEMMA RequestGoesOn ==
  ASSUME MessagingInv, NEW r \in Requests, request[r].pc \notin {"idle", "lost"},
         NEW pc, RequestGoes(r, pc), pc \notin {"idle", "stamped", "lost"},
         sent' = sent,
         stored' = stored \/ stored' = stored \cup {request[r].message},
         request[r].kind = "TEXT" => request[r].message \in stored',
         MarksKept, archived' \in [Users -> 0..Len(sent) + 1], ArchivedNow,
         page' \in [Pages -> PageRows(Len(sent))], \A p \in Pages : PageKept(p),
         RecipientsAwake(r)'
  PROVE  MessagingInv'
  <1>1. RequestHolds(r)
    BY DEF MessagingInv
  <1>2. RequestHolds(r)'
    BY <1>1 DEF RequestHolds, RequestGoes
  <1>3. /\ request'[r] \in RequestRows(Len(sent)) /\ request'[r].message = request[r].message
        /\ request' = [request EXCEPT ![r] = request'[r]]
    BY DEF RequestGoes
  <1> QED
    BY <1>2, <1>3, RequestMoves

LEMMA StoreTextStep ==
  ASSUME MessagingInv, NEW r \in Requests, StoreText(r)
  PROVE  MessagingInv'
  <1>1. RequestGoes(r, "stored")
    BY AdvanceGoes DEF StoreText
  <1>2. RecipientsAwake(r)'
    BY <1>1 DEF RecipientsAwake, RequestGoes
  <1> QED
    BY <1>1, <1>2, UnchangedRows, RequestGoesOn DEF StoreText

\* A request is broken off; its message stays under way for ever.
LEMMA LoseStep ==
  ASSUME MessagingInv, NEW r \in Requests, request[r].pc # "idle", Lose(r),
         UNCHANGED <<sent, stored, lastRead, latestRead, archived>>,
         page' \in [Pages -> PageRows(Len(sent))],
         \A p \in Pages : PageKept(p)
  PROVE  MessagingInv'
  <1> DEFINE row == [NoRequest EXCEPT !.pc = "lost", !.message = request[r].message]
  <1>1. request[r].message \in 0..Len(sent) /\ Len(sent) \in Nat
    BY SentTypes
  <1>2. row \in RequestRows(Len(sent)) /\ row.message = request[r].message /\ row.pc = "lost"
    BY <1>1, NoRequestType
  <1>3. request' = [request EXCEPT ![r] = row]
    BY DEF Lose
  <1> HIDE DEF row
  <1>4. request'[r] = row
    BY <1>3, Types DEF MessagingInv
  <1>5. RequestHolds(r)' /\ RecipientsAwake(r)'
    BY <1>2, <1>4 DEF RequestHolds, RecipientsAwake, MessagingInv
  <1> QED
    BY <1>2, <1>3, <1>5, UnchangedRows, RequestMoves

LEMMA CrashStep ==
  ASSUME MessagingInv, NEW r \in Requests, Crash(r)
  PROVE  MessagingInv'
  <1>1. page \in [Pages -> PageRows(Len(sent))] /\ Len(sent) \in Nat
    BY UnchangedRows, SentTypes
  <1>2. page' \in [Pages -> PageRows(Len(sent))] /\ \A p \in Pages : PageKept(p)
    <2>1. PICK ends \in BOOLEAN :
            page' = [p \in Pages |->
              IF ends /\ p \in request[r].from /\ page[p].pc = "online"
                   /\ request[r].kind = "TEXT"
                THEN Offline(page[p]) ELSE page[p]]
      BY DEF Crash
    <2>2. ASSUME NEW p \in Pages
          PROVE  page'[p] \in PageRows(Len(sent)) /\ PageKept(p)
      <3>1. page'[p] = page[p] \/ page'[p] = Offline(page[p])
        BY <2>1
      <3>2. page[p] \in PageRows(Len(sent))
        BY <1>1
      <3>3. CASE page'[p] = page[p]
        BY <3>2, <3>3 DEF PageKept
      <3>4. CASE page'[p] = Offline(page[p])
        BY <1>1, <3>2, <3>4, NoPageType DEF PageKept
      <3> QED
        BY <3>1, <3>3, <3>4
    <2> QED
      BY <2>1, <2>2
  <1> QED
    BY <1>2, LoseStep DEF Crash

LEMMA WakeByTextStep ==
  ASSUME MessagingInv, NEW r \in Requests, WakeByText(r)
  PROVE  MessagingInv'
  <1>1. RequestGoes(r, "awake") /\ request[r].pc = "stored"
    BY AdvanceGoes DEF WakeByText
  <1>2. RequestHolds(r) /\ Len(sent) \in Nat
    BY SentTypes DEF MessagingInv
  <1>3. /\ archived' \in [Users -> 0..Len(sent) + 1] /\ ArchivedNow
        /\ \A u \in Users \ {request[r].by} : archived'[u] = 0
    BY <1>2, UnchangedRows DEF WakeByText, Unarchived, Recipients, ArchivedNow
  <1>4. RecipientsAwake(r)'
    BY <1>1, <1>3 DEF RecipientsAwake, RequestGoes
  <1> QED
    BY <1>1, <1>2, <1>3, <1>4, UnchangedRows, RequestGoesOn DEF RequestHolds, WakeByText

LEMMA WakeByFileStep ==
  ASSUME MessagingInv, NEW r \in Requests, WakeByFile(r)
  PROVE  MessagingInv'
  <1> DEFINE wakes == request[r].wakes \cup Writes(r)
             row == [request[r] EXCEPT !.pc = "awake", !.wakes = wakes]
  <1>0. request[r] \in RequestRows(Len(sent))
    BY RequestRow
  <1>1. request[r].pc = "stamped" /\ request[r].kind = "FILE"
    BY DEF WakeByFile
  <1>2. Writes(r) = {u \in Recipients(r) : archived[u] # 0}
    BY <1>1 DEF Writes
  <1>3. /\ wakes \in SUBSET Users /\ request[r].wakes \subseteq wakes
        /\ \A u \in Users \ {request[r].by} : archived[u] = 0 \/ u \in wakes
    BY <1>0, <1>2 DEF RequestRows, Recipients
  <1>4. request' = [request EXCEPT ![r] = row]
    BY DEF WakeByFile
  <1> HIDE DEF wakes
  <1>5. /\ row \in RequestRows(Len(sent)) /\ row.message = request[r].message
        /\ row.pc = "awake" /\ row.by = request[r].by /\ row.kind = request[r].kind
        /\ row.from = request[r].from /\ row.wakes = wakes
    <2>1. row \in RequestRows(Len(sent))
      BY <1>0, <1>3 DEF RequestRows
    <2> QED
      BY <1>0, <2>1 DEF RequestRows
  <1> HIDE DEF row
  <1>6. request'[r] = row
    BY <1>4, Types DEF MessagingInv
  <1>7. RequestGoes(r, "awake")
    BY <1>3, <1>4, <1>5, <1>6 DEF RequestGoes
  <1>8. RecipientsAwake(r)'
    BY <1>1, <1>3, <1>5, <1>6 DEF RecipientsAwake, WakeByFile
  <1> QED
    BY <1>1, <1>7, <1>8, UnchangedRows, RequestGoesOn DEF WakeByFile

\* The recipients stay awake while the request goes on.
LEMMA StaysAwake ==
  ASSUME MessagingInv, NEW r \in Requests, NEW pc, RequestGoes(r, pc),
         request[r].pc \in {"awake", "clocked", "saved", "settled", "announced"},
         archived' = archived
  PROVE  RecipientsAwake(r)'
  <1>1. RecipientsAwake(r)
    BY DEF MessagingInv
  <1> QED
    BY <1>1 DEF RecipientsAwake, RequestGoes

LEMMA ReadClockStep ==
  ASSUME MessagingInv, NEW r \in Requests, ReadClock(r)
  PROVE  MessagingInv'
  <1> DEFINE row == [request[r] EXCEPT !.pc = "clocked", !.read = Len(sent)]
  <1>0. request[r] \in RequestRows(Len(sent)) /\ Len(sent) \in 0..Len(sent)
    BY RequestRow, SentTypes
  <1>1. request' = [request EXCEPT ![r] = row] /\ request[r].pc = "awake"
    BY DEF ReadClock
  <1>2. /\ row \in RequestRows(Len(sent)) /\ row.message = request[r].message
        /\ row.pc = "clocked" /\ row.by = request[r].by /\ row.kind = request[r].kind
        /\ row.from = request[r].from /\ row.wakes = request[r].wakes
    BY <1>0 DEF RequestRows
  <1> HIDE DEF row
  <1>3. request'[r] = row
    BY <1>1, Types DEF MessagingInv
  <1>4. RequestGoes(r, "clocked")
    BY <1>1, <1>2, <1>3 DEF RequestGoes
  <1>5. RequestHolds(r) /\ RecipientsAwake(r)'
    BY <1>1, <1>4, StaysAwake DEF ReadClock, MessagingInv
  <1> QED
    BY <1>1, <1>4, <1>5, UnchangedRows, RequestGoesOn DEF RequestHolds, ReadClock

LEMMA SaveConversationStep ==
  ASSUME MessagingInv, NEW r \in Requests, SaveConversation(r)
  PROVE  MessagingInv'
  <1>1. RequestGoes(r, "saved") /\ request[r].pc = "clocked"
    BY AdvanceGoes DEF SaveConversation
  <1>2. RequestHolds(r) /\ RecipientsAwake(r)'
    BY <1>1, StaysAwake DEF SaveConversation, MessagingInv
  <1> QED
    BY <1>1, <1>2, UnchangedRows, RequestGoesOn DEF RequestHolds, SaveConversation

LEMMA MarkSenderStep ==
  ASSUME MessagingInv, NEW r \in Requests, MarkSender(r)
  PROVE  MessagingInv'
  <1>1. RequestGoes(r, "settled") /\ request[r].pc = "saved"
    BY AdvanceGoes DEF MarkSender
  <1>2. RequestHolds(r) /\ RecipientsAwake(r)'
    BY <1>1, StaysAwake DEF MarkSender, MessagingInv
  <1>3. request[r].by \in Users /\ request[r].read \in 0..Len(sent)
    BY RequestRow DEF RequestRows
  <1>4. MarksKept
    BY <1>3, MarkReadKeeps, UnchangedRows DEF MarkSender
  <1> QED
    BY <1>1, <1>2, <1>4, UnchangedRows, RequestGoesOn DEF RequestHolds, MarkSender

LEMMA DeadlockStep ==
  ASSUME MessagingInv, NEW r \in Requests, Deadlock(r)
  PROVE  MessagingInv'
  <1>1. request[r].pc # "idle"
    BY DEF Deadlock, Writes, Holds
  <1> QED
    BY <1>1, UnchangedRows, LoseStep DEF Deadlock

\* A page to which the message of a request is announced.
LEMMA AnnouncedPages ==
  ASSUME MessagingInv, NEW m \in 1..Len(sent), NEW heard \in SUBSET Joined, NEW p \in Pages
  PROVE  /\ Announced(m, heard)[p] \in PageRows(Len(sent))
         /\ Announced(m, heard)[p].pc = page[p].pc
         /\ Announced(m, heard)[p].shown = page[p].shown
         /\ Announced(m, heard)[p].since = page[p].since
         /\ ToSet(Announced(m, heard)[p].inbox) =
              ToSet(page[p].inbox) \cup (IF p \in heard THEN {m} ELSE {})
         /\ Announced(m, heard)[p].unheard =
              page[p].unheard \cup (IF p \in Joined \ heard THEN {m} ELSE {})
  <1> DEFINE inbox == Append(page[p].inbox, m)
             row == [page[p] EXCEPT !.inbox = inbox]
             deaf == [page[p] EXCEPT !.unheard = @ \cup {m}]
  <1>1. page[p] \in PageRows(Len(sent)) /\ Len(sent) \in Nat
    BY UnchangedRows, SentTypes
  <1>2. /\ inbox \in Seq(1..Len(sent))
        /\ ToSet(inbox) = ToSet(page[p].inbox) \cup {m}
    BY <1>1, SentTypes, InboxAppend
  <1> HIDE DEF inbox
  <1>3. /\ row.pc = page[p].pc /\ row.shown = page[p].shown /\ row.since = page[p].since
        /\ row.inbox = inbox /\ row.unheard = page[p].unheard
    BY <1>1 DEF PageRows
  <1>4. row \in PageRows(Len(sent))
    BY <1>1, <1>2 DEF PageRows
  <1>5. /\ deaf.pc = page[p].pc /\ deaf.shown = page[p].shown
        /\ deaf.since = page[p].since
        /\ deaf.inbox = page[p].inbox /\ deaf.unheard = page[p].unheard \cup {m}
    BY <1>1 DEF PageRows
  <1>6. deaf \in PageRows(Len(sent))
    BY <1>1 DEF PageRows
  <1>7. Announced(m, heard)[p] = IF p \in heard THEN row
                                 ELSE IF p \in Joined THEN deaf ELSE page[p]
    BY DEF Announced, inbox
  <1> HIDE DEF row, deaf
  <1> QED
    BY <1>1, <1>2, <1>3, <1>4, <1>5, <1>6, <1>7

LEMMA AnnounceFileStep ==
  ASSUME MessagingInv, NEW r \in Requests, AnnounceFile(r)
  PROVE  MessagingInv'
  <1> DEFINE m == request[r].message
  <1>1. RequestGoes(r, "announced") /\ request[r].pc = "settled" /\ request[r].kind = "FILE"
    BY AdvanceGoes DEF AnnounceFile
  <1>2. RequestHolds(r) /\ RecipientsAwake(r)'
    BY <1>1, StaysAwake DEF AnnounceFile, MessagingInv
  <1>3. m \in 1..Len(sent) /\ m \notin Texts
    BY <1>1, <1>2 DEF RequestHolds, Texts
  <1>4. PICK heard \in SUBSET Joined : page' = Announced(m, heard)
    BY DEF AnnounceFile
  <1> HIDE DEF m
  <1>5. ASSUME NEW p \in Pages
        PROVE  page'[p] \in PageRows(Len(sent)) /\ PageKept(p)
    <2>1. page'[p] = Announced(m, heard)[p]
      BY <1>4
    <2> QED
      BY <1>3, <2>1, AnnouncedPages DEF PageKept
  <1>6. page' \in [Pages -> PageRows(Len(sent))]
    <2>1. page' = [p \in Pages |-> page'[p]]
      BY <1>4 DEF Announced
    <2> QED
      BY <1>5, <2>1
  <1> QED
    BY <1>1, <1>2, <1>5, <1>6, UnchangedRows, RequestGoesOn DEF AnnounceFile

(***************************************************************************)
(* A message arrives.                                                      *)
(***************************************************************************)
LEMMA OneArrives ==
  ASSUME MessagingInv, NEW r \in Requests,
         \A q \in Requests \ {r} : request'[q] = request[q],
         stored' \subseteq stored \cup {request[r].message}
  PROVE  stored' \ UnderWay' \subseteq (stored \ UnderWay) \cup {request[r].message}
  BY DEF UnderWay

\* Its recipients no longer have the conversation in their archive.
LEMMA ArrivalUnarchives ==
  ASSUME MessagingInv, NEW r \in Requests,
         request[r].pc \in {"settled", "announced"},
         sent' = sent,
         stored' \ UnderWay' \subseteq (stored \ UnderWay) \cup {request[r].message},
         \A u \in Users : archived'[u] \in {0, archived[u]},
         request[r].kind = "FILE" => \A u \in request[r].wakes : archived'[u] = 0
  PROVE  NewMessageUnarchives'
  <1> SUFFICES ASSUME NEW u \in Users, archived'[u] # 0,
                      NEW m \in stored' \ UnderWay', sent[m].by # u
               PROVE  m < archived[u] /\ archived'[u] = archived[u]
    BY DEF NewMessageUnarchives
  <1>1. archived'[u] = archived[u]
    OBVIOUS
  <1>2. CASE m \in stored \ UnderWay
    BY <1>1, <1>2 DEF MessagingInv, NewMessageUnarchives
  <1>3. CASE m = request[r].message
    <2>1. sent[m].by = request[r].by
      BY <1>3 DEF MessagingInv, RequestHolds
    <2>2. u \in Users \ {request[r].by}
      BY <2>1
    <2>3. archived[u] = 0 \/ archived[u] > m
      BY <1>1, <1>3, <2>2 DEF MessagingInv, RecipientsAwake
    <2> QED
      BY <1>1, <1>3, <2>3, SentTypes
  <1> QED
    BY <1>2, <1>3

\* The request is done with.
LEMMA RequestDone ==
  ASSUME MessagingInv, NEW r \in Requests, request[r].pc \in {"settled", "announced"},
         request' = [request EXCEPT ![r] = NoRequest], sent' = sent, MarksKept,
         stored' = stored \/ stored' = stored \cup {request[r].message},
         archived' \in [Users -> 0..Len(sent) + 1],
         \A u \in Users : archived'[u] \in {0, archived[u]},
         request[r].kind = "FILE" => \A u \in request[r].wakes : archived'[u] = 0,
         page' \in [Pages -> PageRows(Len(sent))],
         \A p \in Pages : PageHolds(p)'
  PROVE  MessagingInv'
  <1>1. /\ request \in [Requests -> RequestRows(Len(sent))] /\ Len(sent) \in Nat
        /\ sent \in Seq(MessageRows) /\ Len(sent) <= MaxMessages
        /\ stored \subseteq 1..Len(sent)
    BY Types, SentTypes DEF MessagingInv
  <1>2. request[r].message \in 1..Len(sent)
    BY DEF MessagingInv, RequestHolds
  <1>3. MessagingTypeOK'
    BY <1>1, <1>2, NoRequestType, TypesNext DEF MarksKept
  <1>4. SentKept /\ ArchivedNow
    BY <1>1 DEF SentKept, ArchivedNow
  <1>5. HasLatest'
    <2>1. CASE stored' = stored
      BY <2>1 DEF MessagingInv, HasLatest
    <2>2. CASE stored' = stored \cup {request[r].message}
      <3>1. request[r].message \in Nat
        BY <1>1, <1>2
      <3> QED
        BY <2>2, <3>1, LatestKept DEF MessagingInv
    <2> QED
      BY <2>1, <2>2
  <1>6. request'[r] = NoRequest /\ \A q \in Requests \ {r} : request'[q] = request[q]
    BY <1>1
  <1>7. RequestHolds(r)' /\ RecipientsAwake(r)'
    BY <1>1, <1>6, NoRequestType DEF RequestHolds, RecipientsAwake
  <1>8. \A q \in Requests : RequestHolds(q)' /\ RecipientsAwake(q)'
    BY <1>4, <1>6, <1>7, RequestKept
  <1>9. stored' \ UnderWay' \subseteq (stored \ UnderWay) \cup {request[r].message}
    BY <1>6, OneArrives
  <1> QED
    BY <1>3, <1>5, <1>8, <1>9, ArrivalUnarchives DEF MessagingInv

LEMMA AnnounceTextStep ==
  ASSUME MessagingInv, NEW r \in Requests, AnnounceText(r)
  PROVE  MessagingInv'
  <1> DEFINE m == request[r].message
  <1>1. RequestHolds(r) /\ request[r].pc = "settled" /\ request[r].kind = "TEXT"
    BY DEF MessagingInv, AnnounceText
  <1>2. m \in 1..Len(sent) /\ m \in stored
    BY <1>1 DEF RequestHolds
  <1>3. /\ sent' = sent /\ stored' = stored
        /\ request' = [request EXCEPT ![r] = NoRequest]
    BY DEF AnnounceText
  <1>4. stored' \ UnderWay' \subseteq (stored \ UnderWay) \cup {m}
    BY <1>3, OneArrives, Types DEF MessagingInv
  <1>5. PICK heard \in SUBSET Joined, dispatched \in BOOLEAN :
          page' = [p \in Pages |-> [Announced(m, heard)[p] EXCEPT !.shown =
                     IF p \in request[r].from /\ page[p].pc = "online" /\ ~dispatched
                       THEN @ \cup {m} ELSE @]]
    BY DEF AnnounceText
  <1> HIDE DEF m
  <1>6. ASSUME NEW p \in Pages
        PROVE  page'[p] \in PageRows(Len(sent)) /\ PageHolds(p)'
    <2> DEFINE view == Announced(m, heard)[p]
               shown == IF p \in request[r].from /\ page[p].pc = "online" /\ ~dispatched
                          THEN view.shown \cup {m} ELSE view.shown
    <2>1. page'[p] = [view EXCEPT !.shown = shown]
      BY <1>5
    <2>2. /\ view \in PageRows(Len(sent))
          /\ view.pc = page[p].pc /\ view.shown = page[p].shown /\ view.since = page[p].since
          /\ ToSet(view.inbox) = ToSet(page[p].inbox) \cup (IF p \in heard THEN {m} ELSE {})
          /\ view.unheard = page[p].unheard \cup (IF p \in Joined \ heard THEN {m} ELSE {})
      BY <1>2, AnnouncedPages
    <2>3. shown \in {page[p].shown, page[p].shown \cup {m}}
      BY <2>2
    <2> HIDE DEF view, shown
    <2>4. page[p].shown \subseteq 1..Len(sent) /\ shown \in SUBSET (1..Len(sent))
      BY <1>2, <2>3, SentTypes
    <2>5. /\ page'[p] \in PageRows(Len(sent))
          /\ page'[p].pc = view.pc /\ page'[p].shown = shown
          /\ page'[p].since = view.since /\ page'[p].inbox = view.inbox
          /\ page'[p].unheard = view.unheard
      BY <2>1, <2>2, <2>4 DEF PageRows
    <2>6. PageHolds(p) /\ (page[p].pc = "online" => p \in Joined)
      BY DEF MessagingInv, Joined
    <2>7. Texts' = Texts
      BY <1>3 DEF Texts
    <2>8. \A k \in Nat : BeyondLimit(p, k) => BeyondLimit(p, k)'
      BY <2>2, <2>3, <2>4, <2>5, BeyondKept
    <2>9. stored \subseteq Nat
      BY SentTypes
    <2>10. page'[p].pc = "online" =>
             \A k \in (Texts \cap stored)' \ UnderWay' :
               k > page'[p].since =>
                 \/ k \in page'[p].shown \cup ToSet(page'[p].inbox)
                 \/ k \in page'[p].unheard \/ BeyondLimit(p, k)'
      <3> SUFFICES ASSUME page'[p].pc = "online",
                          NEW k \in (Texts \cap stored)' \ UnderWay', k > page'[p].since
                   PROVE  \/ k \in page'[p].shown \cup ToSet(page'[p].inbox)
                          \/ k \in page'[p].unheard \/ BeyondLimit(p, k)'
        OBVIOUS
      <3>1. k \in (stored \ UnderWay) \cup {m} /\ k \in Texts \cap stored
        BY <1>3, <1>4, <2>7
      <3>2. page[p].pc = "online" /\ p \in Joined
        BY <2>2, <2>5, <2>6
      <3>3. CASE k = m
        BY <2>2, <2>5, <3>2, <3>3
      <3>4. CASE k # m
        <4>1. \/ k \in page[p].shown \cup ToSet(page[p].inbox)
              \/ k \in page[p].unheard \/ BeyondLimit(p, k)
          BY <2>2, <2>5, <2>6, <3>1, <3>2, <3>4 DEF PageHolds
        <4> QED
          BY <2>2, <2>3, <2>5, <2>8, <2>9, <3>1, <4>1
      <3> QED
        BY <3>3, <3>4
    <2>11. (page'[p].shown \cup ToSet(page'[p].inbox)) \cap Texts' \subseteq stored'
      BY <1>2, <1>3, <2>2, <2>3, <2>5, <2>6, <2>7 DEF PageHolds
    <2> QED
      BY <2>5, <2>10, <2>11 DEF PageHolds
  <1>7. page' \in [Pages -> PageRows(Len(sent))]
    <2>1. page' = [p \in Pages |-> page'[p]]
      BY <1>5
    <2> QED
      BY <1>6, <2>1
  <1> QED
    BY <1>1, <1>3, <1>6, <1>7, UnchangedRows, RequestDone DEF AnnounceText, m

LEMMA CommitFileStep ==
  ASSUME MessagingInv, NEW r \in Requests, CommitFile(r)
  PROVE  MessagingInv'
  <1> DEFINE m == request[r].message
  <1>1. RequestHolds(r) /\ request[r].pc = "announced" /\ request[r].kind = "FILE"
    BY DEF MessagingInv, CommitFile
  <1>2. m \in 1..Len(sent) /\ m \notin Texts /\ Len(sent) \in Nat
    BY <1>1, SentTypes DEF RequestHolds, Texts
  <1>3. /\ sent' = sent /\ stored' = stored \cup {m}
        /\ request' = [request EXCEPT ![r] = NoRequest]
    BY DEF CommitFile
  <1>4. stored' \ UnderWay' \subseteq (stored \ UnderWay) \cup {m}
    BY <1>3, OneArrives, Types DEF MessagingInv
  <1>5. /\ archived' \in [Users -> 0..Len(sent) + 1]
        /\ \A u \in Users : archived'[u] \in {0, archived[u]}
        /\ \A u \in request[r].wakes : archived'[u] = 0
    <2>1. request[r].wakes \subseteq Users
      BY RequestRow DEF RequestRows
    <2> QED
      BY <1>2, <2>1, UnchangedRows DEF CommitFile, Unarchived
  <1>6. MarksKept
    <2>1. request[r].by \in Users /\ request[r].read \in 0..Len(sent)
      BY RequestRow DEF RequestRows
    <2> QED
      BY <2>1, MarkReadKeeps DEF CommitFile
  <1>7. page' = [p \in Pages |->
          IF p \in request[r].from THEN Answered(page[p], m) ELSE page[p]]
    BY DEF CommitFile
  <1> HIDE DEF m
  <1>8. ASSUME NEW p \in Pages
        PROVE  page'[p] \in PageRows(Len(sent)) /\ PageHolds(p)'
    <2>1. PageHolds(p) /\ page[p] \in PageRows(Len(sent))
      BY UnchangedRows DEF MessagingInv
    <2>2. Texts' = Texts
      BY <1>3 DEF Texts
    <2>3. CASE page'[p] = page[p]
      <3>1. \A k : BeyondLimit(p, k)' = BeyondLimit(p, k)
        BY <2>3 DEF BeyondLimit
      <3> QED
        BY <1>2, <1>3, <1>4, <2>1, <2>2, <2>3, <3>1 DEF PageHolds
    <2>4. CASE page[p].pc = "loaded"
               /\ page'[p] = [page[p] EXCEPT !.shown = @ \cup {m}, !.since = m]
      <3>1. page[p].shown \cup {m} \in SUBSET (1..Len(sent)) /\ m \in 0..Len(sent)
        BY <1>2, SentTypes
      <3>2. page'[p] \in PageRows(Len(sent))
        BY <2>1, <2>4, <3>1 DEF PageRows
      <3>3. /\ page'[p].pc = "loaded" /\ page'[p].shown = page[p].shown \cup {m}
            /\ page'[p].inbox = page[p].inbox
        BY <2>1, <2>4 DEF PageRows
      <3> QED
        BY <1>2, <1>3, <2>1, <2>2, <3>2, <3>3 DEF PageHolds
    <2> QED
      BY <1>7, <2>3, <2>4 DEF Answered
  <1>9. page' \in [Pages -> PageRows(Len(sent))]
    <2>1. page' = [p \in Pages |-> page'[p]]
      BY <1>7
    <2> QED
      BY <1>8, <2>1
  <1> QED
    BY <1>1, <1>3, <1>5, <1>6, <1>8, <1>9, RequestDone DEF m

LEMMA RequestStepInv ==
  ASSUME MessagingInv, NEW r \in Requests, RequestStep(r) \/ Crash(r)
  PROVE  MessagingInv'
  BY StoreTextStep, WakeByTextStep, WakeByFileStep, ReadClockStep, SaveConversationStep,
     MarkSenderStep, AnnounceTextStep, AnnounceFileStep, CommitFileStep, DeadlockStep,
     CrashStep DEF RequestStep

(***************************************************************************)
(* Pages, and the archive.                                                 *)
(***************************************************************************)
LEMMA PageMoves ==
  ASSUME MessagingInv, NEW p \in Pages, NEW row \in PageRows(Len(sent)),
         page' = [page EXCEPT ![p] = row],
         UNCHANGED <<sent, stored, archived, request>>, MarksKept,
         PageHolds(p)'
  PROVE  MessagingInv'
  <1>1. MessagingTypeOK'
    <2>1. page' \in [Pages -> PageRows(Len(sent))]
      BY UnchangedRows
    <2> QED
      BY <2>1, Types, TypesNext DEF MessagingInv, MarksKept
  <1>2. SentKept /\ ArchivedNow
    BY SentTypes DEF SentKept, ArchivedNow
  <1>3. UnderWay' = UnderWay
    BY DEF UnderWay
  <1>4. \A q \in Pages \ {p} : PageKept(q)
    BY UnchangedRows DEF PageKept
  <1>5. \A q \in Pages : PageHolds(q)'
    BY <1>2, <1>3, <1>4, QuietPage
  <1>6. HasLatest' /\ NewMessageUnarchives'
    BY <1>2, <1>3, QuietArchive DEF MessagingInv, HasLatest
  <1> QED
    BY <1>1, <1>2, <1>5, <1>6, RequestKept DEF MessagingInv

\* What the page displays stays, and it is not online unless it was.
LEMMA PageWaits ==
  ASSUME MessagingInv, NEW p \in Pages, NEW row \in PageRows(Len(sent)),
         page' = [page EXCEPT ![p] = row],
         UNCHANGED <<sent, stored, archived, request>>, MarksKept,
         \/ /\ row.pc = "online" => page[p].pc = "online"
            /\ row.shown = page[p].shown /\ row.inbox = page[p].inbox
            /\ row.since = page[p].since /\ row.unheard = page[p].unheard
         \/ row.pc # "online" /\ row.shown = {} /\ row.inbox = <<>>
  PROVE  MessagingInv'
  <1>1. SentKept /\ UnderWay' = UnderWay
    BY SentTypes DEF SentKept, UnderWay
  <1>2. page'[p] = row
    BY UnchangedRows
  <1>3. PageKept(p)
    BY <1>2 DEF PageKept
  <1>4. PageHolds(p)'
    BY <1>1, <1>3, QuietPage
  <1> QED
    BY <1>4, PageMoves

LEMMA MarkStep ==
  ASSUME MessagingInv, NEW p \in Pages, StartMark(p) \/ WriteMark(p)
  PROVE  MessagingInv'
  <1>1. page[p] \in PageRows(Len(sent)) /\ Len(sent) \in 0..Len(sent) /\ 0 \in 0..Len(sent)
    BY UnchangedRows, SentTypes
  <1>2. CASE StartMark(p)
    <2> DEFINE row == [page[p] EXCEPT !.marking = "writing", !.clock = Len(sent)]
    <2>1. /\ row \in PageRows(Len(sent)) /\ row.pc = page[p].pc
          /\ row.shown = page[p].shown /\ row.inbox = page[p].inbox
          /\ row.since = page[p].since /\ row.unheard = page[p].unheard
      BY <1>1 DEF PageRows
    <2>2. page' = [page EXCEPT ![p] = row]
      BY <1>2 DEF StartMark
    <2> HIDE DEF row
    <2> QED
      BY <1>2, <2>1, <2>2, UnchangedRows, PageWaits DEF StartMark
  <1>3. CASE WriteMark(p)
    <2> DEFINE row == [page[p] EXCEPT !.marking = "no", !.clock = 0]
    <2>1. /\ row \in PageRows(Len(sent)) /\ row.pc = page[p].pc
          /\ row.shown = page[p].shown /\ row.inbox = page[p].inbox
          /\ row.since = page[p].since /\ row.unheard = page[p].unheard
      BY <1>1 DEF PageRows
    <2>2. page' = [page EXCEPT ![p] = row]
      BY <1>3 DEF WriteMark
    <2> HIDE DEF row
    <2>3. Reader[p] \in Users /\ page[p].clock \in 0..Len(sent)
      BY <1>1, MessagingAssumption DEF MessagingAssumption, PageRows
    <2>4. MarksKept
      BY <1>3, <2>3, MarkReadKeeps DEF WriteMark
    <2> QED
      BY <1>3, <2>1, <2>2, <2>4, PageWaits DEF WriteMark
  <1> QED
    BY <1>2, <1>3

LEMMA PageStepInv ==
  ASSUME MessagingInv, NEW p \in Pages, PageStep(p)
  PROVE  MessagingInv'
  <1>0. page[p] \in PageRows(Len(sent)) /\ Len(sent) \in Nat
    BY UnchangedRows, SentTypes
  <1>1. CASE OpenPage(p)
    <2> DEFINE row == [page[p] EXCEPT !.pc = "opening", !.marking = "due"]
    <2>1. /\ row \in PageRows(Len(sent)) /\ row.pc = "opening"
          /\ row.shown = page[p].shown /\ row.inbox = page[p].inbox
          /\ row.since = page[p].since /\ row.unheard = page[p].unheard
      BY <1>0 DEF PageRows
    <2>2. page' = [page EXCEPT ![p] = row]
      BY <1>1 DEF OpenPage
    <2> HIDE DEF row
    <2> QED
      BY <1>1, <2>1, <2>2, UnchangedRows, PageWaits DEF OpenPage
  <1>2. CASE LoadPage(p)
    <2> DEFINE row == [page[p] EXCEPT !.pc = "loaded", !.shown = stored,
                                      !.since = Latest(stored)]
    <2>1. Latest(stored) \in 0..Len(sent) /\ stored \subseteq 1..Len(sent)
      BY LatestType, SentTypes DEF MessagingInv
    <2>2. row \in PageRows(Len(sent))
      BY <1>0, <2>1 DEF PageRows
    <2>3. row.pc = "loaded" /\ row.shown = stored /\ row.inbox = page[p].inbox
      BY <1>0 DEF PageRows
    <2>4. page' = [page EXCEPT ![p] = row]
      BY <1>2 DEF LoadPage
    <2> HIDE DEF row
    <2>5. page'[p] = row
      BY <2>4, UnchangedRows
    <2>6. PageHolds(p)'
      <3>1. PageHolds(p) /\ Texts' = Texts /\ stored' = stored
        BY <1>2 DEF MessagingInv, LoadPage, Texts
      <3> QED
        BY <2>3, <2>5, <3>1 DEF PageHolds
    <2> QED
      BY <1>2, <2>2, <2>4, <2>6, PageMoves, UnchangedRows DEF LoadPage
  <1>3. CASE JoinGroup(p)
    <2> DEFINE row == [page[p] EXCEPT !.pc = "joined", !.marking = "due"]
    <2>1. /\ row \in PageRows(Len(sent)) /\ row.pc = "joined"
          /\ row.shown = page[p].shown /\ row.inbox = page[p].inbox
          /\ row.since = page[p].since /\ row.unheard = page[p].unheard
      BY <1>0 DEF PageRows
    <2>2. page' = [page EXCEPT ![p] = row]
      BY <1>3 DEF JoinGroup
    <2> HIDE DEF row
    <2> QED
      BY <1>3, <2>1, <2>2, UnchangedRows, PageWaits DEF JoinGroup
  <1>4. CASE Disconnect(p)
    <2> DEFINE row == Offline(page[p])
    <2>1. /\ row \in PageRows(Len(sent))
          /\ row.pc # "online" /\ row.shown = {} /\ row.inbox = <<>>
      BY <1>0, NoPageType
    <2>2. page' = [page EXCEPT ![p] = row]
      BY <1>4 DEF Disconnect
    <2> HIDE DEF row
    <2> QED
      BY <1>4, <2>1, <2>2, UnchangedRows, PageWaits DEF Disconnect
  <1> QED
    BY <1>1, <1>2, <1>3, <1>4 DEF PageStep

\* conversation.sync fetches every text later than what the page displays, or
\* as many of the first as the limit allows; a page without messages has
\* missed nothing that will be displayed.
LEMMA CatchUpStep ==
  ASSUME MessagingInv, NEW p \in Pages, CatchUp(p)
  PROVE  MessagingInv'
  <1> DEFINE missed == IF page[p].since = 0 THEN {} ELSE {m \in stored : m > page[p].since}
             since == IF page[p].since = 0 THEN Len(sent) ELSE page[p].since
  <1>1. PICK first \in SUBSET missed :
          /\ AreFirst(first, missed)
          /\ page' = [page EXCEPT ![p].pc = "online", ![p].shown = @ \cup first,
               ![p].since = IF @ = 0 THEN Len(sent) ELSE @]
    BY DEF CatchUp
  <1> DEFINE row == [page[p] EXCEPT !.pc = "online", !.shown = @ \cup first, !.since = since]
  <1>0. /\ page[p] \in PageRows(Len(sent)) /\ Len(sent) \in Nat
        /\ stored \subseteq 1..Len(sent) /\ page[p].shown \subseteq 1..Len(sent)
        /\ page[p].since \in 0..Len(sent)
    BY UnchangedRows, SentTypes
  <1>2. since \in 0..Len(sent) /\ missed \subseteq stored
    BY <1>0
  <1>3. page' = [page EXCEPT ![p] = row]
    BY <1>1
  <1>4. \A m \in stored : m > since => m \in missed /\ since = page[p].since
    BY <1>0
  <1>5. \A m \in missed : m > since
    BY <1>0
  <1> HIDE DEF since, missed
  <1>6. row \in PageRows(Len(sent))
    BY <1>0, <1>1, <1>2 DEF PageRows
  <1>7. /\ row.since = since /\ row.shown = page[p].shown \cup first
        /\ row.inbox = page[p].inbox
    BY <1>0 DEF PageRows
  <1> HIDE DEF row
  <1>8. page'[p] = row
    BY <1>3, UnchangedRows
  <1>9. PageHolds(p) /\ Texts' = Texts /\ stored' = stored
    BY DEF MessagingInv, CatchUp, Texts
  <1>10. ASSUME NEW m \in missed \ first
         PROVE  BeyondLimit(p, m)'
    <2> DEFINE more == {n \in page'[p].shown : page'[p].since < n /\ n < m}
    <2>1. Cardinality(first) = CatchUpLimit /\ \A n \in first : n < m
      BY <1>1, <1>10 DEF AreFirst
    <2>2. first \subseteq more
      <3> SUFFICES ASSUME NEW n \in first PROVE n \in more
        OBVIOUS
      <3>1. n \in page'[p].shown /\ n < m /\ page'[p].since = since
        BY <1>7, <1>8, <2>1
      <3>2. since < n
        BY <1>0, <1>1, <1>2, <1>5
      <3> QED
        BY <3>1, <3>2
    <2>3. more \in SUBSET (1..Len(sent)) /\ first \in SUBSET (1..Len(sent))
      BY <1>0, <1>1, <1>2, <1>7, <1>8
    <2> HIDE DEF more
    <2>5. Cardinality(more) \in Nat
      BY <1>0, <2>3, MessagesFinite
    <2>6. CatchUpLimit <= Cardinality(first)
      BY <2>1, MessagingAssumption DEF MessagingAssumption
    <2>7. CatchUpLimit <= Cardinality(more)
      BY <1>0, <2>2, <2>3, <2>6, CountGrows
    <2>8. Cardinality(more) >= CatchUpLimit
      BY <2>5, <2>7, MessagingAssumption DEF MessagingAssumption
    <2> QED
      BY <2>8 DEF BeyondLimit, more
  <1>11. PageHolds(p)'
    BY <1>1, <1>2, <1>4, <1>7, <1>8, <1>9, <1>10 DEF PageHolds
  <1> QED
    BY <1>3, <1>6, <1>11, PageMoves, UnchangedRows DEF CatchUp

LEMMA ReceiveStep ==
  ASSUME MessagingInv, NEW p \in Pages, Receive(p)
  PROVE  MessagingInv'
  <1> DEFINE m == Head(page[p].inbox)
             marking == IF sent[m].by = Reader[p] THEN "no" ELSE "due"
             row == [page[p] EXCEPT !.inbox = Tail(@), !.shown = @ \cup {m},
                                    !.marking = marking]
  <1>0. /\ page[p] \in PageRows(Len(sent)) /\ Len(sent) \in Nat
        /\ page[p].shown \subseteq 1..Len(sent)
        /\ page[p].inbox \in Seq(1..Len(sent)) /\ page[p].inbox # <<>>
    BY UnchangedRows, SentTypes DEF Receive
  <1>1. /\ m \in 1..Len(sent) /\ Tail(page[p].inbox) \in Seq(1..Len(sent))
        /\ ToSet(page[p].inbox) = ToSet(Tail(page[p].inbox)) \cup {m}
    BY <1>0, InboxTail
  <1>2. marking \in {"no", "due"}
    OBVIOUS
  <1>3. page' = [page EXCEPT ![p] = row]
    BY DEF Receive
  <1> HIDE DEF m, marking
  <1>4. row \in PageRows(Len(sent))
    BY <1>0, <1>1, <1>2 DEF PageRows
  <1>5. /\ row.pc = page[p].pc /\ row.since = page[p].since
        /\ row.shown = page[p].shown \cup {m} /\ row.inbox = Tail(page[p].inbox)
        /\ row.unheard = page[p].unheard
    BY <1>0 DEF PageRows
  <1> HIDE DEF row
  <1>6. page'[p] = row
    BY <1>3, UnchangedRows
  <1>7. PageHolds(p) /\ Texts' = Texts /\ stored' = stored /\ UnderWay' = UnderWay
    BY DEF MessagingInv, Receive, Texts, UnderWay
  <1>8. stored \subseteq Nat /\ \A k \in Nat : BeyondLimit(p, k) => BeyondLimit(p, k)'
    <2>1. page'[p].shown \subseteq 1..Len(sent) /\ page[p].shown \subseteq page'[p].shown
          /\ page'[p].since = page[p].since
      BY <1>0, <1>1, <1>5, <1>6
    <2> QED
      BY <2>1, SentTypes, BeyondKept
  <1>9. PageHolds(p)'
    BY <1>1, <1>5, <1>6, <1>7, <1>8 DEF PageHolds
  <1> QED
    BY <1>3, <1>4, <1>9, PageMoves, UnchangedRows DEF Receive

LEMMA OnlyArchived ==
  ASSUME MessagingInv, archived' \in [Users -> 0..Len(sent) + 1], ArchivedNow,
         UNCHANGED <<sent, stored, lastRead, latestRead, request, page>>
  PROVE  MessagingInv'
  <1>1. MessagingTypeOK'
    BY Types, TypesNext DEF MessagingInv
  <1>2. SentKept /\ UnderWay' = UnderWay
    BY SentTypes DEF SentKept, UnderWay
  <1>3. HasLatest' /\ \A p \in Pages : PageKept(p)
    BY DEF MessagingInv, HasLatest, PageKept
  <1> QED
    BY <1>1, <1>2, <1>3, RequestKept, QuietPage, QuietArchive DEF MessagingInv

LEMMA ArchiveStep ==
  ASSUME MessagingInv, NEW u \in Users, Archive(u) \/ Unarchive(u)
  PROVE  MessagingInv'
  <1>1. archived' \in [Users -> 0..Len(sent) + 1] /\ ArchivedNow
    <2>1. Len(sent) + 1 \in 0..Len(sent) + 1 /\ 0 \in 0..Len(sent) + 1
      BY SentTypes
    <2> QED
      BY <2>1, UnchangedRows DEF Archive, Unarchive, ArchivedNow
  <1> QED
    BY <1>1, OnlyArchived DEF Archive, Unarchive

LEMMA InitMessagingInv == Init => MessagingInv
  <1> SUFFICES ASSUME Init PROVE MessagingInv
    OBVIOUS
  <1>1. /\ sent = <<>> /\ Len(sent) = 0 /\ sent \in Seq(MessageRows) /\ stored = {}
        /\ 0 <= MaxMessages
    BY EmptySeq, MessagingAssumption DEF Init, MessagingAssumption
  <1>2. /\ request \in [Requests -> RequestRows(0)] /\ page \in [Pages -> PageRows(0)]
        /\ lastRead \in [Users -> 0..0] /\ latestRead \in [Users -> 0..0]
        /\ archived \in [Users -> 0..0 + 1]
    <2>1. NoRequest \in RequestRows(0) /\ NoPage \in PageRows(0)
      BY NoRequestType, NoPageType
    <2>2. 0 \in 0..0 /\ 0 \in 0..0 + 1
      OBVIOUS
    <2> QED
      BY <2>1, <2>2 DEF Init
  <1>3. MessagingTypeOK
    BY <1>1, <1>2, Types
  <1>4. \A r \in Requests : RequestHolds(r) /\ RecipientsAwake(r)
    BY NoRequestType DEF Init, RequestHolds, RecipientsAwake
  <1>5. \A p \in Pages : PageHolds(p)
    BY <1>1, NoPageType, InboxEmpty DEF Init, PageHolds
  <1> QED
    BY <1>1, <1>3, <1>4, <1>5 DEF MessagingInv, HasLatest, NewMessageUnarchives

LEMMA NextMessagingInv == MessagingInv /\ [Next]_vars => MessagingInv'
  <1> SUFFICES ASSUME MessagingInv, [Next]_vars PROVE MessagingInv'
    OBVIOUS
  <1>1. CASE UNCHANGED vars
    BY <1>1, UnchangedRows, OnlyArchived DEF vars
  <1>2. ASSUME NEW p \in Pages, ServerStep(p) \/ PageStep(p)
        PROVE  MessagingInv'
    BY <1>2, MarkStep, CatchUpStep, ReceiveStep, PageStepInv DEF ServerStep
  <1> QED
    BY <1>1, <1>2, SendStep, RequestStepInv, ArchiveStep DEF Next

(***************************************************************************)
(* The theorems.                                                           *)
(***************************************************************************)
LEMMA MessagingInvariant == Spec => []MessagingInv
  BY InitMessagingInv, NextMessagingInv, PTL DEF Spec

\* Every message, participation, request and page keeps its type.
THEOREM MessagingTypeCorrect == Spec => []MessagingTypeOK
  <1>1. MessagingInv => MessagingTypeOK
    BY DEF MessagingInv
  <1> QED
    BY <1>1, MessagingInvariant, PTL

\* A page that is online has missed no text that was sent while it loaded,
\* joined its group and caught up, whatever announcements the channel layer
\* loses, but for the texts it lost and those that the catch-up left out at
\* its limit; and it shows none that is not stored.
THEOREM TextsArrive == Spec => []TextsReachThePage
  <1>1. MessagingInv => TextsReachThePage
    BY DEF MessagingInv, PageHolds, TextsReachThePage
  <1> QED
    BY <1>1, MessagingInvariant, PTL

\* Whatever was archived while a message was on its way, the conversation is
\* out of the archive of its recipients once it has arrived.
THEOREM MessagesUnarchive == Spec => []NewMessageUnarchives
  <1>1. MessagingInv => NewMessageUnarchives
    BY DEF MessagingInv
  <1> QED
    BY <1>1, MessagingInvariant, PTL
=============================================================================
