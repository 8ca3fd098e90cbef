------------------------------ MODULE Messaging ------------------------------
(***************************************************************************)
(* A conversation between two producers (apps/messaging).  Texts are sent  *)
(* over the websocket of an open page and saved statement by statement;    *)
(* files are uploaded by a request that is one transaction, but announced  *)
(* to the pages before it commits.  A page loads the messages, then joins  *)
(* the group of the conversation, then asks for what it missed.  The       *)
(* channel layer may lose an announcement.                                 *)
(*                                                                         *)
(* A message is its place in the order of created_at, which it gets before *)
(* it is stored; last_read_at is the number of messages it is not before.  *)
(***************************************************************************)
EXTENDS Naturals, Sequences, SequencesExt, FiniteSets

CONSTANTS
  Users,         \* the two participants
  Pages,         \* the pages that are followed, each opened at most once
  Elsewhere,     \* users assumed to have other pages, to send from at any time
  Reader,        \* the user of a page
  Requests,      \* messages being sent at once
  MaxMessages,   \* bound: messages of the conversation
  CatchUpLimit   \* messages that conversation.sync returns at most (50)

ASSUME MessagingAssumption ==
  /\ Users # {} /\ Elsewhere \subseteq Users /\ Reader \in [Pages -> Users]
  /\ MaxMessages \in Nat /\ IsFiniteSet(Requests)
  /\ CatchUpLimit \in Nat \ {0}

VARIABLES
  sent,        \* messages, in the order of created_at: sender and type
  stored,      \* those that are committed
  lastRead,    \* conversation_participants.last_read_at
  latestRead,  \* the latest it has ever been; only the properties use it
  archived,    \* conversation_participants.is_archived: 0, or if it is, 1 and
               \* the number of messages when it was set
  request,     \* messages being sent
  page         \* pages of the conversation and their websockets

vars == <<sent, stored, lastRead, latestRead, archived, request, page>>

Messages == 1..MaxMessages
Kinds == {"TEXT", "FILE"}

\* from: the page it is sent from, if that is followed.  read: the time that
\* was read to mark the sender's participation.  wakes: the participants a
\* file takes out of the archive when it commits.
NoRequest == [pc |-> "idle", by |-> CHOOSE u \in Users : TRUE, from |-> {},
              kind |-> "TEXT", message |-> 0, read |-> 0, wakes |-> {}]

\* shown: what the page displays.  since: the last message it displayed when
\* its socket opened, which it asks what it missed from.  inbox: announcements
\* on their way.  unheard: those that were lost while it was in the group.
\* marking: how far the server is with marking the conversation as read, with
\* the time it read as clock.
NoPage == [pc |-> "closed", shown |-> {}, since |-> 0, inbox |-> <<>>,
           unheard |-> {}, marking |-> "no", clock |-> 0]

\* Every row, request and page has its type.
MessagingTypeOK ==
  /\ sent \in Seq([by : Users, kind : Kinds]) /\ Len(sent) <= MaxMessages
  /\ stored \subseteq 1..Len(sent)
  /\ lastRead \in [Users -> 0..Len(sent)]
  /\ latestRead \in [Users -> 0..Len(sent)]
  /\ archived \in [Users -> 0..Len(sent) + 1]
  /\ request \in [Requests ->
       [pc : {"idle", "stamped", "stored", "awake", "clocked", "saved", "settled",
              "announced", "lost"},
        by : Users, from : SUBSET Pages, kind : Kinds, message : 0..Len(sent),
        read : 0..Len(sent), wakes : SUBSET Users]]
  /\ page \in [Pages ->
       [pc : {"closed", "opening", "loaded", "joined", "online", "offline"},
        shown : SUBSET (1..Len(sent)), since : 0..Len(sent),
        inbox : Seq(1..Len(sent)), unheard : SUBSET (1..Len(sent)),
        marking : {"no", "due", "writing"}, clock : 0..Len(sent)]]

Init ==
  /\ sent = <<>> /\ stored = {}
  /\ lastRead = [u \in Users |-> 0] /\ latestRead = lastRead
  /\ archived = [u \in Users |-> 0]
  /\ request = [r \in Requests |-> NoRequest]
  /\ page = [p \in Pages |-> NoPage]

(***************************************************************************)
(* Rows.                                                                   *)
(***************************************************************************)
Recipients(r) == Users \ {request[r].by}

\* The conversation's own row; the others are participations.
Conversation == "conversation"

\* The rows that the transaction of a file has written.
Holds(r) ==
  IF request[r].kind = "TEXT" \/ request[r].pc \in {"idle", "lost"} THEN {}
  ELSE UNION {request[r].wakes,
              IF request[r].pc \in {"saved", "settled", "announced"}
                THEN {Conversation} ELSE {},
              IF request[r].pc \in {"settled", "announced"} THEN {request[r].by} ELSE {}}

IsHeld(row) == \E r \in Requests : row \in Holds(r)

HeldBut(r) == UNION {Holds(q) : q \in Requests \ {r}}

\* The rows that the next statement of a request writes.
Writes(r) ==
  CASE request[r].pc = (IF request[r].kind = "TEXT" THEN "stored" ELSE "stamped") ->
         {u \in Recipients(r) : archived[u] # 0}
    [] request[r].pc = "clocked" -> {Conversation}
    [] request[r].pc = "saved" -> {request[r].by}
    [] OTHER -> {}

\* It waits for the transactions that have written them.
CanWrite(r) == Writes(r) \cap HeldBut(r) = {}

\* last_read_at of u becomes n.
MarkRead(u, n) ==
  /\ lastRead' = [lastRead EXCEPT ![u] = n]
  /\ latestRead' = [latestRead EXCEPT ![u] = IF n > @ THEN n ELSE @]

Latest(messages) == CHOOSE m \in messages \cup {0} : \A n \in messages : n <= m

(***************************************************************************)
(* Sending.                                                                *)
(***************************************************************************)
Advance(r, pc) == request' = [request EXCEPT ![r].pc = pc]

Lose(r) ==
  request' = [request EXCEPT ![r] =
    [NoRequest EXCEPT !.pc = "lost", !.message = request[r].message]]

\* What the server does for the socket of a page, one thing at a time.
Idle(p) ==
  /\ page[p].marking = "no"
  /\ \A r \in Requests : p \in request[r].from => request[r].kind = "FILE"

\* The new message of u, from a followed page or another one.
Stamp(u, from, r, kind, wakes) ==
  /\ request[r].pc = "idle"
  /\ Len(sent) < MaxMessages
  /\ sent' = Append(sent, [by |-> u, kind |-> kind])
  /\ request' = [request EXCEPT ![r] =
       [NoRequest EXCEPT !.pc = "stamped", !.by = u, !.from = from, !.kind = kind,
                         !.message = Len(sent) + 1, !.wakes = wakes]]
  /\ UNCHANGED <<stored, lastRead, latestRead, page>>

\* message.send on the socket, up to the created_at of the message
SendText(u, from, r) ==
  /\ from = {} => u \in Elsewhere
  /\ \A p \in from : Reader[p] = u /\ page[p].pc = "online" /\ Idle(p)
  /\ archived[u] # 0 => ~IsHeld(u)
  /\ archived' = [archived EXCEPT ![u] = 0]
  /\ Stamp(u, from, r, "TEXT", {})

\* upload_attachment_view, from a page that may have lost its socket
SendFile(u, from, r) ==
  /\ from = {} => u \in Elsewhere
  /\ \A p \in from : Reader[p] = u /\ page[p].pc \notin {"closed", "opening"}
  /\ archived[u] # 0 => ~IsHeld(u)
  /\ Stamp(u, from, r, "FILE", IF archived[u] = 0 THEN {} ELSE {u})
  /\ UNCHANGED archived

\* The row of a text is there for everybody at once.
StoreText(r) ==
  /\ request[r].pc = "stamped" /\ request[r].kind = "TEXT"
  /\ Advance(r, "stored")
  /\ stored' = stored \cup {request[r].message}
  /\ UNCHANGED <<sent, lastRead, latestRead, archived, page>>

\* Faulty variant of Unarchived: the archive is left alone.
StillArchived(users) == archived

\* _unarchive_recipients_after_new_message
Unarchived(users) == [u \in Users |-> IF u \in users THEN 0 ELSE archived[u]]

WakeByText(r) ==
  /\ request[r].pc = "stored" /\ CanWrite(r)
  /\ archived' = Unarchived(Recipients(r))
  /\ Advance(r, "awake")
  /\ UNCHANGED <<sent, stored, lastRead, latestRead, page>>

\* The statements of a file take effect when it commits.
WakeByFile(r) ==
  /\ request[r].pc = "stamped" /\ request[r].kind = "FILE" /\ CanWrite(r)
  /\ request' = [request EXCEPT ![r].pc = "awake", ![r].wakes = @ \cup Writes(r)]
  /\ UNCHANGED <<sent, stored, lastRead, latestRead, archived, page>>

\* _touch_conversation_after_message: the time is read, then the row of the
\* conversation is saved, for which a request may have to wait.
ReadClock(r) ==
  /\ request[r].pc = "awake"
  /\ request' = [request EXCEPT ![r].pc = "clocked", ![r].read = Len(sent)]
  /\ UNCHANGED <<sent, stored, lastRead, latestRead, archived, page>>

SaveConversation(r) ==
  /\ request[r].pc = "clocked" /\ CanWrite(r)
  /\ Advance(r, "saved")
  /\ UNCHANGED <<sent, stored, lastRead, latestRead, archived, page>>

\* _mark_sender_read, with the time read before
MarkSender(r) ==
  /\ request[r].pc = "saved" /\ CanWrite(r)
  /\ Advance(r, "settled")
  /\ IF request[r].kind = "TEXT" THEN MarkRead(request[r].by, request[r].read)
     ELSE UNCHANGED <<lastRead, latestRead>>
  /\ UNCHANGED <<sent, stored, archived, page>>

\* Two files that wait for each other: the database aborts one.
Deadlock(r) ==
  /\ request[r].kind = "FILE"
  /\ \E q \in Requests \ {r} :
       Writes(r) \cap Holds(q) # {} /\ Writes(q) \cap Holds(r) # {}
  /\ Lose(r)
  /\ UNCHANGED <<sent, stored, lastRead, latestRead, archived, page>>

\* The group of the conversation.
Joined == {p \in Pages : page[p].pc \in {"joined", "online"}}

\* broadcast_message_created, which the pages in heard receive: the channel
\* layer delivers at most once, and a failure is only logged.
Announced(m, heard) ==
  [p \in Pages |->
     IF p \in heard THEN [page[p] EXCEPT !.inbox = Append(@, m)]
     ELSE IF p \in Joined THEN [page[p] EXCEPT !.unheard = @ \cup {m}]
     ELSE page[p]]

\* A page whose consumer was told that the announcement failed (dispatched is
\* false, also when only the unread totals did) is sent its own text directly.
AnnounceText(r) ==
  LET m == request[r].message IN
  /\ request[r].pc = "settled" /\ request[r].kind = "TEXT"
  /\ \E heard \in SUBSET Joined, dispatched \in BOOLEAN :
       page' = [p \in Pages |-> [Announced(m, heard)[p] EXCEPT !.shown =
                  IF p \in request[r].from /\ page[p].pc = "online" /\ ~dispatched
                    THEN @ \cup {m} ELSE @]]
  /\ request' = [request EXCEPT ![r] = NoRequest]
  /\ UNCHANGED <<sent, stored, lastRead, latestRead, archived>>

\* The answer to the upload of a file, which a page without a socket displays.
Answered(view, m) ==
  IF view.pc = "loaded" THEN [view EXCEPT !.shown = @ \cup {m}, !.since = m] ELSE view

\* A file: the announcement, then the commit of everything and the answer.
AnnounceFile(r) ==
  /\ request[r].pc = "settled" /\ request[r].kind = "FILE"
  /\ \E heard \in SUBSET Joined : page' = Announced(request[r].message, heard)
  /\ Advance(r, "announced")
  /\ UNCHANGED <<sent, stored, lastRead, latestRead, archived>>

CommitFile(r) ==
  /\ request[r].pc = "announced" /\ request[r].kind = "FILE"
  /\ stored' = stored \cup {request[r].message}
  /\ archived' = Unarchived(request[r].wakes)
  /\ MarkRead(request[r].by, request[r].read)
  /\ page' = [p \in Pages |->
       IF p \in request[r].from THEN Answered(page[p], request[r].message) ELSE page[p]]
  /\ request' = [request EXCEPT ![r] = NoRequest]
  /\ UNCHANGED sent

\* A page that lost its socket: what it displays changes no more.
Offline(view) == [NoPage EXCEPT !.pc = "offline", !.marking = view.marking, !.clock = view.clock]

\* A statement fails in the middle, or the process ends and with it the socket
\* it served: what a text had saved stays, a file leaves nothing but its
\* announcement.
Crash(r) ==
  /\ request[r].pc \notin {"idle", "lost"}
  /\ Lose(r)
  /\ \E ends \in BOOLEAN :
       page' = [p \in Pages |->
         IF ends /\ p \in request[r].from /\ page[p].pc = "online" /\ request[r].kind = "TEXT"
           THEN Offline(page[p]) ELSE page[p]]
  /\ UNCHANGED <<sent, stored, lastRead, latestRead, archived>>

(***************************************************************************)
(* Pages.                                                                  *)
(***************************************************************************)
\* messages_index_view: marks the conversation as read, then fetches it.
OpenPage(p) ==
  /\ page[p].pc = "closed"
  /\ page' = [page EXCEPT ![p].pc = "opening", ![p].marking = "due"]
  /\ UNCHANGED <<sent, stored, lastRead, latestRead, archived, request>>

LoadPage(p) ==
  /\ page[p].pc = "opening" /\ page[p].marking = "no"
  /\ page' = [page EXCEPT ![p].pc = "loaded", ![p].shown = stored, ![p].since = Latest(stored)]
  /\ UNCHANGED <<sent, stored, lastRead, latestRead, archived, request>>

\* Faulty variant of JoinGroup: what came in since the page was loaded is
\* not marked as read.
JoinOnly(p) ==
  /\ page[p].pc = "loaded"
  /\ page' = [page EXCEPT ![p].pc = "joined"]
  /\ UNCHANGED <<sent, stored, lastRead, latestRead, archived, request>>

\* ConversationConsumer.connect
JoinGroup(p) ==
  /\ page[p].pc = "loaded"
  /\ page' = [page EXCEPT ![p].pc = "joined", ![p].marking = "due"]
  /\ UNCHANGED <<sent, stored, lastRead, latestRead, archived, request>>

\* Faulty variant of StartMark: the mark is ahead of created_at, as a local
\* time taken for UTC is.
StartAhead(p) ==
  /\ page[p].marking = "due"
  /\ page' = [page EXCEPT ![p].marking = "writing", ![p].clock = Len(sent) + 1]
  /\ UNCHANGED <<sent, stored, lastRead, latestRead, archived, request>>

\* mark_conversation_as_read: the time is read, then the row is written.
StartMark(p) ==
  /\ page[p].marking = "due"
  /\ page' = [page EXCEPT ![p].marking = "writing", ![p].clock = Len(sent)]
  /\ UNCHANGED <<sent, stored, lastRead, latestRead, archived, request>>

WriteMark(p) ==
  /\ page[p].marking = "writing"
  /\ ~IsHeld(Reader[p])
  /\ MarkRead(Reader[p], page[p].clock)
  /\ page' = [page EXCEPT ![p].marking = "no", ![p].clock = 0]
  /\ UNCHANGED <<sent, stored, archived, request>>

\* Faulty variant of CatchUp: nothing is missed yet.
GoOnline(p) ==
  /\ page[p].pc = "joined" /\ Idle(p)
  /\ page' = [page EXCEPT ![p].pc = "online", ![p].since = IF @ = 0 THEN Len(sent) ELSE @]
  /\ UNCHANGED <<sent, stored, lastRead, latestRead, archived, request>>

\* Faulty variant of AreFirst: the newest are returned.
AreLast(some, messages) ==
  /\ Cardinality(some) <= CatchUpLimit
  /\ some # messages => Cardinality(some) = CatchUpLimit
  /\ \A m \in some, n \in messages \ some : m > n

\* order_by("created_at")[:50]
AreFirst(some, messages) ==
  /\ Cardinality(some) <= CatchUpLimit
  /\ some # messages => Cardinality(some) = CatchUpLimit
  /\ \A m \in some, n \in messages \ some : m < n

\* conversation.sync, which a page opened without messages does not send.
CatchUp(p) ==
  LET missed == IF page[p].since = 0 THEN {} ELSE {m \in stored : m > page[p].since}
  IN  /\ page[p].pc = "joined" /\ Idle(p)
      /\ \E first \in SUBSET missed :
           /\ AreFirst(first, missed)
           /\ page' = [page EXCEPT ![p].pc = "online", ![p].shown = @ \cup first,
                ![p].since = IF @ = 0 THEN Len(sent) ELSE @]
      /\ UNCHANGED <<sent, stored, lastRead, latestRead, archived, request>>

\* ConversationConsumer.message_created
Receive(p) ==
  /\ page[p].pc \in {"joined", "online"} /\ Idle(p)
  /\ page[p].inbox # <<>>
  /\ LET m == Head(page[p].inbox)
     IN  page' = [page EXCEPT ![p].inbox = Tail(@), ![p].shown = @ \cup {m},
                    ![p].marking = IF sent[m].by = Reader[p] THEN "no" ELSE "due"]
  /\ UNCHANGED <<sent, stored, lastRead, latestRead, archived, request>>

\* The socket closes; the page does not open another.
Disconnect(p) ==
  /\ page[p].pc \in {"joined", "online"}
  /\ page' = [page EXCEPT ![p] = Offline(page[p])]
  /\ UNCHANGED <<sent, stored, lastRead, latestRead, archived, request>>

\* archive_conversation_for_user, which locks both rows
Archive(u) ==
  /\ ~IsHeld(u) /\ ~IsHeld(Conversation)
  /\ archived' = [archived EXCEPT ![u] = IF @ = 0 THEN Len(sent) + 1 ELSE @]
  /\ UNCHANGED <<sent, stored, lastRead, latestRead, request, page>>

\* unarchive_conversation_for_user, and contacting the seller again
Unarchive(u) ==
  /\ ~IsHeld(u)
  /\ archived' = [archived EXCEPT ![u] = 0]
  /\ UNCHANGED <<sent, stored, lastRead, latestRead, request, page>>

RequestStep(r) ==
  \/ StoreText(r) \/ WakeByText(r) \/ WakeByFile(r) \/ ReadClock(r)
  \/ SaveConversation(r) \/ MarkSender(r) \/ AnnounceText(r)
  \/ AnnounceFile(r) \/ CommitFile(r)
  \/ Deadlock(r)

ServerStep(p) == StartMark(p) \/ WriteMark(p) \/ CatchUp(p) \/ Receive(p)

PageStep(p) == OpenPage(p) \/ LoadPage(p) \/ JoinGroup(p) \/ Disconnect(p)

Origins == {{}} \cup {{p} : p \in Pages}

Next ==
  \/ \E u \in Users, from \in Origins, r \in Requests :
       SendText(u, from, r) \/ SendFile(u, from, r)
  \/ \E r \in Requests : RequestStep(r) \/ Crash(r)
  \/ \E p \in Pages : ServerStep(p) \/ PageStep(p)
  \/ \E u \in Users : Archive(u) \/ Unarchive(u)

\* The server goes on with what it has started, and handles what reaches the
\* socket of a page.
Fairness ==
  /\ \A r \in Requests : WF_vars(RequestStep(r))
  /\ \A p \in Pages : WF_vars(ServerStep(p))

Spec == Init /\ [][Next]_vars /\ Fairness

(***************************************************************************)
(* Properties.                                                             *)
(***************************************************************************)
Texts == {m \in 1..Len(sent) : sent[m].kind = "TEXT"}

Lost == {request[r].message : r \in {q \in Requests : request[q].pc = "lost"}}

\* Messages whose sender is not done with them, or was stopped on the way.
UnderWay == {request[r].message : r \in Requests}

\* The catch-up of a page had as many earlier messages to return as it may.
BeyondLimit(p, m) ==
  Cardinality({n \in page[p].shown : page[p].since < n /\ n < m}) >= CatchUpLimit

\* "ao reconectar ... o servidor devolve messages.catchup com as mensagens
\* perdidas desde esse id (máximo 50)" (src/PROJECT_CONTEXT.md:998): a page
\* that is online misses no text that is later than what it displayed when
\* its socket opened, whatever was sent between loading the page, joining the
\* group and catching up, but for those whose announcement the channel layer
\* lost and those that came after the limit of the catch-up; and no page
\* shows a text that is not in the conversation.
TextsReachThePage ==
  \A p \in Pages :
    /\ page[p].pc = "online" =>
         \A m \in (Texts \cap stored) \ UnderWay :
           m > page[p].since =>
             \/ m \in page[p].shown \cup ToSet(page[p].inbox)
             \/ m \in page[p].unheard \/ BeyondLimit(p, m)
    /\ page[p].shown \cap Texts \subseteq stored

\* What the other sent and an online page displays is read at some time, also
\* what came in between the mark of the view and its query and while other
\* pages and the own messages of the reader mark, unless its announcement was
\* lost or its sender stopped before it.  (That it stays read is not claimed:
\* MarkSender may set a later mark back.)
ShownIsRead ==
  \A p \in Pages : \A m \in Messages :
    (m \in page[p].shown /\ sent[m].by # Reader[p] /\ page[p].pc = "online")
      ~> \/ latestRead[Reader[p]] >= m
         \/ page[p].pc # "online" \/ m \in Lost \/ m \in page[p].unheard

\* "quando uma mensagem nova chega a uma conversa arquivada, a conversa volta
\* para Ativas" (src/PROJECT_CONTEXT.md:990): a conversation is archived only
\* if it was after every message that has arrived in it.
NewMessageUnarchives ==
  \A u \in Users : archived[u] # 0 =>
    \A m \in stored \ UnderWay : sent[m].by # u => m < archived[u]
=============================================================================
