---------------------------- MODULE Notifications ----------------------------
(***************************************************************************)
(* In-app notifications of one user: the handlers that change the          *)
(* notifications table and tell the user's open streams                    *)
(* (internal/handlers/notifications.go, AdminSendTestNotification), the    *)
(* streams themselves (SSE and WebSocket differ only in their framing) and *)
(* the hub between them (module Hub).                                      *)
(*                                                                         *)
(* A handler publishes in steps: it changes a row, takes a snapshot of the *)
(* subscribers, sends to each of them outside the lock, counts the unread  *)
(* rows, and publishes the count the same way.                             *)
(***************************************************************************)
EXTENDS Hub, Integers, FiniteSets

CONSTANTS
  Notes,       \* notifications that may be created
  Publishers,  \* request goroutines that change notifications
  InApp,       \* what the user's in_app_enabled preference may be
  DBMayFail    \* whether a query may return an error

ASSUME NotificationsAssumption ==
  IsFiniteSet(Notes) /\ InApp \subseteq BOOLEAN /\ DBMayFail \in BOOLEAN

VARIABLES
  row,      \* a notification: "none", "unread", "read", "deleted"
  pub,      \* the publishers
  stream,   \* the stream goroutines
  seen,     \* notifications written to the client of a stream
  shown,    \* the unread count its client shows, NoCount before the first
  \* history
  told,     \* the streams that were subscribed when a row was inserted
  answered, \* notifications answered with 201, after the push fan-out began
  quiet,    \* the last handler that changed the rows started with no other
            \* at work, tells the streams, and its count does not fail
  lost      \* streams that missed an event: their buffer was full, or the
            \* publisher panicked

table     == <<row, told, answered, quiet>>
clients   == <<seen, shown>>
vars      == <<hubVars, table, pub, stream, clients, lost>>

NoCount  == -1
Note(n)  == [type |-> "notification", note |-> n]
Count(c) == [type |-> "unread_count", count |-> c]

Idle     == [pc |-> "idle"]
Unread   == { n \in Notes : row[n] = "unread" }

Init ==
  /\ HubInit
  /\ row = [n \in Notes |-> "none"]
  /\ pub = [p \in Publishers |-> Idle]
  /\ stream = [s \in Streams |-> [pc |-> "new"]]
  /\ seen = [s \in Streams |-> {}]
  /\ shown = [s \in Streams |-> NoCount]
  /\ told = [n \in Notes |-> {}]
  /\ answered = {}
  /\ quiet = TRUE
  /\ lost = {}

-----------------------------------------------------------------------------
(***************************************************************************)
(* Publishers.  A publisher that works has a note to answer for, or is one *)
(* of the handlers that only change the count.                             *)
(***************************************************************************)

PubStep(p, new)  == pub' = [pub EXCEPT ![p] = new]
Alone(p)         == \A q \in Publishers \ {p} : pub[q] = Idle
Counting(answer) == [pc |-> "count", answer |-> answer]
Pushing(answer)  == IF answer = {} THEN Idle
                    ELSE [pc |-> "push", answer |-> answer]

\* ServiceNotify, SelfNotify and AdminSendTestNotification, up to the insert.
\* A user who muted the type, or disabled every channel, gets no row; one
\* who disabled the in-app channel gets no event.
Notify(p, n, inApp) ==
  /\ pub[p] = Idle
  /\ row[n] = "none"
  /\ row' = [row EXCEPT ![n] = "unread"]
  /\ told' = [told EXCEPT ![n] = IF inApp THEN subs ELSE {}]
  /\ quiet' = (inApp /\ Alone(p))
  /\ PubStep(p, IF inApp
                THEN [pc |-> "snapshot", evt |-> Note(n), answer |-> {n}]
                ELSE Pushing({n}))
  /\ UNCHANGED <<hubVars, answered, stream, clients, lost>>

\* MarkRead and DeleteNotification find a row or answer 404; MarkAllRead
\* publishes in any case, also after an update that failed.
ChangeRows(p, notes, new) ==
  /\ pub[p] = Idle
  /\ row' = [n \in Notes |-> IF n \in notes THEN new ELSE row[n]]
  /\ quiet' = Alone(p)
  /\ PubStep(p, Counting({}))
  /\ UNCHANGED <<hubVars, told, answered, stream, clients, lost>>

MarkRead(p, n) == row[n] = "unread" /\ ChangeRows(p, {n}, "read")
MarkAllRead(p) == \/ ChangeRows(p, Unread, "read")
                  \/ DBMayFail /\ ChangeRows(p, {}, "read")
DeleteNotification(p, n) ==
  row[n] \in {"unread", "read"} /\ ChangeRows(p, {n}, "deleted")

\* publishUnread and its copies: the count is a query of its own, and is not
\* published when that fails.
UnreadCount(p) ==
  /\ pub[p].pc = "count"
  /\ LET answer == pub[p].answer IN
       \/ /\ PubStep(p, [pc |-> "snapshot", answer |-> answer,
                         evt |-> Count(Cardinality(Unread))])
          /\ UNCHANGED quiet
       \/ /\ DBMayFail
          /\ PubStep(p, Pushing(answer))
          /\ quiet' = FALSE
  /\ UNCHANGED <<hubVars, row, told, answered, stream, clients, lost>>

\* PublishExcept under the read lock.
Snapshot(p) ==
  /\ pub[p].pc = "snapshot"
  /\ PubStep(p, [pc |-> "send", evt |-> pub[p].evt, answer |-> pub[p].answer,
                 targets |-> subs])
  /\ UNCHANGED <<hubVars, table, stream, clients, lost>>

\* Mutant: a send that waits for room in the buffer.
SendToBlocks(p, s) ==
  /\ pub[p].pc = "send"
  /\ s \in pub[p].targets
  /\ s \in open
  /\ ~Full(s)
  /\ Offer(s, pub[p].evt)
  /\ PubStep(p, [pub[p] EXCEPT !.targets = @ \ {s}])
  /\ UNCHANGED <<table, stream, clients, lost>>

\* Mutant: an event that found room is offered again.
SendToAgain(p, s) ==
  /\ pub[p].pc = "send"
  /\ s \in pub[p].targets
  /\ s \in open
  /\ Offer(s, pub[p].evt)
  /\ lost' = IF Full(s) THEN lost \cup {s} ELSE lost
  /\ PubStep(p, IF Full(s) THEN [pub[p] EXCEPT !.targets = @ \ {s}] ELSE pub[p])
  /\ UNCHANGED <<table, stream, clients>>

SendTo(p, s) ==
  /\ pub[p].pc = "send"
  /\ s \in pub[p].targets
  /\ s \in open
  /\ Offer(s, pub[p].evt)
  /\ lost' = IF Full(s) THEN lost \cup {s} ELSE lost
  /\ PubStep(p, [pub[p] EXCEPT !.targets = @ \ {s}])
  /\ UNCHANGED <<table, stream, clients>>

\* The channel is closed: the handler panics, net/http drops the connection,
\* and nothing after the send is done.
SendPanics(p, s) ==
  /\ pub[p].pc = "send"
  /\ s \in pub[p].targets
  /\ s \notin open
  /\ PubStep(p, [pc |-> "panicked"])
  /\ lost' = lost \cup subs
  /\ UNCHANGED <<hubVars, table, stream, clients>>

\* Mutants: the loop over the subscribers ends early; a new notification is
\* not followed by a count.
PublishedEarly(p) ==
  /\ pub[p].pc = "send"
  /\ PubStep(p, IF pub[p].evt.type = "notification"
                THEN Counting(pub[p].answer) ELSE Pushing(pub[p].answer))
  /\ UNCHANGED <<hubVars, table, stream, clients, lost>>

PublishedWithoutCount(p) ==
  /\ pub[p].pc = "send"
  /\ pub[p].targets = {}
  /\ PubStep(p, Pushing(pub[p].answer))
  /\ UNCHANGED <<hubVars, table, stream, clients, lost>>

Published(p) ==
  /\ pub[p].pc = "send"
  /\ pub[p].targets = {}
  /\ PubStep(p, IF pub[p].evt.type = "notification"
                THEN Counting(pub[p].answer) ELSE Pushing(pub[p].answer))
  /\ UNCHANGED <<hubVars, table, stream, clients, lost>>

\* Dispatcher.Send starts the push goroutine, and the handler answers.
Answer(p) ==
  /\ pub[p].pc = "push"
  /\ answered' = answered \cup pub[p].answer
  /\ PubStep(p, Idle)
  /\ UNCHANGED <<hubVars, row, told, quiet, stream, clients, lost>>

\* The connection is gone, and the caller free to send the next request.
AfterPanic(p) ==
  /\ pub[p].pc = "panicked"
  /\ PubStep(p, Idle)
  /\ UNCHANGED <<hubVars, table, stream, clients, lost>>

-----------------------------------------------------------------------------
(***************************************************************************)
(* Streams.                                                                *)
(***************************************************************************)

StreamStep(s, new) == stream' = [stream EXCEPT ![s] = new]

Open(s) ==
  /\ stream[s].pc = "new"
  /\ Subscribe(s)
  /\ StreamStep(s, [pc |-> "hello"])
  /\ UNCHANGED <<table, pub, clients, lost>>

\* The initial count, between the subscription and the first event.
ReadFirstCount(s) ==
  /\ stream[s].pc = "hello"
  /\ StreamStep(s, [pc |-> "first", count |-> Cardinality(Unread)])
  /\ UNCHANGED <<hubVars, table, pub, clients, lost>>

FirstCountFails(s) ==
  /\ DBMayFail
  /\ stream[s].pc = "hello"
  /\ StreamStep(s, [pc |-> "loop"])
  /\ UNCHANGED <<hubVars, table, pub, clients, lost>>

WriteFirstCount(s) ==
  /\ stream[s].pc = "first"
  /\ shown' = [shown EXCEPT ![s] = stream[s].count]
  /\ StreamStep(s, [pc |-> "loop"])
  /\ UNCHANGED <<hubVars, table, pub, seen, lost>>

Relay(s) ==
  /\ stream[s].pc = "loop"
  /\ Receive(s)
  /\ LET evt == Head(chan[s]) IN
       IF evt.type = "notification"
       THEN seen' = [seen EXCEPT ![s] = @ \cup {evt.note}] /\ UNCHANGED shown
       ELSE shown' = [shown EXCEPT ![s] = evt.count] /\ UNCHANGED seen
  /\ UNCHANGED <<table, pub, stream, lost>>

\* The client left, or a write or a ping to it failed.
Leave(s) ==
  /\ stream[s].pc \in {"hello", "first", "loop"}
  /\ Unsubscribe(s)
  /\ StreamStep(s, [pc |-> "leaving"])
  /\ UNCHANGED <<table, pub, clients, lost>>

\* Nobody reads what is left in the channel, and nobody is told any more.
Gone(s) ==
  /\ stream[s].pc = "leaving"
  /\ Close(s)
  /\ StreamStep(s, [pc |-> "gone"])
  /\ seen' = [seen EXCEPT ![s] = {}]
  /\ shown' = [shown EXCEPT ![s] = NoCount]
  /\ told' = [n \in Notes |-> told[n] \ {s}]
  /\ lost' = lost \ {s}
  /\ UNCHANGED <<row, answered, quiet, pub>>

-----------------------------------------------------------------------------
PublisherNext(p) ==
  \/ UnreadCount(p) \/ Snapshot(p) \/ Published(p) \/ Answer(p)
  \/ AfterPanic(p)
  \/ \E s \in Streams : SendTo(p, s) \/ SendPanics(p, s)

StreamNext(s) == \/ ReadFirstCount(s) \/ FirstCountFails(s)
                 \/ WriteFirstCount(s) \/ Relay(s)

Next ==
  \/ \E p \in Publishers :
       \/ \E n \in Notes : \/ MarkRead(p, n) \/ DeleteNotification(p, n)
                           \/ \E inApp \in InApp : Notify(p, n, inApp)
       \/ MarkAllRead(p)
       \/ PublisherNext(p)
  \/ \E s \in Streams : Open(s) \/ StreamNext(s) \/ Leave(s) \/ Gone(s)

Spec == Init /\ [][Next]_vars

\* Handlers and deferred calls run on; a stream need never read its channel.
FairSpec == /\ Spec
            /\ \A p \in Publishers : WF_vars(PublisherNext(p))
            /\ \A s \in Streams : WF_vars(Gone(s))

-----------------------------------------------------------------------------
Events  == { Note(n) : n \in Notes }
           \cup { Count(c) : c \in 0 .. Cardinality(Notes) }
Answers == { {} } \cup { {n} : n \in Notes }
PubType ==
  {Idle, [pc |-> "panicked"]}
  \cup [pc : {"count"}, answer : Answers]
  \cup [pc : {"push"}, answer : Answers \ {{}}]
  \cup [pc : {"snapshot"}, evt : Events, answer : Answers]
  \cup [pc : {"send"}, evt : Events, answer : Answers, targets : SUBSET Streams]
StreamType ==
  [pc : {"new", "hello", "loop", "leaving", "gone"}]
  \cup [pc : {"first"}, count : 0 .. Cardinality(Notes)]

\* Types, with the bound on the buffers.
TypeOK ==
  /\ subs \subseteq Streams
  /\ open \subseteq Streams
  /\ chan \in [Streams -> Seq(Events)]
  /\ \A s \in Streams : Len(chan[s]) <= Buffer
  /\ row \in [Notes -> {"none", "unread", "read", "deleted"}]
  /\ pub \in [Publishers -> PubType]
  /\ stream \in [Streams -> StreamType]
  /\ seen \in [Streams -> SUBSET Notes]
  /\ shown \in [Streams -> NoCount .. Cardinality(Notes)]
  /\ told \in [Notes -> SUBSET Streams]
  /\ answered \subseteq Notes
  /\ quiet \in BOOLEAN
  /\ lost \subseteq Streams

\* A publisher that looks now finds no closed channel: only one with an older
\* snapshot can meet it.
SubscribersAreOpen == subs \subseteq open

\* A notification that was answered for is in the hands of every stream that
\* was subscribed when its row was inserted, unless the stream has left or
\* has lost an event.
AnsweredReachesStreams ==
  \A n \in answered : \A s \in (told[n] \cap subs) \ lost :
    \/ n \in seen[s]
    \/ \E i \in DOMAIN chan[s] : chan[s][i] = Note(n)

\* A stream is given a notification once at most, also one that subscribes
\* between the insert and the publication, while other handlers publish.
NotifiedOnce ==
  \A s \in Streams, n \in Notes :
    \A i \in DOMAIN chan[s] : chan[s][i] = Note(n) =>
      /\ n \notin seen[s]
      /\ \A j \in DOMAIN chan[s] : chan[s][j] = Note(n) => i = j

\* Where no two handlers overlapped last, a stream that has handled its events,
\* lost none and shows a number shows that of the unread notifications: the
\* subscription comes before the first count, and a count follows every change.
QuietCountIsRight ==
  quiet /\ (\A p \in Publishers : pub[p] = Idle) =>
    \A s \in subs \ lost :
      stream[s].pc = "loop" /\ chan[s] = <<>> =>
        shown[s] \in {NoCount, Cardinality(Unread)}

\* "so a slow client doesn't block other subscribers or the publisher"
\* (hub.go:41): a handler comes to its end though no stream reads.
PublishersFinish ==
  \A p \in Publishers : pub[p] # Idle ~> pub[p] = Idle

\* "It inserts the notification, fans it out to SSE + push, and returns the
\* row" (notifications.go:43): a client that closes its stream cannot keep
\* the others from it.
NoPanic == \A p \in Publishers : pub[p].pc # "panicked"
=============================================================================
