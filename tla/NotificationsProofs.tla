------------------------- MODULE NotificationsProofs -------------------------
(***************************************************************************)
(* What holds of the notifications of a user for any number of them, of    *)
(* handlers and of streams, and any size of the buffers.                   *)
(***************************************************************************)
EXTENDS Notifications, FiniteSetTheorems, TLAPS

USE DEF vars, table, clients, hubVars

-----------------------------------------------------------------------------
(***************************************************************************)
(* Data: counts, events and buffers.                                       *)
(***************************************************************************)

Counts == 0 .. Cardinality(Notes)

LEMMA UnreadIsACount ==
  /\ Cardinality(Notes) \in Nat
  /\ Cardinality(Unread) \in Counts
<1>1. IsFiniteSet(Notes) /\ Unread \in SUBSET Notes
  BY NotificationsAssumption DEF Unread
<1>2. Cardinality(Notes) \in Nat /\ Cardinality(Unread) \in Nat
  BY <1>1, FS_Subset, FS_CardinalityType
<1>3. Cardinality(Unread) <= Cardinality(Notes)
  BY <1>1, FS_Subset
<1> QED
  BY <1>2, <1>3 DEF Counts

LEMMA EventFields ==
  /\ \A n \in Notes : /\ Note(n) \in Events
                      /\ Note(n).type = "notification" /\ Note(n).note = n
  /\ \A c \in Counts : /\ Count(c) \in Events
                       /\ Count(c).type = "unread_count" /\ Count(c).count = c
  /\ \A e \in Events :
       \/ e.type = "notification" /\ e.note \in Notes /\ e = Note(e.note)
       \/ e.type = "unread_count" /\ e.count \in Counts /\ e = Count(e.count)
<1>1. ASSUME NEW n \in Notes
      PROVE  /\ Note(n) \in Events
             /\ Note(n).type = "notification" /\ Note(n).note = n
  BY DEF Events, Note
<1>2. ASSUME NEW c \in Counts
      PROVE  /\ Count(c) \in Events
             /\ Count(c).type = "unread_count" /\ Count(c).count = c
  BY DEF Events, Counts, Count
<1>3. ASSUME NEW e \in Events
      PROVE  \/ e.type = "notification" /\ e.note \in Notes /\ e = Note(e.note)
             \/ e.type = "unread_count" /\ e.count \in Counts /\ e = Count(e.count)
  <2>1. (\E n \in Notes : e = Note(n)) \/ (\E c \in Counts : e = Count(c))
    BY DEF Events, Counts
  <2> QED
    BY <1>1, <1>2, <2>1
<1> QED
  BY <1>1, <1>2, <1>3

\* A send to a buffer with room, and a receipt.
LEMMA AppendFacts ==
  ASSUME NEW S, NEW q \in Seq(S), NEW e \in S
  PROVE  /\ Append(q, e) \in Seq(S)
         /\ Len(Append(q, e)) = Len(q) + 1
         /\ Len(q) \in Nat
         /\ DOMAIN Append(q, e) = 1 .. Len(q) + 1
         /\ DOMAIN q = 1 .. Len(q)
         /\ \A i \in DOMAIN q : Append(q, e)[i] = q[i]
         /\ Append(q, e)[Len(q) + 1] = e
OBVIOUS

LEMMA TailFacts ==
  ASSUME NEW S, NEW q \in Seq(S), q # <<>>
  PROVE  /\ Tail(q) \in Seq(S)
         /\ Head(q) \in S /\ Head(q) = q[1]
         /\ Len(Tail(q)) = Len(q) - 1
         /\ Len(q) \in Nat
         /\ DOMAIN q = 1 .. Len(q)
         /\ DOMAIN Tail(q) = 1 .. Len(q) - 1
         /\ \A i \in DOMAIN Tail(q) : Tail(q)[i] = q[i + 1]
OBVIOUS

-----------------------------------------------------------------------------
(***************************************************************************)
(* Types.                                                                  *)
(***************************************************************************)

LEMMA PubFields ==
  ASSUME TypeOK, NEW p \in Publishers
  PROVE  /\ pub[p].pc \in {"idle", "panicked", "count", "push", "snapshot",
                           "send"}
         /\ pub[p].pc = "idle" <=> pub[p] = Idle
         /\ pub[p].pc \in {"count", "push", "snapshot", "send"} =>
              pub[p].answer \in Answers
         /\ pub[p].pc = "push" => pub[p].answer # {}
         /\ pub[p].pc \in {"snapshot", "send"} => pub[p].evt \in Events
         /\ pub[p].pc = "send" => pub[p].targets \subseteq Streams
<1>1. pub[p] \in PubType
  BY DEF TypeOK
<1> QED
  BY <1>1 DEF PubType, Idle

LEMMA StreamFields ==
  ASSUME TypeOK, NEW s \in Streams
  PROVE  /\ stream[s].pc \in {"new", "hello", "first", "loop", "leaving", "gone"}
         /\ stream[s].pc = "first" => stream[s].count \in Counts
<1>1. stream[s] \in StreamType
  BY DEF TypeOK
<1> QED
  BY <1>1 DEF StreamType, Counts

\* What a publisher may become.
LEMMA PubStates ==
  ASSUME NEW answer \in Answers, NEW evt \in Events,
         NEW targets \in SUBSET Streams
  PROVE  /\ Idle \in PubType
         /\ [pc |-> "panicked"] \in PubType
         /\ Counting(answer) \in PubType
         /\ Pushing(answer) \in PubType
         /\ [pc |-> "snapshot", evt |-> evt, answer |-> answer] \in PubType
         /\ [pc |-> "send", evt |-> evt, answer |-> answer,
             targets |-> targets] \in PubType
BY DEF PubType, Counting, Pushing, Idle

LEMMA PubStepOK ==
  ASSUME TypeOK, NEW p \in Publishers, NEW new \in PubType, PubStep(p, new)
  PROVE  pub' \in [Publishers -> PubType]
BY DEF TypeOK, PubStep

LEMMA StreamStepOK ==
  ASSUME TypeOK, NEW s \in Streams, NEW new \in StreamType, StreamStep(s, new)
  PROVE  stream' \in [Streams -> StreamType]
BY DEF TypeOK, StreamStep

LEMMA InitTypes == Init => TypeOK
<1> SUFFICES ASSUME Init PROVE TypeOK
  OBVIOUS
<1>1. chan \in [Streams -> Seq(Events)] /\ \A s \in Streams : Len(chan[s]) <= Buffer
  BY HubAssumption DEF Init, HubInit
<1>2. stream \in [Streams -> StreamType]
  BY DEF Init, StreamType
<1>3. Idle \in PubType
  BY DEF PubType
<1>4. NoCount \in NoCount .. Cardinality(Notes)
  BY UnreadIsACount DEF NoCount
<1> QED
  BY <1>1, <1>2, <1>3, <1>4 DEF Init, HubInit, TypeOK

LEMMA PublisherTypes ==
  ASSUME TypeOK, NEW p \in Publishers,
         \/ PublisherNext(p)
         \/ \E n \in Notes, inApp \in InApp : Notify(p, n, inApp)
         \/ \E notes \in SUBSET Notes, new \in {"read", "deleted"} :
              ChangeRows(p, notes, new)
  PROVE  TypeOK'
<1> DEFINE answer == pub[p].answer
<1>1. ASSUME NEW n \in Notes, NEW inApp \in InApp, Notify(p, n, inApp)
      PROVE  TypeOK'
  <2>1. {n} \in Answers /\ Note(n) \in Events /\ inApp \in BOOLEAN
    BY EventFields, NotificationsAssumption DEF Answers
  <2>2. /\ [pc |-> "snapshot", evt |-> Note(n), answer |-> {n}] \in PubType
        /\ Pushing({n}) \in PubType
    BY <2>1, PubStates
  <2>3. pub' \in [Publishers -> PubType]
    BY <1>1, <2>1, <2>2, PubStepOK DEF Notify
  <2>4. quiet' \in BOOLEAN
    BY <1>1, <2>1 DEF Notify
  <2> QED
    BY <1>1, <2>3, <2>4 DEF Notify, TypeOK
<1>2. ASSUME NEW notes \in SUBSET Notes, NEW new \in {"read", "deleted"},
             ChangeRows(p, notes, new)
      PROVE  TypeOK'
  <2>1. Counting({}) \in PubType
    BY DEF PubType, Counting, Answers
  <2>2. pub' \in [Publishers -> PubType]
    BY <1>2, <2>1, PubStepOK DEF ChangeRows
  <2>3. quiet' \in BOOLEAN
    BY <1>2 DEF ChangeRows, Alone
  <2> QED
    BY <1>2, <2>2, <2>3 DEF ChangeRows, TypeOK
<1>3. CASE UnreadCount(p)
  <2>1. answer \in Answers /\ Count(Cardinality(Unread)) \in Events
    BY <1>3, PubFields, EventFields, UnreadIsACount DEF UnreadCount
  <2>2. /\ [pc |-> "snapshot", evt |-> Count(Cardinality(Unread)),
            answer |-> answer] \in PubType
        /\ Pushing(answer) \in PubType
    BY <2>1, PubStates
  <2>3. [pc |-> "snapshot", answer |-> answer,
         evt |-> Count(Cardinality(Unread))]
          = [pc |-> "snapshot", evt |-> Count(Cardinality(Unread)),
             answer |-> answer]
    OBVIOUS
  <2>4. pub' \in [Publishers -> PubType]
    BY <1>3, <2>2, <2>3, PubStepOK DEF UnreadCount
  <2> QED
    BY <1>3, <2>4 DEF UnreadCount, TypeOK
<1>4. CASE Snapshot(p)
  <2>1. answer \in Answers /\ pub[p].evt \in Events /\ subs \in SUBSET Streams
    BY <1>4, PubFields DEF Snapshot, TypeOK
  <2>2. pub' \in [Publishers -> PubType]
    BY <1>4, <2>1, PubStates, PubStepOK DEF Snapshot
  <2> QED
    BY <1>4, <2>2 DEF Snapshot, TypeOK
<1>5. ASSUME NEW s \in Streams, SendTo(p, s)
      PROVE  TypeOK'
  <2>1. /\ answer \in Answers /\ pub[p].evt \in Events
        /\ pub[p].targets \subseteq Streams
    BY <1>5, PubFields DEF SendTo
  <2>2. [pub[p] EXCEPT !.targets = @ \ {s}] \in PubType
    <3>1. pub[p] \in [pc : {"send"}, evt : Events, answer : Answers,
                      targets : SUBSET Streams]
      BY <1>5 DEF SendTo, TypeOK, PubType, Idle
    <3>2. [pub[p] EXCEPT !.targets = @ \ {s}]
            \in [pc : {"send"}, evt : Events, answer : Answers,
                 targets : SUBSET Streams]
      BY <3>1
    <3> QED
      BY <3>2 DEF PubType
  <2>3. pub' \in [Publishers -> PubType]
    BY <1>5, <2>2, PubStepOK DEF SendTo
  <2>4. /\ chan' \in [Streams -> Seq(Events)]
        /\ \A t \in Streams : Len(chan'[t]) <= Buffer
    <3>1. CASE Full(s)
      BY <1>5, <3>1 DEF SendTo, Offer, TypeOK
    <3>2. CASE ~Full(s)
      <4>1. chan' = [chan EXCEPT ![s] = Append(chan[s], pub[p].evt)]
        BY <1>5, <3>2 DEF SendTo, Offer
      <4>2. /\ Append(chan[s], pub[p].evt) \in Seq(Events)
            /\ Len(Append(chan[s], pub[p].evt)) = Len(chan[s]) + 1
            /\ Len(chan[s]) \in Nat
        BY <2>1, AppendFacts DEF TypeOK
      <4> QED
        BY <3>2, <4>1, <4>2, HubAssumption DEF TypeOK, Full
    <3> QED
      BY <3>1, <3>2
  <2>5. lost' \subseteq Streams
    BY <1>5 DEF SendTo, TypeOK
  <2> QED
    BY <1>5, <2>3, <2>4, <2>5 DEF SendTo, Offer, TypeOK
<1>6. ASSUME NEW s \in Streams, SendPanics(p, s)
      PROVE  TypeOK'
  <2>1. [pc |-> "panicked"] \in PubType
    BY DEF PubType
  <2>2. pub' \in [Publishers -> PubType]
    BY <1>6, <2>1, PubStepOK DEF SendPanics
  <2> QED
    BY <1>6, <2>2 DEF SendPanics, TypeOK
<1>7. CASE Published(p)
  <2>1. answer \in Answers
    BY <1>7, PubFields DEF Published
  <2>2. Counting(answer) \in PubType /\ Pushing(answer) \in PubType
    BY <2>1 DEF PubType, Counting, Pushing, Idle
  <2>3. pub' \in [Publishers -> PubType]
    BY <1>7, <2>2, PubStepOK DEF Published
  <2> QED
    BY <1>7, <2>3 DEF Published, TypeOK
<1>8. CASE Answer(p) \/ AfterPanic(p)
  <2>1. Idle \in PubType
    BY DEF PubType
  <2>2. pub' \in [Publishers -> PubType]
    BY <1>8, <2>1, PubStepOK DEF Answer, AfterPanic
  <2>3. pub[p].pc = "push" => pub[p].answer \subseteq Notes
    BY PubFields DEF Answers
  <2> QED
    BY <1>8, <2>2, <2>3 DEF Answer, AfterPanic, TypeOK
<1> QED
  BY <1>1, <1>2, <1>3, <1>4, <1>5, <1>6, <1>7, <1>8 DEF PublisherNext

LEMMA StreamTypes ==
  ASSUME TypeOK, NEW s \in Streams,
         Open(s) \/ StreamNext(s) \/ Leave(s) \/ Gone(s)
  PROVE  TypeOK'
<1>1. CASE Open(s) \/ FirstCountFails(s) \/ Leave(s)
  <2>1. stream' \in [Streams -> StreamType]
    BY <1>1, StreamStepOK DEF Open, FirstCountFails, Leave, StreamType
  <2> QED
    BY <1>1, <2>1
       DEF Open, FirstCountFails, Leave, Subscribe, Unsubscribe, TypeOK
<1>2. CASE ReadFirstCount(s)
  <2>1. [pc |-> "first", count |-> Cardinality(Unread)] \in StreamType
    BY UnreadIsACount DEF StreamType, Counts
  <2>2. stream' \in [Streams -> StreamType]
    BY <1>2, <2>1, StreamStepOK DEF ReadFirstCount
  <2> QED
    BY <1>2, <2>2 DEF ReadFirstCount, TypeOK
<1>3. CASE WriteFirstCount(s)
  <2>1. stream' \in [Streams -> StreamType]
    BY <1>3, StreamStepOK DEF WriteFirstCount, StreamType
  <2>2. stream[s].count \in NoCount .. Cardinality(Notes)
    BY <1>3, StreamFields, UnreadIsACount DEF WriteFirstCount, Counts, NoCount
  <2> QED
    BY <1>3, <2>1, <2>2 DEF WriteFirstCount, TypeOK
<1>4. CASE Relay(s)
  <2>1. chan[s] # <<>> /\ chan[s] \in Seq(Events)
    BY <1>4 DEF Relay, Receive, TypeOK
  <2>2. /\ Tail(chan[s]) \in Seq(Events) /\ Head(chan[s]) \in Events
        /\ Len(Tail(chan[s])) = Len(chan[s]) - 1 /\ Len(chan[s]) \in Nat
    BY <2>1, TailFacts
  <2>3. /\ chan' \in [Streams -> Seq(Events)]
        /\ \A t \in Streams : Len(chan'[t]) <= Buffer
    BY <1>4, <2>2, HubAssumption DEF Relay, Receive, TypeOK
  <2>4. seen' \in [Streams -> SUBSET Notes]
    <3> DEFINE evt == Head(chan[s])
    <3>1. CASE evt.type = "notification"
      <4>1. evt.note \in Notes
        BY <2>2, <3>1, EventFields
      <4>2. seen' = [seen EXCEPT ![s] = @ \cup {evt.note}]
        BY <1>4, <3>1 DEF Relay
      <4> QED
        BY <4>1, <4>2 DEF TypeOK
    <3> QED
      BY <1>4, <3>1 DEF Relay, TypeOK
  <2>5. shown' \in [Streams -> NoCount .. Cardinality(Notes)]
    <3> DEFINE evt == Head(chan[s])
    <3>1. CASE evt.type # "notification"
      <4>1. evt.count \in NoCount .. Cardinality(Notes)
        BY <2>2, <3>1, EventFields, UnreadIsACount DEF Counts, NoCount
      <4>2. shown' = [shown EXCEPT ![s] = evt.count]
        BY <1>4, <3>1 DEF Relay
      <4> QED
        BY <4>1, <4>2 DEF TypeOK
    <3> QED
      BY <1>4, <3>1 DEF Relay, TypeOK
  <2> QED
    BY <1>4, <2>3, <2>4, <2>5 DEF Relay, Receive, TypeOK
<1>5. CASE Gone(s)
  <2>1. stream' \in [Streams -> StreamType]
    BY <1>5, StreamStepOK DEF Gone, StreamType
  <2>2. /\ chan' \in [Streams -> Seq(Events)]
        /\ \A t \in Streams : Len(chan'[t]) <= Buffer
    BY <1>5, HubAssumption DEF Gone, Close, TypeOK
  <2>3. NoCount \in NoCount .. Cardinality(Notes)
    BY UnreadIsACount DEF NoCount
  <2> QED
    BY <1>5, <2>1, <2>2, <2>3 DEF Gone, Close, TypeOK
<1> QED
  BY <1>1, <1>2, <1>3, <1>4, <1>5 DEF StreamNext

LEMMA NextIs ==
  ASSUME [Next]_vars
  PROVE  \/ UNCHANGED vars
         \/ \E p \in Publishers :
              \/ PublisherNext(p)
              \/ \E n \in Notes, inApp \in InApp : Notify(p, n, inApp)
              \/ \E notes \in SUBSET Notes, new \in {"read", "deleted"} :
                   ChangeRows(p, notes, new)
         \/ \E s \in Streams :
              Open(s) \/ StreamNext(s) \/ Leave(s) \/ Gone(s)
<1>1. Unread \in SUBSET Notes /\ \A n \in Notes : {n} \in SUBSET Notes
  BY DEF Unread
<1> QED
  BY <1>1 DEF Next, MarkRead, MarkAllRead, DeleteNotification

LEMMA NextTypes == TypeOK /\ [Next]_vars => TypeOK'
<1>1. UNCHANGED vars /\ TypeOK => TypeOK'
  BY DEF TypeOK
<1> QED
  BY <1>1, NextIs, PublisherTypes, StreamTypes

\* Every variable keeps its type, and no buffer takes more than it has room for.
THEOREM NotificationTypes == Spec => []TypeOK
BY InitTypes, NextTypes, PTL DEF Spec

-----------------------------------------------------------------------------
(***************************************************************************)
(* Streams and the hub.                                                    *)
(***************************************************************************)

\* What the phase of a stream says of the hub's map and of the channel.
Phases ==
  \A s \in Streams :
    /\ s \in subs <=> stream[s].pc \in {"hello", "first", "loop"}
    /\ s \in open <=> stream[s].pc \in {"hello", "first", "loop", "leaving"}
    /\ stream[s].pc = "new" =>
         chan[s] = <<>> /\ \A n \in Notes : s \notin told[n]
    /\ stream[s].pc \in {"new", "hello", "first"} => shown[s] = NoCount

LEMMA PublisherPhases ==
  ASSUME TypeOK, Phases, NEW p \in Publishers,
         \/ PublisherNext(p)
         \/ \E n \in Notes, inApp \in InApp : Notify(p, n, inApp)
         \/ \E notes \in SUBSET Notes, new \in {"read", "deleted"} :
              ChangeRows(p, notes, new)
  PROVE  Phases'
<1>1. subs' = subs /\ open' = open /\ stream' = stream /\ shown' = shown
  BY DEF PublisherNext, Notify, ChangeRows, UnreadCount, Snapshot, SendTo,
         Offer, SendPanics, Published, Answer, AfterPanic
<1>2. ASSUME NEW s \in Streams, stream[s].pc = "new"
      PROVE  chan'[s] = chan[s]
  <2>1. s \notin open
    BY <1>2 DEF Phases
  <2>2. ASSUME NEW t \in Streams, SendTo(p, t) PROVE chan'[s] = chan[s]
    BY <2>1, <2>2 DEF SendTo, Offer, TypeOK
  <2> QED
    BY <2>2 DEF PublisherNext, Notify, ChangeRows, UnreadCount, Snapshot,
                SendPanics, Published, Answer, AfterPanic
<1>3. ASSUME NEW s \in Streams, stream[s].pc = "new", NEW n \in Notes
      PROVE  s \notin told'[n]
  <2>1. s \notin told[n] /\ s \notin subs
    BY <1>3 DEF Phases
  <2>2. ASSUME NEW m \in Notes, NEW inApp \in InApp, Notify(p, m, inApp)
        PROVE  s \notin told'[n]
    BY <2>1, <2>2 DEF Notify, TypeOK
  <2> QED
    BY <2>1, <2>2 DEF PublisherNext, ChangeRows, UnreadCount, Snapshot, SendTo,
                      SendPanics, Published, Answer, AfterPanic
<1> QED
  BY <1>1, <1>2, <1>3 DEF Phases

LEMMA StreamPhases ==
  ASSUME TypeOK, Phases, NEW s \in Streams,
         Open(s) \/ StreamNext(s) \/ Leave(s) \/ Gone(s)
  PROVE  Phases'
<1>1. ASSUME NEW t \in Streams, t # s
      PROVE  /\ t \in subs' <=> t \in subs
             /\ t \in open' <=> t \in open
             /\ stream'[t] = stream[t] /\ chan'[t] = chan[t]
             /\ shown'[t] = shown[t]
             /\ \A n \in Notes : t \in told'[n] => t \in told[n]
  BY <1>1 DEF TypeOK, StreamNext, StreamStep, Open, Subscribe, ReadFirstCount,
              FirstCountFails, WriteFirstCount, Relay, Receive, Leave,
              Unsubscribe, Gone, Close
<1>2. /\ s \in subs' <=> stream'[s].pc \in {"hello", "first", "loop"}
      /\ s \in open' <=> stream'[s].pc \in {"hello", "first", "loop", "leaving"}
      /\ stream'[s].pc # "new"
      /\ stream'[s].pc \in {"hello", "first"} => shown'[s] = NoCount
  <2>1. stream \in [Streams -> StreamType] /\ subs \subseteq Streams
        /\ shown \in [Streams -> NoCount .. Cardinality(Notes)]
    BY DEF TypeOK
  <2>2. /\ s \in subs <=> stream[s].pc \in {"hello", "first", "loop"}
        /\ s \in open <=> stream[s].pc \in {"hello", "first", "loop", "leaving"}
        /\ stream[s].pc \in {"new", "hello", "first"} => shown[s] = NoCount
    BY DEF Phases
  <2>3. CASE Open(s)
    BY <2>1, <2>2, <2>3 DEF Open, Subscribe, StreamStep
  <2>4. CASE StreamNext(s)
    BY <2>1, <2>2, <2>4 DEF StreamNext, ReadFirstCount, FirstCountFails,
         WriteFirstCount, Relay, Receive, StreamStep
  <2>5. CASE Leave(s)
    BY <2>1, <2>2, <2>5 DEF Leave, Unsubscribe, StreamStep
  <2>6. CASE Gone(s)
    BY <2>1, <2>2, <2>6 DEF Gone, Close, StreamStep
  <2> QED
    BY <2>3, <2>4, <2>5, <2>6
<1>3. ASSUME NEW t \in Streams
      PROVE  (/\ t \in subs <=> stream[t].pc \in {"hello", "first", "loop"}
              /\ t \in open <=> stream[t].pc \in {"hello", "first", "loop", "leaving"}
              /\ stream[t].pc = "new" =>
                   chan[t] = <<>> /\ \A n \in Notes : t \notin told[n]
              /\ stream[t].pc \in {"new", "hello", "first"} => shown[t] = NoCount)'
  <2>1. CASE t = s
    BY <1>2, <2>1
  <2>2. CASE t # s
    BY <1>1, <2>2 DEF Phases
  <2> QED
    BY <2>1, <2>2
<1> QED
  BY <1>3 DEF Phases

LEMMA NextPhases == TypeOK /\ Phases /\ [Next]_vars => Phases'
<1>1. UNCHANGED vars /\ Phases => Phases'
  BY DEF Phases
<1> QED
  BY <1>1, NextIs, PublisherPhases, StreamPhases

LEMMA InitPhases == Init => Phases
<1> SUFFICES ASSUME Init, NEW s \in Streams
             PROVE  /\ stream[s].pc = "new" /\ s \notin subs /\ s \notin open
                    /\ chan[s] = <<>> /\ shown[s] = NoCount
                    /\ \A n \in Notes : s \notin told[n]
  BY DEF Phases
<1> QED
  BY DEF Init, HubInit

LEMMA AlwaysPhases == Spec => [](TypeOK /\ Phases)
BY InitTypes, NextTypes, InitPhases, NextPhases, PTL DEF Spec

\* A subscriber's channel is open: a stream leaves the map before it closes.
THEOREM SubscribersCanReceive == Spec => []SubscribersAreOpen
<1>1. TypeOK /\ Phases => SubscribersAreOpen
  BY DEF TypeOK, Phases, SubscribersAreOpen
<1> QED
  BY <1>1, AlwaysPhases, PTL

-----------------------------------------------------------------------------
(***************************************************************************)
(* A notification that is answered for reaches the streams it was meant    *)
(* for.  Until it is answered for, its publisher owes it: it still carries *)
(* the event to a stream, or the stream has it.                            *)
(***************************************************************************)

Owes(r, n)       == r.pc \in {"count", "push", "snapshot", "send"} /\ n \in r.answer
Carries(r, n, s) == /\ r.evt = Note(n)
                    /\ \/ r.pc = "snapshot"
                       \/ r.pc = "send" /\ s \in r.targets
Has(n, s)        == n \in seen[s] \/ \E i \in DOMAIN chan[s] : chan[s][i] = Note(n)
Meant(n, s)      == s \in told[n] /\ s \in subs /\ s \notin lost

Inserted ==
  /\ \A n \in answered : row[n] # "none"
  /\ \A p \in Publishers, n \in Notes : Owes(pub[p], n) => row[n] # "none"

Delivered ==
  \A n \in Notes, s \in Streams : Meant(n, s) =>
    /\ n \in answered => Has(n, s)
    /\ \A p \in Publishers :
         Owes(pub[p], n) /\ ~Carries(pub[p], n, s) => Has(n, s)

DeliveryInv == TypeOK /\ Phases /\ Inserted /\ Delivered

LEMMA DeliveryInit == Init => DeliveryInv
<1> SUFFICES ASSUME Init PROVE Inserted /\ Delivered
  BY InitTypes, InitPhases DEF DeliveryInv
<1>1. answered = {} /\ \A p \in Publishers : pub[p].pc = "idle"
  BY DEF Init, Idle
<1>2. \A p \in Publishers, n \in Notes : ~Owes(pub[p], n)
  BY <1>1 DEF Owes
<1> QED
  BY <1>1, <1>2 DEF Inserted, Delivered

\* A publisher goes on with what it owes, and no stream gives up what it has.
LEMMA PublisherDelivers ==
  ASSUME DeliveryInv, NEW p \in Publishers, NEW new, PubStep(p, new),
         told' = told, subs' = subs, lost \subseteq lost',
         row' = row \/ \A n \in Notes : row[n] # "none" => row'[n] # "none",
         \A n \in Notes : Owes(new, n) => Owes(pub[p], n),
         \A n \in answered' : n \in answered \/ Owes(pub[p], n),
         \A n \in Notes, s \in Streams : s \notin lost' /\ Has(n, s) => Has(n, s)',
         \A n \in Notes, s \in Streams :
           /\ Meant(n, s)' /\ Carries(pub[p], n, s) =>
                /\ Owes(new, n) => Carries(new, n, s) \/ Has(n, s)'
                /\ n \in answered' => n \in answered
  PROVE  Inserted' /\ Delivered'
<1>1. /\ pub'[p] = new
      /\ \A q \in Publishers : q # p => pub'[q] = pub[q]
  BY DEF PubStep, DeliveryInv, TypeOK
<1>2. answered \subseteq Notes
  BY DEF DeliveryInv, TypeOK
<1>3. \A n \in Notes : n \in answered' \/ Owes(new, n) => row[n] # "none"
  BY DEF DeliveryInv, Inserted
<1>4. \A n \in Notes : row[n] # "none" => row'[n] # "none"
  OBVIOUS
<1>5. Inserted'
  <2>1. answered' \subseteq Notes
    <3>1. \A n : Owes(pub[p], n) => n \in Notes
      BY PubFields DEF DeliveryInv, Owes, Answers
    <3> QED
      BY <1>2, <3>1
  <2>2. \A q \in Publishers, n \in Notes : Owes(pub'[q], n) => row'[n] # "none"
    BY <1>1, <1>3, <1>4 DEF DeliveryInv, Inserted
  <2> QED
    BY <1>3, <1>4, <2>1, <2>2 DEF Inserted
<1>6. ASSUME NEW n \in Notes, NEW s \in Streams, Meant(n, s)'
      PROVE  /\ n \in answered' => Has(n, s)'
             /\ \A q \in Publishers :
                  Owes(pub'[q], n) /\ ~Carries(pub'[q], n, s) => Has(n, s)'
  <2>1. Meant(n, s) /\ s \notin lost'
    BY <1>6 DEF Meant
  <2>2. n \in answered => Has(n, s)'
    BY <2>1 DEF DeliveryInv, Delivered
  <2>3. Owes(pub[p], n) => Has(n, s)' \/ Carries(pub[p], n, s)
    BY <2>1 DEF DeliveryInv, Delivered
  <2>4. n \in answered' => Has(n, s)'
    BY <1>6, <2>2, <2>3
  <2>5. Owes(new, n) /\ ~Carries(new, n, s) => Has(n, s)'
    BY <1>6, <2>3
  <2>6. \A q \in Publishers : q # p /\ Owes(pub[q], n) /\ ~Carries(pub[q], n, s)
                                => Has(n, s)'
    BY <2>1 DEF DeliveryInv, Delivered
  <2> QED
    BY <1>1, <2>4, <2>5, <2>6
<1> QED
  BY <1>5, <1>6 DEF Delivered

LEMMA PublisherNextDelivers ==
  ASSUME DeliveryInv, NEW p \in Publishers, PublisherNext(p)
  PROVE  Inserted' /\ Delivered'
<1> DEFINE r == pub[p]
<1>0. TypeOK
  BY DEF DeliveryInv
<1>1. \A n \in Notes : ~Owes(Idle, n) /\ ~Owes([pc |-> "panicked"], n)
  BY DEF Owes, Idle
<1>2. /\ \A n \in Notes : Owes(Pushing(r.answer), n) <=> n \in r.answer
      /\ \A n \in Notes : Owes(Counting(r.answer), n) <=> n \in r.answer
  BY DEF Owes, Pushing, Counting, Idle
<1>3. ASSUME chan' = chan, seen' = seen
      PROVE  \A n \in Notes, s \in Streams : Has(n, s) => Has(n, s)'
  BY <1>3 DEF Has
<1>4. CASE UnreadCount(p)
  <2>1. \A n \in Notes, s \in Streams : ~Carries(r, n, s)
    BY <1>4 DEF UnreadCount, Carries
  <2>2. PICK new : PubStep(p, new) /\ \A n \in Notes : Owes(new, n) => n \in r.answer
    BY <1>2, <1>4 DEF UnreadCount, Owes
  <2>3. \A n \in Notes : Owes(r, n) <=> n \in r.answer
    BY <1>4 DEF UnreadCount, Owes
  <2> QED
    BY <1>3, <1>4, <2>1, <2>2, <2>3, PublisherDelivers DEF UnreadCount
<1>5. CASE Snapshot(p)
  <2> DEFINE new == [pc |-> "send", evt |-> r.evt, answer |-> r.answer,
                     targets |-> subs]
  <2>1. PubStep(p, new) /\ r.pc = "snapshot"
    BY <1>5 DEF Snapshot
  <2>2. \A n \in Notes : Owes(new, n) <=> Owes(r, n)
    BY <2>1 DEF Owes
  <2>3. \A n \in Notes, s \in Streams :
          Meant(n, s)' /\ Carries(r, n, s) => Carries(new, n, s)
    BY <1>5 DEF Carries, Meant, Snapshot
  <2> HIDE DEF new
  <2>4. answered' = answered /\ row' = row /\ told' = told /\ subs' = subs
        /\ lost' = lost /\ chan' = chan /\ seen' = seen
    BY <1>5 DEF Snapshot
  <2> QED
    BY <1>3, <2>1, <2>2, <2>3, <2>4, PublisherDelivers
<1>6. ASSUME NEW t \in Streams, SendTo(p, t) PROVE Inserted' /\ Delivered'
  <2> DEFINE new == [r EXCEPT !.targets = @ \ {t}]
  <2>1. PubStep(p, new) /\ r.pc = "send" /\ r.evt \in Events
    BY <1>0, <1>6, PubFields DEF SendTo
  <2>2. r \in [pc : {"send"}, evt : Events, answer : Answers,
               targets : SUBSET Streams]
    BY <1>0, <2>1 DEF TypeOK, PubType, Idle
  <2>3. /\ new.pc = "send" /\ new.answer = r.answer /\ new.evt = r.evt
        /\ new.targets = r.targets \ {t}
    BY <2>2
  <2>4. \A n \in Notes : Owes(new, n) <=> Owes(r, n)
    BY <2>1, <2>3 DEF Owes
  <2>5. \A n \in Notes, s \in Streams :
          s # t /\ Carries(r, n, s) => Carries(new, n, s)
    BY <2>1, <2>3 DEF Carries
  <2>6. \A n \in Notes, s \in Streams : Has(n, s) => Has(n, s)'
    <3>1. CASE Full(t)
      BY <1>3, <1>6, <3>1 DEF SendTo, Offer
    <3>2. CASE ~Full(t)
      <4>1. chan' = [chan EXCEPT ![t] = Append(chan[t], r.evt)] /\ seen' = seen
        BY <1>6, <3>2 DEF SendTo, Offer
      <4>2. /\ DOMAIN chan[t] \subseteq DOMAIN Append(chan[t], r.evt)
            /\ \A i \in DOMAIN chan[t] : Append(chan[t], r.evt)[i] = chan[t][i]
        BY <1>0, <2>1, AppendFacts DEF TypeOK
      <4> QED
        BY <1>0, <4>1, <4>2 DEF TypeOK, Has
    <3> QED
      BY <3>1, <3>2
  <2>7. ASSUME NEW n \in Notes, t \notin lost', Carries(r, n, t)
        PROVE  Has(n, t)'
    <3>1. ~Full(t) /\ r.evt = Note(n)
      BY <1>6, <2>7 DEF SendTo, Carries
    <3>2. chan' = [chan EXCEPT ![t] = Append(chan[t], r.evt)]
      BY <1>6, <3>1 DEF SendTo, Offer
    <3>3. /\ Len(chan[t]) + 1 \in DOMAIN Append(chan[t], r.evt)
          /\ Append(chan[t], r.evt)[Len(chan[t]) + 1] = r.evt
      BY <1>0, <2>1, AppendFacts DEF TypeOK
    <3> QED
      BY <1>0, <3>1, <3>2, <3>3 DEF TypeOK, Has
  <2>8. answered' = answered /\ row' = row /\ told' = told /\ subs' = subs
        /\ lost \subseteq lost'
    BY <1>6 DEF SendTo, Offer
  <2>9. \A n \in Notes, s \in Streams :
          Meant(n, s)' /\ Carries(r, n, s) => Carries(new, n, s) \/ Has(n, s)'
    BY <2>5, <2>7 DEF Meant
  <2> HIDE DEF new
  <2> QED
    BY <2>1, <2>4, <2>6, <2>8, <2>9, PublisherDelivers
<1>7. ASSUME NEW t \in Streams, SendPanics(p, t) PROVE Inserted' /\ Delivered'
  <2>1. \A n \in Notes, s \in Streams : ~Meant(n, s)'
    BY <1>7 DEF SendPanics, Meant
  <2> QED
    BY <1>1, <1>3, <1>7, <2>1, PublisherDelivers DEF SendPanics
<1>8. CASE Published(p)
  <2>1. \A n \in Notes, s \in Streams : ~Carries(r, n, s)
    BY <1>8 DEF Published, Carries
  <2>2. PICK new : PubStep(p, new) /\ \A n \in Notes : Owes(new, n) => n \in r.answer
    BY <1>2, <1>8 DEF Published
  <2>3. \A n \in Notes : Owes(r, n) <=> n \in r.answer
    BY <1>8 DEF Published, Owes
  <2> QED
    BY <1>3, <1>8, <2>1, <2>2, <2>3, PublisherDelivers DEF Published
<1>9. CASE Answer(p) \/ AfterPanic(p)
  <2>1. \A n \in Notes, s \in Streams : ~Carries(r, n, s)
    BY <1>9 DEF Answer, AfterPanic, Carries
  <2>2. \A n \in answered' : n \in answered \/ Owes(r, n)
    BY <1>9 DEF Answer, AfterPanic, Owes
  <2> QED
    BY <1>1, <1>3, <1>9, <2>1, <2>2, PublisherDelivers DEF Answer, AfterPanic
<1> QED
  BY <1>4, <1>5, <1>6, <1>7, <1>8, <1>9 DEF PublisherNext

LEMMA HandlerDelivers ==
  ASSUME DeliveryInv, NEW p \in Publishers,
         \/ \E n \in Notes, inApp \in InApp : Notify(p, n, inApp)
         \/ \E notes \in SUBSET Notes, new \in {"read", "deleted"} :
              ChangeRows(p, notes, new)
  PROVE  Inserted' /\ Delivered'
<1>0. TypeOK
  BY DEF DeliveryInv
<1>1. \A n \in Notes, s \in Streams :
        chan' = chan /\ seen' = seen /\ Has(n, s) => Has(n, s)'
  BY DEF Has
<1>2. ASSUME NEW notes \in SUBSET Notes, NEW status \in {"read", "deleted"},
             ChangeRows(p, notes, status)
      PROVE  Inserted' /\ Delivered'
  <2>1. /\ PubStep(p, Counting({})) /\ \A n \in Notes : ~Owes(Counting({}), n)
        /\ \A n \in Notes, s \in Streams : ~Carries(pub[p], n, s)
    BY <1>2 DEF ChangeRows, Counting, Owes, Carries, Idle
  <2>2. \A n \in Notes : row[n] # "none" => row'[n] # "none"
    BY <1>2 DEF ChangeRows
  <2> QED
    BY <1>1, <1>2, <2>1, <2>2, PublisherDelivers DEF ChangeRows
<1>3. ASSUME NEW m \in Notes, NEW inApp \in InApp, Notify(p, m, inApp)
      PROVE  Inserted' /\ Delivered'
  <2>1. PICK new : /\ pub' = [pub EXCEPT ![p] = new]
                   /\ \A n \in Notes : Owes(new, n) => n = m
                   /\ \A s \in Streams : inApp => Carries(new, m, s)
    <3>1. CASE inApp
      <4> DEFINE new == [pc |-> "snapshot", evt |-> Note(m), answer |-> {m}]
      <4>1. pub' = [pub EXCEPT ![p] = new]
        BY <1>3, <3>1 DEF Notify, PubStep
      <4>2. new.pc = "snapshot" /\ new.evt = Note(m) /\ new.answer = {m}
        OBVIOUS
      <4> HIDE DEF new
      <4> QED
        BY <4>1, <4>2 DEF Owes, Carries
    <3>2. CASE ~inApp
      <4> DEFINE new == Pushing({m})
      <4>1. pub' = [pub EXCEPT ![p] = new]
        BY <1>3, <3>2 DEF Notify, PubStep
      <4>2. new.answer = {m}
        BY DEF Pushing
      <4> HIDE DEF new
      <4> QED
        BY <3>2, <4>1, <4>2 DEF Owes
    <3> QED
      BY <3>1, <3>2
  <2>2. /\ pub'[p] = new /\ \A q \in Publishers : q # p => pub'[q] = pub[q]
        /\ \A n \in Notes : n # m => row'[n] = row[n] /\ told'[n] = told[n]
        /\ row[m] = "none" /\ row'[m] # "none"
        /\ told'[m] = IF inApp THEN subs ELSE {}
        /\ subs' = subs /\ lost' = lost /\ answered' = answered
        /\ seen' = seen /\ chan' = chan
    BY <1>0, <1>3, <2>1 DEF Notify, TypeOK
  <2>3. /\ m \notin answered
        /\ \A q \in Publishers : ~Owes(pub[q], m)
        /\ answered \subseteq Notes
    BY <2>2, <1>0 DEF DeliveryInv, Inserted, TypeOK
  <2>4. Inserted'
    <3>1. \A n \in answered' : row'[n] # "none"
      BY <2>2, <2>3 DEF DeliveryInv, Inserted
    <3>2. \A q \in Publishers, n \in Notes : Owes(pub'[q], n) => row'[n] # "none"
      BY <2>1, <2>2 DEF DeliveryInv, Inserted
    <3> QED
      BY <3>1, <3>2 DEF Inserted
  <2>5. ASSUME NEW n \in Notes, NEW s \in Streams, Meant(n, s)'
        PROVE  /\ n \in answered' => Has(n, s)'
               /\ \A q \in Publishers :
                    Owes(pub'[q], n) /\ ~Carries(pub'[q], n, s) => Has(n, s)'
    <3>1. CASE n # m
      <4>1. Meant(n, s)
        BY <2>2, <2>5, <3>1 DEF Meant
      <4> QED
        BY <1>1, <2>1, <2>2, <3>1, <4>1 DEF DeliveryInv, Delivered
    <3>2. CASE n = m
      <4>1. inApp
        BY <2>2, <2>5, <3>2 DEF Meant
      <4>2. \A q \in Publishers : Owes(pub'[q], n) => Carries(pub'[q], n, s)
        BY <2>1, <2>2, <2>3, <3>2, <4>1
      <4> QED
        BY <2>2, <2>3, <3>2, <4>2
    <3> QED
      BY <3>1, <3>2
  <2> QED
    BY <2>4, <2>5 DEF Delivered
<1> QED
  BY <1>2, <1>3

\* A stream reads from the front of its channel, and forgets only when it goes.
LEMMA StreamDelivers ==
  ASSUME DeliveryInv, NEW s \in Streams,
         Open(s) \/ StreamNext(s) \/ Leave(s) \/ Gone(s)
  PROVE  Inserted' /\ Delivered'
<1>0. TypeOK /\ Phases
  BY DEF DeliveryInv
<1>1. row' = row /\ answered' = answered /\ pub' = pub
  BY DEF StreamNext, Open, ReadFirstCount, FirstCountFails, WriteFirstCount,
         Relay, Leave, Gone
<1>2. Inserted'
  BY <1>1 DEF DeliveryInv, Inserted
<1>3. ASSUME NEW n \in Notes, NEW t \in Streams, Meant(n, t)'
      PROVE  Meant(n, t)
  <2>1. CASE Open(s)
    BY <1>0, <1>3, <2>1 DEF Open, Subscribe, Phases, Meant
  <2>2. CASE StreamNext(s)
    BY <1>3, <2>2 DEF StreamNext, ReadFirstCount, FirstCountFails,
                      WriteFirstCount, Relay, Receive, Meant
  <2>3. CASE Leave(s)
    BY <1>3, <2>3 DEF Leave, Unsubscribe, Meant
  <2>4. CASE Gone(s)
    <3>1. s \notin subs
      BY <1>0, <2>4 DEF Gone, Phases
    <3> QED
      BY <1>0, <1>3, <2>4, <3>1 DEF Gone, Close, Meant, TypeOK
  <2> QED
    BY <2>1, <2>2, <2>3, <2>4
<1>4. ASSUME NEW n \in Notes, NEW t \in Streams, Has(n, t), t \in subs
      PROVE  Has(n, t)'
  <2>1. CASE Open(s) \/ Leave(s) \/ ReadFirstCount(s) \/ FirstCountFails(s)
               \/ WriteFirstCount(s)
    BY <1>4, <2>1 DEF Open, Subscribe, Leave, Unsubscribe, ReadFirstCount,
                      FirstCountFails, WriteFirstCount, Has
  <2>2. CASE Gone(s)
    <3>1. t # s
      BY <1>0, <1>4, <2>2 DEF Gone, Phases
    <3> QED
      BY <1>0, <1>4, <2>2, <3>1 DEF Gone, Close, Has, TypeOK
  <2>3. CASE Relay(s)
    <3>1. CASE t # s
      BY <1>0, <1>4, <2>3, <3>1 DEF Relay, Receive, Has, TypeOK
    <3>2. CASE t = s
      <4>1. /\ chan[s] \in Seq(Events) /\ chan[s] # <<>>
            /\ chan'[s] = Tail(chan[s])
            /\ n \in seen[s] => n \in seen'[s]
            /\ Head(chan[s]) = Note(n) => n \in seen'[s]
        <5>1. /\ chan[s] \in Seq(Events) /\ chan[s] # <<>>
              /\ chan'[s] = Tail(chan[s])
          BY <1>0, <2>3 DEF Relay, Receive, TypeOK
        <5>2. CASE Head(chan[s]).type = "notification"
          <6>1. seen' = [seen EXCEPT ![s] = @ \cup {Head(chan[s]).note}]
            BY <2>3, <5>2 DEF Relay
          <6>2. Head(chan[s]) = Note(n) => Head(chan[s]).note = n
            BY EventFields
          <6> QED
            BY <1>0, <5>1, <6>1, <6>2 DEF TypeOK
        <5>3. CASE Head(chan[s]).type # "notification"
          <6>1. seen' = seen
            BY <2>3, <5>3 DEF Relay
          <6>2. Head(chan[s]) # Note(n)
            BY <5>3, EventFields
          <6> QED
            BY <5>1, <6>1, <6>2
        <5> QED
          BY <5>2, <5>3
      <4>2. ASSUME NEW i \in DOMAIN chan[s], chan[s][i] = Note(n), i # 1
            PROVE  \E j \in DOMAIN Tail(chan[s]) : Tail(chan[s])[j] = Note(n)
        <5>1. i - 1 \in DOMAIN Tail(chan[s]) /\ Tail(chan[s])[i - 1] = chan[s][i]
          BY <4>1, <4>2, TailFacts
        <5> QED
          BY <4>2, <5>1
      <4>3. Head(chan[s]) = chan[s][1]
        BY <4>1, TailFacts
      <4> QED
        BY <1>4, <3>2, <4>1, <4>2, <4>3 DEF Has
    <3> QED
      BY <3>1, <3>2
  <2> QED
    BY <2>1, <2>2, <2>3 DEF StreamNext
<1>5. Delivered'
  BY <1>1, <1>3, <1>4 DEF DeliveryInv, Delivered, Meant
<1> QED
  BY <1>2, <1>5

LEMMA DeliveryNext == DeliveryInv /\ [Next]_vars => DeliveryInv'
<1> SUFFICES ASSUME DeliveryInv, [Next]_vars PROVE Inserted' /\ Delivered'
  BY NextTypes, NextPhases DEF DeliveryInv
<1>1. CASE UNCHANGED vars
  BY <1>1 DEF DeliveryInv, Inserted, Delivered, Meant, Has
<1> QED
  BY <1>1, NextIs, PublisherNextDelivers, HandlerDelivers, StreamDelivers

\* A notification that is answered for is in the hands of every stream that
\* was subscribed when its row was inserted, unless the stream has left or
\* has lost an event: any other handlers may run between, and the events of
\* all of them share the buffers.
THEOREM AnsweredIsDelivered == Spec => []AnsweredReachesStreams
<1>1. DeliveryInv => AnsweredReachesStreams
  BY DEF DeliveryInv, TypeOK, Delivered, Meant, Has, AnsweredReachesStreams
<1> QED
  BY <1>1, DeliveryInit, DeliveryNext, PTL DEF Spec

-----------------------------------------------------------------------------
(***************************************************************************)
(* A stream is given a notification once.  Its handler alone brings it,    *)
(* and has not given it yet to a stream that it still is to tell.          *)
(***************************************************************************)

Brings(r, n) == r.pc \in {"snapshot", "send"} /\ r.evt = Note(n)

OnceInv ==
  /\ TypeOK
  /\ NotifiedOnce
  /\ \A n \in Notes : row[n] = "none" =>
       /\ \A p \in Publishers : ~Brings(pub[p], n)
       /\ \A s \in Streams : ~Has(n, s)
  /\ \A n \in Notes, p, q \in Publishers :
       Brings(pub[p], n) /\ Brings(pub[q], n) => p = q
  /\ \A n \in Notes, p \in Publishers, s \in Streams :
       Carries(pub[p], n, s) => ~Has(n, s)

LEMMA OnceInit == Init => OnceInv
<1> SUFFICES ASSUME Init PROVE OnceInv
  OBVIOUS
<1>1. \A p \in Publishers, n \in Notes : ~Brings(pub[p], n)
  BY DEF Init, Idle, Brings
<1>2. \A s \in Streams : chan[s] = <<>> /\ seen[s] = {}
  BY DEF Init, HubInit
<1>3. ASSUME NEW s \in Streams PROVE DOMAIN chan[s] = {}
  <2>1. chan[s] = <<>>
    BY <1>2
  <2> QED
    BY <2>1
<1>4. \A n \in Notes, s \in Streams : ~Has(n, s)
  BY <1>2, <1>3 DEF Has
<1> QED
  BY <1>1, <1>3, <1>4, InitTypes DEF OnceInv, NotifiedOnce, Carries, Brings

\* A publisher brings and owes no more than before, and nothing is sent.
LEMMA PublisherOnce ==
  ASSUME OnceInv, TypeOK', NEW p \in Publishers, NEW new, PubStep(p, new),
         chan' = chan, seen' = seen,
         \A n \in Notes : row'[n] = "none" => row[n] = "none",
         \A n \in Notes : Brings(new, n) => Brings(pub[p], n),
         \A n \in Notes, s \in Streams :
           Carries(new, n, s) => Carries(pub[p], n, s)
  PROVE  OnceInv'
<1>1. /\ pub'[p] = new
      /\ \A q \in Publishers : q # p => pub'[q] = pub[q]
  BY DEF PubStep, OnceInv, TypeOK
<1>2. \A q \in Publishers, n \in Notes :
        /\ Brings(pub'[q], n) => Brings(pub[q], n)
        /\ \A s \in Streams : Carries(pub'[q], n, s) => Carries(pub[q], n, s)
  BY <1>1
<1>3. \A n \in Notes, s \in Streams : Has(n, s)' <=> Has(n, s)
  BY DEF Has
<1>4. NotifiedOnce'
  BY DEF OnceInv, NotifiedOnce
<1> QED
  BY <1>2, <1>3, <1>4 DEF OnceInv

LEMMA SendOnce ==
  ASSUME OnceInv, TypeOK', NEW p \in Publishers, NEW t \in Streams, SendTo(p, t)
  PROVE  OnceInv'
<1> DEFINE r == pub[p]
           new == [r EXCEPT !.targets = @ \ {t}]
<1>0. TypeOK
  BY DEF OnceInv
<1>1. PubStep(p, new) /\ r.pc = "send" /\ r.evt \in Events /\ t \in r.targets
  BY <1>0, PubFields DEF SendTo
<1>2. r \in [pc : {"send"}, evt : Events, answer : Answers,
             targets : SUBSET Streams]
  BY <1>0, <1>1 DEF TypeOK, PubType, Idle
<1>3. /\ new.pc = "send" /\ new.evt = r.evt /\ new.targets = r.targets \ {t}
  BY <1>2
<1> HIDE DEF new
<1>4. /\ \A n \in Notes : Brings(new, n) <=> Brings(r, n)
      /\ \A n \in Notes, s \in Streams :
           Carries(new, n, s) => Carries(r, n, s) /\ s # t
  BY <1>1, <1>3 DEF Brings, Carries
<1>5. row' = row /\ seen' = seen
  BY DEF SendTo
<1>6. CASE Full(t)
  <2>1. chan' = chan
    BY <1>6 DEF SendTo, Offer
  <2> QED
    BY <1>1, <1>4, <1>5, <2>1, PublisherOnce
<1>7. CASE ~Full(t)
  <2> DEFINE c == chan[t]
  <2>1. /\ chan'[t] = Append(c, r.evt) /\ c \in Seq(Events)
        /\ \A s \in Streams : s # t => chan'[s] = chan[s]
    BY <1>0, <1>7 DEF SendTo, Offer, TypeOK
  <2>2. /\ Len(c) \in Nat
        /\ DOMAIN chan'[t] = 1 .. Len(c) + 1 /\ DOMAIN c = 1 .. Len(c)
        /\ \A i \in DOMAIN c : chan'[t][i] = c[i]
        /\ chan'[t][Len(c) + 1] = r.evt
    BY <1>1, <2>1, AppendFacts
  <2>3. ASSUME NEW n \in Notes
        PROVE  Has(n, t)' => Has(n, t) \/ r.evt = Note(n)
    BY <1>5, <2>2 DEF Has
  <2>4. \A n \in Notes, s \in Streams : s # t => (Has(n, s)' <=> Has(n, s))
    BY <1>5, <2>1 DEF Has
  <2>5. \A n \in Notes : r.evt = Note(n) => Brings(r, n) /\ ~Has(n, t)
    BY <1>1 DEF OnceInv, Brings, Carries
  <2>6. /\ pub'[p] = new
        /\ \A q \in Publishers : q # p => pub'[q] = pub[q]
    BY <1>0, <1>1 DEF PubStep, TypeOK
  <2>7. ASSUME NEW n \in Notes, row'[n] = "none"
        PROVE  /\ \A q \in Publishers : ~Brings(pub'[q], n)
               /\ \A s \in Streams : ~Has(n, s)'
    <3>1. /\ \A q \in Publishers : ~Brings(pub[q], n)
          /\ \A s \in Streams : ~Has(n, s)
      BY <1>5, <2>7 DEF OnceInv
    <3> QED
      BY <1>4, <2>3, <2>4, <2>5, <2>6, <3>1
  <2>8. \A n \in Notes, q \in Publishers : Brings(pub'[q], n) => Brings(pub[q], n)
    BY <1>4, <2>6
  <2>9. ASSUME NEW n \in Notes, NEW q \in Publishers, NEW s \in Streams,
               Carries(pub'[q], n, s)
        PROVE  ~Has(n, s)'
    <3>1. Carries(pub[q], n, s) /\ (q = p => s # t)
      BY <1>4, <2>6, <2>9
    <3>2. ~Has(n, s)
      BY <3>1 DEF OnceInv
    <3>3. CASE s # t
      BY <2>4, <3>2, <3>3
    <3>4. CASE s = t
      <4>1. q # p /\ Brings(pub[q], n)
        BY <3>1, <3>4 DEF Carries, Brings
      <4>2. r.evt # Note(n)
        BY <2>5, <4>1 DEF OnceInv
      <4> QED
        BY <2>3, <3>2, <3>4, <4>2
    <3> QED
      BY <3>3, <3>4
  <2>10. ASSUME NEW s \in Streams, NEW n \in Notes, NEW i \in DOMAIN chan'[s],
                chan'[s][i] = Note(n)
         PROVE  /\ n \notin seen'[s]
                /\ \A j \in DOMAIN chan'[s] : chan'[s][j] = Note(n) => i = j
    <3>1. CASE s # t
      <4>1. chan'[s] = chan[s]
        BY <2>1, <3>1
      <4> QED
        BY <1>5, <2>10, <4>1 DEF OnceInv, NotifiedOnce
    <3>2. CASE s = t /\ r.evt # Note(n)
      <4>1. \A j \in DOMAIN chan'[t] :
              chan'[t][j] = Note(n) => j \in DOMAIN c /\ c[j] = Note(n)
        BY <2>2, <3>2
      <4> QED
        BY <1>5, <2>10, <3>2, <4>1 DEF OnceInv, NotifiedOnce
    <3>3. CASE s = t /\ r.evt = Note(n)
      <4>1. n \notin seen[t] /\ \A j \in DOMAIN c : c[j] # Note(n)
        BY <2>5, <3>3 DEF Has
      <4>2. \A j \in DOMAIN chan'[t] : chan'[t][j] = Note(n) => j = Len(c) + 1
        BY <2>2, <4>1
      <4> QED
        BY <1>5, <2>10, <3>3, <4>1, <4>2
    <3> QED
      BY <3>1, <3>2, <3>3
  <2>11. NotifiedOnce'
    BY <2>10 DEF NotifiedOnce
  <2> QED
    BY <2>7, <2>8, <2>9, <2>11 DEF OnceInv
<1> QED
  BY <1>6, <1>7

LEMMA HandlerOnce ==
  ASSUME OnceInv, TypeOK', NEW p \in Publishers,
         \/ PublisherNext(p)
         \/ \E n \in Notes, inApp \in InApp : Notify(p, n, inApp)
         \/ \E notes \in SUBSET Notes, new \in {"read", "deleted"} :
              ChangeRows(p, notes, new)
  PROVE  OnceInv'
<1> DEFINE r == pub[p]
<1>1. ASSUME NEW new, PubStep(p, new),
             \A n \in Notes : ~Brings(new, n),
             UNCHANGED <<chan, seen>>,
             \A n \in Notes : row'[n] = "none" => row[n] = "none"
      PROVE  OnceInv'
  <2>1. \A n \in Notes, s \in Streams : ~Carries(new, n, s)
    BY <1>1 DEF Carries, Brings
  <2> QED
    BY <1>1, <2>1, PublisherOnce
<1>2. ASSUME NEW answer, NEW n \in Notes
      PROVE  /\ ~Brings(Idle, n) /\ ~Brings([pc |-> "panicked"], n)
             /\ ~Brings(Counting(answer), n) /\ ~Brings(Pushing(answer), n)
  BY DEF Brings, Idle, Counting, Pushing
<1>3. ASSUME NEW m \in Notes, NEW inApp \in InApp, Notify(p, m, inApp)
      PROVE  OnceInv'
  <2>0. row[m] = "none" /\ UNCHANGED <<chan, seen>>
        /\ \A n \in Notes : row'[n] = "none" => n # m /\ row[n] = "none"
    BY <1>3 DEF Notify, OnceInv, TypeOK
  <2>1. CASE ~inApp
    BY <1>1, <1>2, <1>3, <2>0, <2>1 DEF Notify
  <2>2. CASE inApp
    <3> DEFINE new == [pc |-> "snapshot", evt |-> Note(m), answer |-> {m}]
    <3>1. PubStep(p, new)
      BY <1>3, <2>2 DEF Notify
    <3>2. new.pc = "snapshot" /\ new.evt = Note(m)
      OBVIOUS
    <3> HIDE DEF new
    <3>3. \A n \in Notes : (Brings(new, n) => n = m)
                           /\ \A s \in Streams : Carries(new, n, s) => n = m
      BY <3>2, EventFields DEF Brings, Carries
    <3>4. /\ pub'[p] = new
          /\ \A q \in Publishers : q # p => pub'[q] = pub[q]
      BY <3>1 DEF PubStep, OnceInv, TypeOK
    <3>5. /\ \A q \in Publishers : ~Brings(pub[q], m)
          /\ \A s \in Streams : ~Has(m, s)
      BY <2>0 DEF OnceInv
    <3>6. \A n \in Notes, s \in Streams : Has(n, s)' <=> Has(n, s)
      BY <2>0 DEF Has
    <3>7. NotifiedOnce'
      BY <2>0 DEF OnceInv, NotifiedOnce
    <3>8. \A n \in Notes : row'[n] = "none" =>
            /\ \A q \in Publishers : ~Brings(pub'[q], n)
            /\ \A s \in Streams : ~Has(n, s)'
      BY <2>0, <3>3, <3>4, <3>6 DEF OnceInv
    <3>9. \A n \in Notes, q, o \in Publishers :
            Brings(pub'[q], n) /\ Brings(pub'[o], n) => q = o
      BY <3>3, <3>4, <3>5 DEF OnceInv
    <3>10. \A n \in Notes, q \in Publishers, s \in Streams :
             Carries(pub'[q], n, s) => ~Has(n, s)'
      BY <3>3, <3>4, <3>5, <3>6 DEF OnceInv
    <3> QED
      BY <3>7, <3>8, <3>9, <3>10 DEF OnceInv
  <2>3. inApp \in BOOLEAN
    BY NotificationsAssumption
  <2> QED
    BY <2>1, <2>2
<1>4. ASSUME NEW notes \in SUBSET Notes, NEW status \in {"read", "deleted"},
             ChangeRows(p, notes, status)
      PROVE  OnceInv'
  BY <1>1, <1>2, <1>4 DEF ChangeRows
<1>5. CASE UnreadCount(p)
  <2> DEFINE new == [pc |-> "snapshot", answer |-> r.answer,
                     evt |-> Count(Cardinality(Unread))]
  <2>1. \A n \in Notes : new.evt # Note(n)
    BY EventFields, UnreadIsACount
  <2>2. \A n \in Notes : ~Brings(new, n)
    BY <2>1 DEF Brings
  <2>3. PubStep(p, new) \/ PubStep(p, Pushing(r.answer))
    BY <1>5 DEF UnreadCount
  <2> HIDE DEF new
  <2> QED
    BY <1>1, <1>2, <1>5, <2>2, <2>3 DEF UnreadCount
<1>6. CASE Snapshot(p)
  <2> DEFINE new == [pc |-> "send", evt |-> r.evt, answer |-> r.answer,
                     targets |-> subs]
  <2>1. PubStep(p, new) /\ r.pc = "snapshot"
    BY <1>6 DEF Snapshot
  <2>2. new.pc = "send" /\ new.evt = r.evt
    OBVIOUS
  <2> HIDE DEF new
  <2>3. \A n \in Notes : Brings(new, n) => Brings(r, n)
    BY <2>1, <2>2 DEF Brings
  <2>4. \A n \in Notes, s \in Streams : Carries(new, n, s) => Carries(r, n, s)
    BY <2>1, <2>2 DEF Carries
  <2> QED
    BY <1>6, <2>1, <2>3, <2>4, PublisherOnce DEF Snapshot
<1>7. ASSUME NEW s \in Streams, SendPanics(p, s) PROVE OnceInv'
  BY <1>1, <1>2, <1>7 DEF SendPanics
<1>8. CASE Published(p)
  <2>1. PubStep(p, Counting(r.answer)) \/ PubStep(p, Pushing(r.answer))
    BY <1>8 DEF Published
  <2> QED
    BY <1>1, <1>2, <1>8, <2>1 DEF Published
<1>9. CASE Answer(p) \/ AfterPanic(p)
  BY <1>1, <1>2, <1>9 DEF Answer, AfterPanic
<1> QED
  BY <1>3, <1>4, <1>5, <1>6, <1>7, <1>8, <1>9, SendOnce DEF PublisherNext

LEMMA StreamOnce ==
  ASSUME OnceInv, TypeOK', NEW s \in Streams,
         Open(s) \/ StreamNext(s) \/ Leave(s) \/ Gone(s)
  PROVE  OnceInv'
<1>0. TypeOK /\ row' = row /\ pub' = pub
  BY DEF OnceInv, StreamNext, Open, ReadFirstCount, FirstCountFails,
         WriteFirstCount, Relay, Leave, Gone
<1>1. ASSUME \A n \in Notes, t \in Streams : Has(n, t)' => Has(n, t),
             NotifiedOnce'
      PROVE  OnceInv'
  BY <1>0, <1>1 DEF OnceInv
<1>2. CASE UNCHANGED <<chan, seen>>
  <2>1. \A n \in Notes, t \in Streams : Has(n, t)' => Has(n, t)
    BY <1>2 DEF Has
  <2>2. NotifiedOnce'
    BY <1>2 DEF OnceInv, NotifiedOnce
  <2> QED
    BY <1>1, <2>1, <2>2
<1>3. CASE Gone(s)
  <2>1. /\ chan'[s] = <<>> /\ seen'[s] = {}
        /\ \A t \in Streams : t # s => chan'[t] = chan[t] /\ seen'[t] = seen[t]
    BY <1>0, <1>3 DEF Gone, Close, TypeOK
  <2>2. DOMAIN chan'[s] = {}
    BY <2>1
  <2>3. \A n \in Notes, t \in Streams : Has(n, t)' => Has(n, t)
    BY <2>1, <2>2 DEF Has
  <2>4. NotifiedOnce'
    BY <2>1, <2>2 DEF OnceInv, NotifiedOnce
  <2> QED
    BY <1>1, <2>3, <2>4
<1>4. CASE Relay(s)
  <2> DEFINE c == chan[s]
             e == Head(chan[s])
  <2>1. /\ c \in Seq(Events) /\ c # <<>> /\ chan'[s] = Tail(c)
        /\ \A t \in Streams : t # s => chan'[t] = chan[t] /\ seen'[t] = seen[t]
    BY <1>0, <1>4 DEF Relay, Receive, TypeOK
  <2>2. /\ e \in Events /\ e = c[1] /\ Len(c) \in Nat
        /\ DOMAIN c = 1 .. Len(c) /\ DOMAIN chan'[s] = 1 .. Len(c) - 1
        /\ \A i \in DOMAIN chan'[s] : chan'[s][i] = c[i + 1]
    BY <2>1, TailFacts
  <2>3. 1 \in DOMAIN c
    BY <2>1, <2>2
  <2>4. \A i \in DOMAIN chan'[s] : i + 1 \in DOMAIN c /\ i + 1 # 1
    BY <2>2
  <2>5. \A n \in Notes : n \in seen'[s] => n \in seen[s] \/ e = Note(n)
    <3>1. CASE e.type = "notification"
      <4>1. seen'[s] = seen[s] \cup {e.note} /\ e = Note(e.note)
        BY <1>0, <1>4, <2>2, <3>1, EventFields DEF Relay, TypeOK
      <4> QED
        BY <4>1
    <3>2. CASE e.type # "notification"
      BY <1>4, <3>2 DEF Relay
    <3> QED
      BY <3>1, <3>2
  <2>6. \A n \in Notes, t \in Streams : Has(n, t)' => Has(n, t)
    <3>1. \A n \in Notes : Has(n, s)' => Has(n, s)
      BY <2>2, <2>3, <2>4, <2>5 DEF Has
    <3>2. \A n \in Notes, t \in Streams : t # s /\ Has(n, t)' => Has(n, t)
      BY <2>1 DEF Has
    <3> QED
      BY <3>1, <3>2
  <2>7. ASSUME NEW t \in Streams, NEW n \in Notes, NEW i \in DOMAIN chan'[t],
               chan'[t][i] = Note(n)
        PROVE  /\ n \notin seen'[t]
               /\ \A j \in DOMAIN chan'[t] : chan'[t][j] = Note(n) => i = j
    <3>1. CASE t # s
      <4>1. chan'[t] = chan[t] /\ seen'[t] = seen[t]
        BY <2>1, <3>1
      <4> QED
        BY <2>7, <4>1 DEF OnceInv, NotifiedOnce
    <3>2. CASE t = s
      <4>1. /\ i + 1 \in DOMAIN c /\ i + 1 # 1 /\ c[i + 1] = Note(n)
            /\ i \in Int
        BY <2>2, <2>4, <2>7, <3>2
      <4>2. /\ n \notin seen[s]
            /\ \A j \in DOMAIN c : c[j] = Note(n) => i + 1 = j
        BY <4>1 DEF OnceInv, NotifiedOnce
      <4>3. e # Note(n)
        BY <2>2, <2>3, <4>1, <4>2
      <4>4. \A j \in DOMAIN chan'[s] :
              chan'[s][j] = Note(n) => i + 1 = j + 1 /\ j \in Int
        BY <2>2, <2>4, <4>2
      <4> QED
        BY <2>5, <3>2, <4>1, <4>2, <4>3, <4>4
    <3> QED
      BY <3>1, <3>2
  <2>8. NotifiedOnce'
    BY <2>7 DEF NotifiedOnce
  <2> QED
    BY <1>1, <2>6, <2>8
<1>5. CASE \/ Open(s) \/ Leave(s) \/ ReadFirstCount(s) \/ FirstCountFails(s)
           \/ WriteFirstCount(s)
  BY <1>2, <1>5 DEF Open, Subscribe, Leave, Unsubscribe, ReadFirstCount,
                    FirstCountFails, WriteFirstCount
<1> QED
  BY <1>3, <1>4, <1>5 DEF StreamNext

LEMMA OnceNext == OnceInv /\ [Next]_vars => OnceInv'
<1> SUFFICES ASSUME OnceInv, [Next]_vars PROVE OnceInv'
  OBVIOUS
<1>1. TypeOK'
  BY NextTypes DEF OnceInv
<1>2. CASE UNCHANGED vars
  BY <1>1, <1>2 DEF OnceInv, NotifiedOnce, Has
<1> QED
  BY <1>1, <1>2, NextIs, HandlerOnce, StreamOnce

\* A stream is given a notification once at most, with any number of handlers
\* that publish, and of streams that come between an insert and its
\* publication.
THEOREM GivenOnce == Spec => []NotifiedOnce
<1>1. OnceInv => NotifiedOnce
  BY DEF OnceInv
<1> QED
  BY <1>1, OnceInit, OnceNext, PTL DEF Spec

-----------------------------------------------------------------------------
(***************************************************************************)
(* The count a client shows.  After handlers that did not overlap, a       *)
(* stream is still to be told a count, or the last one in its channel, or  *)
(* where there is none the one it starts from, is the right one.           *)
(***************************************************************************)

CountOwed(r, s) ==
  \/ r.pc \in {"count", "snapshot"}
  \/ r.pc = "send" /\ (r.evt.type = "notification" \/ s \in r.targets)

NoCountIn(q) == \A i \in DOMAIN q : q[i].type = "notification"
LastCountIs(q, c) ==
  \E i \in DOMAIN q :
    q[i] = Count(c) /\ \A j \in DOMAIN q : j > i => q[j].type = "notification"

StartsFrom(s, c) ==
  \/ stream[s].pc = "hello"
  \/ stream[s].pc = "first" /\ stream[s].count = c
  \/ stream[s].pc = "loop" /\ shown[s] \in {NoCount, c}
WillShow(s, c) ==
  \/ LastCountIs(chan[s], c)
  \/ NoCountIn(chan[s]) /\ StartsFrom(s, c)

CountsRight ==
  quiet =>
    /\ \A p \in Publishers :
         pub[p].pc \in {"snapshot", "send"} /\ pub[p].evt.type = "unread_count"
           => pub[p].evt.count = Cardinality(Unread)
    /\ \A s \in subs : s \notin lost =>
         \/ \E p \in Publishers : CountOwed(pub[p], s)
         \/ WillShow(s, Cardinality(Unread))

CountInv == TypeOK /\ Phases /\ CountsRight

LEMMA AppendCount ==
  ASSUME NEW q \in Seq(Events), NEW c \in Counts
  PROVE  LastCountIs(Append(q, Count(c)), c)
<1> DEFINE e == Count(c)
<1>1. e \in Events
  BY EventFields
<1>2. /\ Len(q) \in Nat /\ DOMAIN Append(q, e) = 1 .. Len(q) + 1
      /\ Append(q, e)[Len(q) + 1] = e
  BY <1>1, AppendFacts
<1>3. \A j \in DOMAIN Append(q, e) : ~(j > Len(q) + 1)
  BY <1>2
<1> QED
  BY <1>2, <1>3 DEF LastCountIs

LEMMA TailCount ==
  ASSUME NEW q \in Seq(Events), q # <<>>, NEW c \in Counts
  PROVE  /\ NoCountIn(q) => Head(q).type = "notification" /\ NoCountIn(Tail(q))
         /\ LastCountIs(q, c) =>
              \/ LastCountIs(Tail(q), c)
              \/ Head(q) = Count(c) /\ NoCountIn(Tail(q))
<1>1. /\ Head(q) = q[1] /\ Len(q) \in Nat
      /\ DOMAIN q = 1 .. Len(q) /\ DOMAIN Tail(q) = 1 .. Len(q) - 1
      /\ \A i \in DOMAIN Tail(q) : Tail(q)[i] = q[i + 1]
  BY TailFacts
<1>2. \A i \in DOMAIN Tail(q) : i + 1 \in DOMAIN q
  BY <1>1
<1>3. 1 \in DOMAIN q
  BY <1>1
<1>4. NoCountIn(q) => Head(q).type = "notification" /\ NoCountIn(Tail(q))
  BY <1>1, <1>2, <1>3 DEF NoCountIn
<1>5. ASSUME NEW i \in DOMAIN q, q[i] = Count(c),
             \A j \in DOMAIN q : j > i => q[j].type = "notification"
      PROVE  \/ LastCountIs(Tail(q), c)
             \/ Head(q) = Count(c) /\ NoCountIn(Tail(q))
  <2>1. CASE i = 1
    <3>1. \A j \in DOMAIN Tail(q) : j + 1 > i
      BY <1>1, <2>1
    <3> QED
      BY <1>1, <1>2, <1>5, <2>1, <3>1 DEF NoCountIn
  <2>2. CASE i # 1
    <3>1. i - 1 \in DOMAIN Tail(q) /\ Tail(q)[i - 1] = q[i]
      BY <1>1, <2>2
    <3>2. \A j \in DOMAIN Tail(q) : j > i - 1 => j + 1 > i
      BY <1>1
    <3> QED
      <4>1. \A j \in DOMAIN Tail(q) : j > i - 1 => Tail(q)[j].type = "notification"
        BY <1>1, <1>2, <1>5, <3>2
      <4> QED
        BY <1>5, <3>1, <4>1 DEF LastCountIs
  <2> QED
    BY <2>1, <2>2
<1> QED
  BY <1>4, <1>5 DEF LastCountIs

LEMMA CountInit == Init => CountInv
<1> SUFFICES ASSUME Init PROVE CountsRight
  BY InitTypes, InitPhases DEF CountInv
<1>1. subs = {} /\ \A p \in Publishers : pub[p].pc = "idle"
  BY DEF Init, HubInit, Idle
<1> QED
  BY <1>1 DEF CountsRight

LEMMA HandlerCounts ==
  ASSUME CountInv, NEW p \in Publishers,
         \/ \E n \in Notes, inApp \in InApp : Notify(p, n, inApp)
         \/ \E notes \in SUBSET Notes, new \in {"read", "deleted"} :
              ChangeRows(p, notes, new)
  PROVE  CountsRight'
<1> SUFFICES ASSUME quiet' PROVE CountsRight'
  BY DEF CountsRight
<1>1. PICK new : /\ pub' = [pub EXCEPT ![p] = new]
                 /\ \A s \in Streams : CountOwed(new, s)
                 /\ \/ new.pc = "count"
                    \/ new.pc = "snapshot" /\ new.evt.type = "notification"
  <2>1. CASE \E notes \in SUBSET Notes, status \in {"read", "deleted"} :
               ChangeRows(p, notes, status)
    <3>1. pub' = [pub EXCEPT ![p] = Counting({})]
      BY <2>1 DEF ChangeRows, PubStep
    <3>2. Counting({}).pc = "count"
      BY DEF Counting
    <3>3. \A s \in Streams : CountOwed(Counting({}), s)
      BY <3>2 DEF CountOwed
    <3> QED
      BY <3>1, <3>2, <3>3
  <2>2. ASSUME NEW n \in Notes, NEW inApp \in InApp, Notify(p, n, inApp)
        PROVE  \E r : /\ pub' = [pub EXCEPT ![p] = r]
                      /\ \A s \in Streams : CountOwed(r, s)
                      /\ \/ r.pc = "count"
                         \/ r.pc = "snapshot" /\ r.evt.type = "notification"
    <3> DEFINE r == [pc |-> "snapshot", evt |-> Note(n), answer |-> {n}]
    <3>1. inApp
      BY <2>2 DEF Notify
    <3>2. pub' = [pub EXCEPT ![p] = r]
      BY <2>2, <3>1 DEF Notify, PubStep
    <3>3. r.pc = "snapshot" /\ r.evt.type = "notification"
      BY EventFields
    <3> HIDE DEF r
    <3> QED
      BY <3>2, <3>3 DEF CountOwed
  <2> QED
    BY <2>1, <2>2
<1>2. \A q \in Publishers : q # p => pub[q] = Idle
  BY DEF Notify, ChangeRows, Alone
<1>3. pub'[p] = new /\ \A q \in Publishers : q # p => pub'[q].pc = "idle"
  BY <1>1, <1>2 DEF CountInv, TypeOK, Idle
<1>4. subs' = subs /\ subs \subseteq Streams
  BY DEF Notify, ChangeRows, CountInv, TypeOK
<1>5. \A s \in subs' : CountOwed(pub'[p], s)
  BY <1>1, <1>3, <1>4
<1>6. \A q \in Publishers :
        ~(pub'[q].pc \in {"snapshot", "send"} /\ pub'[q].evt.type = "unread_count")
  BY <1>1, <1>3
<1> QED
  BY <1>5, <1>6 DEF CountsRight

\* A publisher pays what it owes, and its count is that of the rows.
LEMMA PublisherCounts ==
  ASSUME CountInv, NEW p \in Publishers, NEW new, PubStep(p, new),
         quiet' => quiet, row' = row, subs' = subs, lost \subseteq lost',
         stream' = stream, shown' = shown,
         quiet' /\ new.pc \in {"snapshot", "send"} /\ new.evt.type = "unread_count"
           => new.evt.count = Cardinality(Unread),
         \A s \in Streams : s \in subs /\ s \notin lost' /\ quiet' =>
           \/ CountOwed(new, s)
           \/ WillShow(s, Cardinality(Unread))'
           \/ chan'[s] = chan[s] /\ ~CountOwed(pub[p], s)
  PROVE  CountsRight'
<1> SUFFICES ASSUME quiet' PROVE CountsRight'
  BY DEF CountsRight
<1>1. /\ pub'[p] = new
      /\ \A q \in Publishers : q # p => pub'[q] = pub[q]
  BY DEF PubStep, CountInv, TypeOK
<1>2. Unread' = Unread /\ Cardinality(Unread)' = Cardinality(Unread)
  BY DEF Unread
<1>3. \A q \in Publishers :
        pub'[q].pc \in {"snapshot", "send"} /\ pub'[q].evt.type = "unread_count"
          => pub'[q].evt.count = Cardinality(Unread)'
  BY <1>1, <1>2 DEF CountInv, CountsRight
<1>4. ASSUME NEW s \in subs', s \notin lost'
      PROVE  \/ \E q \in Publishers : CountOwed(pub'[q], s)
             \/ WillShow(s, Cardinality(Unread))'
  <2>1. s \in Streams /\ s \in subs /\ s \notin lost
    BY <1>4 DEF CountInv, TypeOK
  <2>2. CASE CountOwed(new, s)
    BY <1>1, <2>2
  <2>3. CASE chan'[s] = chan[s] /\ ~CountOwed(pub[p], s)
    <3>1. \/ \E q \in Publishers : CountOwed(pub[q], s)
          \/ WillShow(s, Cardinality(Unread))
      BY <2>1 DEF CountInv, CountsRight
    <3>2. WillShow(s, Cardinality(Unread)) => WillShow(s, Cardinality(Unread))'
      BY <1>2, <2>3 DEF WillShow, StartsFrom
    <3> QED
      BY <1>1, <2>3, <3>1, <3>2
  <2> QED
    BY <1>4, <2>1, <2>2, <2>3
<1> QED
  BY <1>3, <1>4 DEF CountsRight

LEMMA PublisherNextCounts ==
  ASSUME CountInv, NEW p \in Publishers, PublisherNext(p)
  PROVE  CountsRight'
<1> DEFINE r == pub[p]
<1>0. TypeOK
  BY DEF CountInv
<1>1. CASE UnreadCount(p)
  <2> SUFFICES ASSUME quiet' PROVE CountsRight'
    BY DEF CountsRight
  <2> DEFINE new == [pc |-> "snapshot", answer |-> r.answer,
                     evt |-> Count(Cardinality(Unread))]
  <2>1. PubStep(p, new) /\ quiet
    BY <1>1 DEF UnreadCount
  <2>2. new.pc = "snapshot" /\ new.evt = Count(Cardinality(Unread))
    OBVIOUS
  <2>3. new.evt.count = Cardinality(Unread)
    BY <2>2, EventFields, UnreadIsACount
  <2>4. \A s \in Streams : CountOwed(new, s)
    BY <2>2 DEF CountOwed
  <2> HIDE DEF new
  <2> QED
    BY <1>1, <2>1, <2>3, <2>4, PublisherCounts DEF UnreadCount
<1>2. CASE Snapshot(p)
  <2> DEFINE new == [pc |-> "send", evt |-> r.evt, answer |-> r.answer,
                     targets |-> subs]
  <2>1. PubStep(p, new) /\ r.pc = "snapshot"
    BY <1>2 DEF Snapshot
  <2>2. \A s \in Streams : s \in subs => CountOwed(new, s)
    BY DEF CountOwed
  <2>3. quiet /\ new.evt.type = "unread_count"
           => new.evt.count = Cardinality(Unread)
    BY <2>1 DEF CountInv, CountsRight
  <2> HIDE DEF new
  <2> QED
    BY <1>2, <2>1, <2>2, <2>3, PublisherCounts DEF Snapshot
<1>3. ASSUME NEW t \in Streams, SendTo(p, t) PROVE CountsRight'
  <2> DEFINE new == [r EXCEPT !.targets = @ \ {t}]
  <2>1. PubStep(p, new) /\ r.pc = "send" /\ r.evt \in Events
    BY <1>0, <1>3, PubFields DEF SendTo
  <2>2. r \in [pc : {"send"}, evt : Events, answer : Answers,
               targets : SUBSET Streams]
    BY <1>0, <2>1 DEF TypeOK, PubType, Idle
  <2>3. /\ new.pc = "send" /\ new.evt = r.evt
        /\ new.targets = r.targets \ {t}
    BY <2>2
  <2>4. quiet /\ r.evt.type = "unread_count" => r.evt.count = Cardinality(Unread)
    BY <2>1 DEF CountInv, CountsRight
  <2>5. /\ \A s \in Streams : s # t => chan'[s] = chan[s]
        /\ subs' = subs /\ quiet' = quiet /\ row' = row /\ stream' = stream
        /\ shown' = shown /\ lost \subseteq lost'
        /\ t \notin lost' => chan'[t] = Append(chan[t], r.evt)
    BY <1>0, <1>3 DEF SendTo, Offer, TypeOK
  <2>6. ASSUME NEW s \in Streams, s \notin lost', quiet'
        PROVE  \/ CountOwed(new, s)
               \/ WillShow(s, Cardinality(Unread))'
               \/ chan'[s] = chan[s] /\ ~CountOwed(r, s)
    <3>1. CASE r.evt.type = "notification"
      BY <2>3, <3>1 DEF CountOwed
    <3>2. CASE r.evt.type # "notification" /\ s # t
      BY <2>1, <2>3, <2>5, <3>2 DEF CountOwed
    <3>3. CASE r.evt.type # "notification" /\ s = t
      <4>1. r.evt = Count(Cardinality(Unread))
        BY <2>1, <2>4, <2>5, <2>6, <3>3, EventFields
      <4>2. LastCountIs(Append(chan[t], r.evt), Cardinality(Unread))
        BY <1>0, <4>1, UnreadIsACount, AppendCount DEF TypeOK
      <4>3. Unread' = Unread /\ Cardinality(Unread)' = Cardinality(Unread)
        BY <2>5 DEF Unread
      <4>4. LastCountIs(chan'[s], Cardinality(Unread)')
        BY <2>5, <2>6, <3>3, <4>2, <4>3
      <4> QED
        BY <4>4 DEF WillShow
    <3> QED
      BY <3>1, <3>2, <3>3
  <2> HIDE DEF new
  <2> QED
    BY <2>1, <2>3, <2>4, <2>5, <2>6, PublisherCounts
<1>4. ASSUME NEW t \in Streams, SendPanics(p, t) PROVE CountsRight'
  <2> DEFINE new == [pc |-> "panicked"]
  <2>1. PubStep(p, new) /\ new.pc = "panicked"
    BY <1>4 DEF SendPanics
  <2> HIDE DEF new
  <2> QED
    BY <1>4, <2>1, PublisherCounts DEF SendPanics
<1>5. CASE Published(p)
  <2>1. CASE r.evt.type = "notification"
    <3> DEFINE new == Counting(r.answer)
    <3>1. PubStep(p, new) /\ new.pc = "count"
      BY <1>5, <2>1 DEF Published, Counting
    <3>2. \A s \in Streams : CountOwed(new, s)
      BY <3>1 DEF CountOwed
    <3> HIDE DEF new
    <3> QED
      BY <1>5, <3>1, <3>2, PublisherCounts DEF Published
  <2>2. CASE r.evt.type # "notification"
    <3> DEFINE new == Pushing(r.answer)
    <3>1. PubStep(p, new) /\ new.pc \in {"idle", "push"}
      BY <1>5, <2>2 DEF Published, Pushing, Idle
    <3>2. \A s \in Streams : ~CountOwed(r, s)
      BY <1>5, <2>2 DEF Published, CountOwed
    <3> HIDE DEF new
    <3> QED
      BY <1>5, <3>1, <3>2, PublisherCounts DEF Published
  <2> QED
    BY <2>1, <2>2
<1>6. CASE Answer(p) \/ AfterPanic(p)
  <2>1. PubStep(p, Idle) /\ Idle.pc = "idle"
    BY <1>6 DEF Answer, AfterPanic, Idle
  <2>2. \A s \in Streams : ~CountOwed(r, s)
    BY <1>6 DEF Answer, AfterPanic, CountOwed
  <2> QED
    BY <1>6, <2>1, <2>2, PublisherCounts DEF Answer, AfterPanic
<1> QED
  BY <1>1, <1>2, <1>3, <1>4, <1>5, <1>6 DEF PublisherNext

LEMMA StreamCounts ==
  ASSUME CountInv, NEW s \in Streams,
         Open(s) \/ StreamNext(s) \/ Leave(s) \/ Gone(s)
  PROVE  CountsRight'
<1>0. TypeOK /\ Phases
  BY DEF CountInv
<1> DEFINE c == Cardinality(Unread)
<1>1. row' = row /\ quiet' = quiet /\ pub' = pub
  BY DEF StreamNext, Open, ReadFirstCount, FirstCountFails, WriteFirstCount,
         Relay, Leave, Gone
<1>2. Unread' = Unread /\ c' = c
  BY <1>1 DEF Unread
<1>3. ASSUME NEW t \in subs', t \notin lost', t # s
      PROVE  t \in subs /\ t \notin lost /\ (WillShow(t, c) => WillShow(t, c)')
  <2>1. t \in Streams
    BY <1>0, <1>3 DEF TypeOK, StreamNext, Open, Subscribe, ReadFirstCount,
         FirstCountFails, WriteFirstCount, Relay, Receive, Leave, Unsubscribe,
         Gone, Close
  <2>2. /\ t \in subs /\ t \notin lost
        /\ chan'[t] = chan[t] /\ stream'[t] = stream[t] /\ shown'[t] = shown[t]
    BY <1>0, <1>3, <2>1 DEF TypeOK, StreamNext, StreamStep, Open, Subscribe,
         ReadFirstCount, FirstCountFails, WriteFirstCount, Relay, Receive,
         Leave, Unsubscribe, Gone, Close
  <2> QED
    BY <1>2, <2>2 DEF WillShow, StartsFrom
<1>4. ASSUME s \in subs', s \notin lost'
      PROVE  \/ s \in subs /\ s \notin lost /\ (WillShow(s, c) => WillShow(s, c)')
             \/ WillShow(s, c)'
  <2>0. c \in Counts
    BY UnreadIsACount
  <2>1. CASE Open(s)
    <3>1. chan[s] = <<>> /\ chan' = chan
      BY <1>0, <2>1 DEF Open, Subscribe, Phases
    <3>2. NoCountIn(chan'[s])
      BY <3>1 DEF NoCountIn
    <3>3. stream'[s].pc = "hello"
      BY <1>0, <2>1 DEF Open, StreamStep, TypeOK
    <3> QED
      BY <3>2, <3>3 DEF WillShow, StartsFrom
  <2>2. CASE ReadFirstCount(s)
    <3>1. stream'[s] = [pc |-> "first", count |-> c]
      BY <1>0, <2>2 DEF ReadFirstCount, StreamStep, TypeOK
    <3>2. stream'[s].pc = "first" /\ stream'[s].count = c
      BY <3>1
    <3>3. StartsFrom(s, c)' /\ chan'[s] = chan[s] /\ subs' = subs /\ lost' = lost
      BY <1>2, <2>2, <3>2 DEF StartsFrom, ReadFirstCount
    <3> QED
      BY <1>2, <1>4, <3>3 DEF WillShow
  <2>3. CASE FirstCountFails(s)
    <3>1. stream'[s].pc = "loop" /\ shown'[s] = NoCount
      BY <1>0, <2>3 DEF FirstCountFails, StreamStep, TypeOK, Phases
    <3>2. StartsFrom(s, c)' /\ chan'[s] = chan[s] /\ subs' = subs /\ lost' = lost
      BY <2>3, <3>1 DEF StartsFrom, FirstCountFails
    <3> QED
      BY <1>2, <1>4, <3>2 DEF WillShow
  <2>4. CASE WriteFirstCount(s)
    <3>1. /\ stream'[s].pc = "loop" /\ shown'[s] = stream[s].count
          /\ stream[s].pc = "first"
      BY <1>0, <2>4 DEF WriteFirstCount, StreamStep, TypeOK
    <3>2. chan'[s] = chan[s] /\ subs' = subs /\ lost' = lost
      BY <2>4 DEF WriteFirstCount
    <3>3. StartsFrom(s, c) => StartsFrom(s, c)'
      BY <1>2, <3>1 DEF StartsFrom
    <3> QED
      BY <1>2, <1>4, <3>2, <3>3 DEF WillShow
  <2>5. CASE Relay(s)
    <3>1. /\ chan[s] \in Seq(Events) /\ chan[s] # <<>>
          /\ chan'[s] = Tail(chan[s]) /\ subs' = subs /\ lost' = lost
          /\ stream' = stream /\ stream[s].pc = "loop"
      BY <1>0, <2>5 DEF Relay, Receive, TypeOK
    <3>2. Head(chan[s]).type = "notification" => shown'[s] = shown[s]
      BY <2>5 DEF Relay
    <3>3. Head(chan[s]) = Count(c) => shown'[s] = c
      <4>1. Count(c).type # "notification" /\ Count(c).count = c
        BY <2>0, EventFields
      <4> QED
        BY <1>0, <2>5, <4>1 DEF Relay, TypeOK
    <3>4. LastCountIs(chan[s], c) => WillShow(s, c)'
      BY <1>2, <2>0, <3>1, <3>3, TailCount DEF WillShow, StartsFrom
    <3>5. NoCountIn(chan[s]) /\ StartsFrom(s, c) => WillShow(s, c)'
      BY <1>2, <2>0, <3>1, <3>2, TailCount DEF WillShow, StartsFrom
    <3> QED
      BY <1>4, <3>1, <3>4, <3>5 DEF WillShow
  <2>6. CASE Leave(s)
    BY <1>4, <2>6 DEF Leave, Unsubscribe
  <2>7. CASE Gone(s)
    BY <1>0, <1>4, <2>7 DEF Gone, Close, Phases
  <2> QED
    BY <2>1, <2>2, <2>3, <2>4, <2>5, <2>6, <2>7 DEF StreamNext
<1>5. ASSUME quiet', NEW t \in subs', t \notin lost'
      PROVE  (\E p \in Publishers : CountOwed(pub'[p], t)) \/ WillShow(t, c)'
  <2>1. t \in subs /\ t \notin lost =>
          (\E p \in Publishers : CountOwed(pub[p], t)) \/ WillShow(t, c)
    BY <1>1, <1>5 DEF CountInv, CountsRight
  <2> QED
    BY <1>1, <1>3, <1>4, <1>5, <2>1
<1>6. quiet' => \A p \in Publishers :
        pub'[p].pc \in {"snapshot", "send"} /\ pub'[p].evt.type = "unread_count"
          => pub'[p].evt.count = c'
  BY <1>1, <1>2 DEF CountInv, CountsRight
<1> QED
  BY <1>5, <1>6 DEF CountsRight

LEMMA CountNext == CountInv /\ [Next]_vars => CountInv'
<1> SUFFICES ASSUME CountInv, [Next]_vars PROVE CountsRight'
  BY NextTypes, NextPhases DEF CountInv
<1>1. CASE UNCHANGED vars
  BY <1>1 DEF CountInv, CountsRight, WillShow, StartsFrom, Unread
<1> QED
  BY <1>1, NextIs, PublisherNextCounts, HandlerCounts, StreamCounts

\* Where no two handlers overlapped last, a stream that has handled its events,
\* lost none and shows a number shows that of the unread notifications, with
\* any number of streams that come, go and lag.
THEOREM QuietCountHolds == Spec => []QuietCountIsRight
<1>1. CountInv => QuietCountIsRight
  <2> SUFFICES ASSUME CountInv, quiet, \A p \in Publishers : pub[p] = Idle,
                      NEW s \in subs, s \notin lost,
                      stream[s].pc = "loop", chan[s] = <<>>
               PROVE  shown[s] \in {NoCount, Cardinality(Unread)}
    BY DEF QuietCountIsRight
  <2>1. \A p \in Publishers : ~CountOwed(pub[p], s)
    BY DEF CountOwed, Idle
  <2>2. WillShow(s, Cardinality(Unread))
    BY <2>1 DEF CountInv, CountsRight
  <2>3. ~LastCountIs(chan[s], Cardinality(Unread))
    BY DEF LastCountIs
  <2> QED
    BY <2>2, <2>3 DEF WillShow, StartsFrom
<1> QED
  BY <1>1, CountInit, CountNext, PTL DEF Spec
=============================================================================
