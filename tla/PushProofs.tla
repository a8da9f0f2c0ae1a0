----------------------------- MODULE PushProofs -----------------------------
(***************************************************************************)
(* What holds of push notifications for any number of users, endpoints,    *)
(* channels, requests, registrations and notifications.                    *)
(*                                                                         *)
(* The state has three parts that the actions change one or two at a time: *)
(* the rows, the preferences and the fan-outs; each has an invariant of    *)
(* its own, about it and the requests that work on it.                     *)
(***************************************************************************)
EXTENDS Push, TLAPS

USE DEF rows, settings, vars

-----------------------------------------------------------------------------
(***************************************************************************)
(* The requests.                                                           *)
(***************************************************************************)

\* A request that has begun has what it works on.
RequestsOK ==
  /\ client \in [Clients -> ClientRecord]
  /\ \A c \in Clients :
       /\ client[c].pc # "idle" => client[c].user \in Users
       /\ client[c].pc = "insert" => client[c].at \in Endpoints
       /\ client[c].pc \in {"update", "create"} => client[c].ch \in Channels
       /\ client[c].pc = "notify" => client[c].note \in Notes

LEMMA IdleFields ==
  /\ Idle \in ClientRecord
  /\ Idle.pc = "idle"
BY DEF Idle, ClientRecord

\* The records a request may become.
LEMMA RequestStates ==
  ASSUME NEW u \in Users
  PROVE  /\ \A e \in Endpoints :
              LET r == [Idle EXCEPT !.pc = "insert", !.user = u, !.at = e]
              IN  /\ r \in ClientRecord /\ r.pc = "insert"
                  /\ r.user = u /\ r.at = e
         /\ \A ch \in Channels, on \in BOOLEAN, chans \in SUBSET Channels :
              LET r == [Idle EXCEPT !.pc = "update", !.user = u, !.ch = ch,
                                    !.on = on, !.chans = chans]
              IN  /\ r \in ClientRecord /\ r.pc = "update"
                  /\ r.user = u /\ r.ch = ch /\ r.chans = chans
         /\ \A n \in Notes, chans \in SUBSET Channels :
              LET r == [Idle EXCEPT !.pc = "notify", !.user = u, !.note = n,
                                    !.chans = chans]
              IN  /\ r \in ClientRecord /\ r.pc = "notify"
                  /\ r.user = u /\ r.note = n
BY DEF Idle, ClientRecord

LEMMA BecomeOK ==
  ASSUME RequestsOK, NEW c \in Clients, NEW new \in ClientRecord, Become(c, new),
         new.pc # "idle" => new.user \in Users,
         new.pc = "insert" => new.at \in Endpoints,
         new.pc \in {"update", "create"} => new.ch \in Channels,
         new.pc = "notify" => new.note \in Notes
  PROVE  /\ RequestsOK' /\ client'[c] = new
         /\ \A d \in Clients : d # c => client'[d] = client[d]
BY DEF RequestsOK, Become

-----------------------------------------------------------------------------
(***************************************************************************)
(* The rows.                                                               *)
(***************************************************************************)

RowsOK ==
  /\ reg \in [Ids -> Registration \cup {Absent}]
  /\ born \in 0 .. MaxRows
  /\ Present \subseteq 1 .. born
  /\ kept \in [Endpoints -> 0 .. born]

\* What the unique index is for.
OneRowPerEndpoint ==
  \A i, j \in Present : reg[i].at = reg[j].at => i = j

RowsInv == RowsOK /\ OneRowPerEndpoint /\ RegistrationKept

LEMMA PresentRows ==
  ASSUME RowsOK
  PROVE  /\ \A i \in Ids : i \in Present <=> reg[i] \in Registration
         /\ \A i \in Ids : i \in Present <=> reg[i].at \in Endpoints
         /\ \A i \in Present : reg[i].user \in Users /\ reg[i].at \in Endpoints
BY PushAssumption DEF RowsOK, Present, Absent, Registration

\* Rows are deleted, and what was kept of them is not expected any more.
LEMMA RowsGo ==
  ASSUME RowsInv, NEW gone, reg' = Without(gone) \/ reg' = reg, born' = born,
         kept' \in [Endpoints -> 0 .. born],
         \A e \in Endpoints : kept'[e] # 0 =>
           kept'[e] = kept[e] /\ kept[e] \notin gone
  PROVE  RowsInv'
<1>1. \A i \in Ids : reg'[i] = reg[i] \/ (i \in gone /\ reg'[i] = Absent)
  BY DEF Without
<1>2. reg' \in [Ids -> Registration \cup {Absent}]
  BY DEF Without, RowsInv, RowsOK
<1>3. Present' \subseteq Present /\ \A i \in Present' : reg'[i] = reg[i]
  BY <1>1 DEF Present
<1>4. ASSUME NEW e \in Endpoints, kept'[e] # 0 PROVE reg'[kept'[e]].at = e
  <2>1. kept[e] \in Ids /\ kept'[e] = kept[e] /\ reg[kept[e]].at = e
    BY <1>4, PushAssumption DEF RowsInv, RowsOK, RegistrationKept, Ids
  <2> QED
    BY <1>1, <1>4, <2>1
<1> QED
  BY <1>2, <1>3, <1>4 DEF RowsInv, RowsOK, OneRowPerEndpoint, RegistrationKept

LEMMA RowsSame ==
  ASSUME RowsInv, UNCHANGED rows PROVE RowsInv'
BY DEF RowsInv, RowsOK, OneRowPerEndpoint, RegistrationKept, Present

LEMMA RowsInit == Init => RowsInv
<1> SUFFICES ASSUME Init PROVE RowsInv
  OBVIOUS
<1>1. Present = {}
  BY DEF Init, Present
<1> QED
  BY <1>1, PushAssumption
     DEF Init, RowsInv, RowsOK, OneRowPerEndpoint, RegistrationKept

LEMMA RowsNext ==
  ASSUME RowsInv, RequestsOK, [Next]_vars PROVE RowsInv'
<1>1. ASSUME NEW c \in Clients, NEW u \in Users, NEW e \in Endpoints,
             DropOld(c, u, e)
      PROVE  RowsInv'
  <2> DEFINE gone == { i \in Present : reg[i].at = e }
  <2>1. /\ reg' = Without(gone) \/ reg' = reg
        /\ kept' = [kept EXCEPT ![e] = 0] /\ born' = born
    BY <1>1 DEF DropOld
  <2>2. kept' \in [Endpoints -> 0 .. born]
    BY <2>1 DEF RowsInv, RowsOK
  <2>3. ASSUME NEW d \in Endpoints, kept'[d] # 0
        PROVE  kept'[d] = kept[d] /\ kept[d] \notin gone
    <3>1. d # e /\ kept'[d] = kept[d]
      BY <2>1, <2>3 DEF RowsInv, RowsOK
    <3> QED
      BY <2>3, <3>1 DEF RowsInv, RegistrationKept
  <2> HIDE DEF gone
  <2> QED
    BY <2>1, <2>2, <2>3, RowsGo
<1>2. ASSUME NEW c \in Clients, InsertRow(c) PROVE RowsInv'
  <2> DEFINE e == client[c].at
             u == client[c].user
  <2>1. CASE UNCHANGED rows
    BY <2>1, RowsSame
  <2>2. CASE /\ ~Taken(e) /\ born < MaxRows /\ born' = born + 1
             /\ reg' = [reg EXCEPT ![born'] = [user |-> u, at |-> e]]
             /\ kept' = [kept EXCEPT ![e] = born']
    <3>1. e \in Endpoints /\ u \in Users
      BY <1>2 DEF InsertRow, At, RequestsOK
    <3>2. [user |-> u, at |-> e] \in Registration
      BY <3>1 DEF Registration
    <3>3. /\ born \in 0 .. MaxRows /\ MaxRows \in Nat
          /\ born' \in Ids /\ born' \notin Present /\ born' \in 0 .. MaxRows
          /\ 1 .. born \subseteq 1 .. born' /\ born' \in 1 .. born'
      BY <2>2, PushAssumption DEF RowsInv, RowsOK, Ids
    <3>4. /\ reg' \in [Ids -> Registration \cup {Absent}]
          /\ kept' \in [Endpoints -> 0 .. born']
      BY <2>2, <3>1, <3>2, <3>3 DEF RowsInv, RowsOK
    <3>5. /\ \A i \in Ids : i # born' => reg'[i] = reg[i]
          /\ reg'[born'].at = e
      BY <2>2, <3>3 DEF RowsInv, RowsOK
    <3>6. Present' \subseteq Present \cup {born'}
      BY <3>5 DEF Present
    <3>7. OneRowPerEndpoint'
      BY <2>2, <3>3, <3>5, <3>6 DEF RowsInv, OneRowPerEndpoint, Taken, Present
    <3>8. ASSUME NEW d \in Endpoints, kept'[d] # 0 PROVE reg'[kept'[d]].at = d
      <4>1. CASE d = e
        BY <2>2, <3>1, <3>5, <4>1 DEF RowsInv, RowsOK
      <4>2. CASE d # e
        <5>1. kept'[d] = kept[d] /\ kept[d] \in 1 .. born
          BY <2>2, <3>8, <4>2 DEF RowsInv, RowsOK
        <5>2. kept[d] \in Ids /\ kept[d] # born'
          BY <2>2, <3>3, <5>1 DEF Ids
        <5> QED
          BY <3>5, <3>8, <5>1, <5>2 DEF RowsInv, RegistrationKept
      <4> QED
        BY <4>1, <4>2
    <3> QED
      BY <3>3, <3>4, <3>6, <3>7, <3>8 DEF RowsInv, RowsOK, RegistrationKept
  <2> QED
    BY <1>2, <2>1, <2>2 DEF InsertRow
<1>3. ASSUME NEW c \in Clients, NEW u \in Users, NEW e \in Endpoints,
             Unregister(c, u, e)
      PROVE  RowsInv'
  <2> DEFINE mine == { i \in Present : reg[i] = [user |-> u, at |-> e] }
  <2>1. /\ reg' = Without(mine) \/ reg' = reg
        /\ kept' = IF kept[e] \in mine THEN [kept EXCEPT ![e] = 0] ELSE kept
        /\ born' = born
    BY <1>3 DEF Unregister
  <2>2. kept' \in [Endpoints -> 0 .. born]
    BY <2>1 DEF RowsInv, RowsOK
  <2>3. ASSUME NEW d \in Endpoints, kept'[d] # 0
        PROVE  kept'[d] = kept[d] /\ kept[d] \notin mine
    <3>1. kept'[d] = kept[d] /\ (d = e => kept[d] \notin mine)
      BY <2>1, <2>3 DEF RowsInv, RowsOK
    <3>2. reg[kept[d]].at = d
      BY <2>3, <3>1 DEF RowsInv, RegistrationKept
    <3> QED
      BY <3>1, <3>2
  <2> HIDE DEF mine
  <2> QED
    BY <2>1, <2>2, <2>3, RowsGo
<1>4. ASSUME NEW n \in Notes, DropDead(n) PROVE RowsInv'
  <2> DEFINE i == fan[n].dead
  <2>1. /\ reg' = Without({i}) \/ reg' = reg
        /\ kept' = [e \in Endpoints |-> IF kept[e] = i THEN 0 ELSE kept[e]]
        /\ born' = born
    BY <1>4 DEF DropDead
  <2>2. kept' \in [Endpoints -> 0 .. born]
    BY <2>1 DEF RowsInv, RowsOK
  <2>3. \A e \in Endpoints : kept'[e] # 0 =>
          kept'[e] = kept[e] /\ kept[e] \notin {i}
    BY <2>1
  <2> HIDE DEF i
  <2> QED
    BY <2>1, <2>2, <2>3, RowsGo
<1>5. CASE Restart \/ UNCHANGED vars
  BY <1>5, RowsSame DEF Restart
<1>6. ASSUME NEW n \in Notes,
             \/ \E ch \in Channels : ReadRows(n, ch)
             \/ \E r \in fan[n].read : SendTo(n, r)
      PROVE  RowsInv'
  BY <1>6, RowsSame DEF ReadRows, SendTo
<1>7. ASSUME NEW c \in Clients,
             \/ UpdateRow(c) \/ CreatePrefs(c) \/ SendNote(c)
             \/ \E u \in Users :
                  \/ \E ch \in Channels, on \in BOOLEAN : ReadPrefs(c, u, ch, on)
                  \/ \E n \in Notes : BeginNotify(c, u, n) \/ BeginTest(c, u, n)
      PROVE  RowsInv'
  BY <1>7, RowsSame
     DEF UpdateRow, CreatePrefs, SendNote, ReadPrefs, BeginNotify, BeginTest, Begin
<1> QED
  BY <1>1, <1>2, <1>3, <1>4, <1>5, <1>6, <1>7 DEF Next, Request, Fanout

-----------------------------------------------------------------------------
(***************************************************************************)
(* The preferences.                                                        *)
(***************************************************************************)

SettingsOK ==
  /\ stored \subseteq Users
  /\ prefs \in [Users -> SUBSET Channels]
  /\ refused \in [Users -> SUBSET Channels]
  /\ everOff \in [Users -> SUBSET Channels]
  /\ changes \in 0 .. MaxChanges

\* What a request is about to write is only off where the user turned it off.
SettingsInv ==
  /\ SettingsOK
  /\ OnlyTheUserTurnsOff
  /\ \A c \in Clients : client[c].pc = "update" =>
       Channels \ everOff[client[c].user] \subseteq client[c].chans

LEMMA SettingsInit == Init => SettingsInv
BY IdleFields, PushAssumption DEF Init, SettingsInv, SettingsOK, OnlyTheUserTurnsOff

\* A request that is not a change of preferences goes on.
LEMMA SettingsFrame ==
  ASSUME SettingsInv, UNCHANGED settings,
         \A c \in Clients : client'[c] = client[c] \/ client'[c].pc # "update"
  PROVE  SettingsInv'
BY DEF SettingsInv, SettingsOK, OnlyTheUserTurnsOff

\* A change is answered, and no channel that the user did not turn off is off
\* in what is stored.
LEMMA SettingsAnswered ==
  ASSUME SettingsInv, RequestsOK, NEW c \in Clients, AnswerChange(c),
         client[c].pc \in {"update", "create"},
         everOff' = everOff, changes' = changes, stored' \subseteq Users,
         prefs' \in [Users -> SUBSET Channels],
         \A u \in stored' : \/ u \in stored /\ prefs'[u] = prefs[u]
                            \/ Channels \ everOff[u] \subseteq prefs'[u]
  PROVE  SettingsInv'
<1>1. /\ client'[c].pc = "idle"
      /\ \A d \in Clients : d # c => client'[d] = client[d]
  BY IdleFields DEF AnswerChange, Become, RequestsOK
<1>2. client[c].user \in Users /\ client[c].ch \in Channels
  BY DEF RequestsOK
<1>3. refused' \in [Users -> SUBSET Channels]
  BY <1>2 DEF AnswerChange, SettingsInv, SettingsOK
<1> QED
  BY <1>1, <1>3 DEF SettingsInv, SettingsOK, OnlyTheUserTurnsOff

LEMMA SettingsNext ==
  ASSUME SettingsInv, RequestsOK, [Next]_vars PROVE SettingsInv'
<1>1. ASSUME NEW c \in Clients, NEW u \in Users, NEW ch \in Channels,
             NEW on \in BOOLEAN, ReadPrefs(c, u, ch, on)
      PROVE  SettingsInv'
  <2>1. PICK base \in SUBSET Channels :
          /\ Channels \ everOff[u] \subseteq base
          /\ Become(c, [Idle EXCEPT
               !.pc = "update", !.user = u, !.ch = ch, !.on = on,
               !.chans = IF on THEN base \cup {ch} ELSE base \ {ch}])
    <3>1. PICK ok \in BOOLEAN :
            Become(c, [Idle EXCEPT
              !.pc = "update", !.user = u, !.ch = ch, !.on = on,
              !.chans = IF on THEN Loaded(u, ok) \cup {ch}
                        ELSE Loaded(u, ok) \ {ch}])
      BY <1>1 DEF ReadPrefs, Works
    <3>2. /\ Loaded(u, ok) \in SUBSET Channels
          /\ Channels \ everOff[u] \subseteq Loaded(u, ok)
      BY DEF Loaded, SettingsInv, SettingsOK, OnlyTheUserTurnsOff
    <3> QED
      BY <3>1, <3>2
  <2> DEFINE chans == IF on THEN base \cup {ch} ELSE base \ {ch}
             new == [Idle EXCEPT !.pc = "update", !.user = u, !.ch = ch,
                                 !.on = on, !.chans = chans]
  <2>2. /\ new \in ClientRecord /\ new.pc = "update"
        /\ new.user = u /\ new.chans = chans
    BY DEF Idle, ClientRecord
  <2>3. Become(c, new)
    BY <2>1
  <2> HIDE DEF new
  <2>4. /\ client'[c] = new
        /\ \A d \in Clients : d # c => client'[d] = client[d]
    BY <2>3 DEF Become, RequestsOK
  <2>5. /\ everOff' \in [Users -> SUBSET Channels]
        /\ \A v \in Users : everOff[v] \subseteq everOff'[v]
        /\ ~on => ch \in everOff'[u]
    BY <1>1 DEF ReadPrefs, SettingsInv, SettingsOK
  <2>6. Channels \ everOff'[u] \subseteq chans
    BY <2>1, <2>5
  <2>7. changes' \in 0 .. MaxChanges
    BY <1>1, PushAssumption DEF ReadPrefs, SettingsInv, SettingsOK
  <2>8. UNCHANGED <<stored, prefs, refused>>
    BY <1>1 DEF ReadPrefs
  <2>9. SettingsOK' /\ OnlyTheUserTurnsOff'
    BY <2>5, <2>7, <2>8 DEF SettingsInv, SettingsOK, OnlyTheUserTurnsOff
  <2>10. ASSUME NEW d \in Clients, client'[d].pc = "update"
         PROVE  Channels \ everOff'[client'[d].user] \subseteq client'[d].chans
    <3>1. CASE d = c
      BY <2>2, <2>4, <2>6, <3>1
    <3>2. CASE d # c
      <4>1. client'[d] = client[d] /\ client[d].user \in Users
        BY <2>4, <2>10, <3>2 DEF RequestsOK
      <4> QED
        BY <2>5, <2>10, <4>1 DEF SettingsInv
    <3> QED
      BY <3>1, <3>2
  <2> QED
    BY <2>9, <2>10 DEF SettingsInv
<1>2. ASSUME NEW c \in Clients, UpdateRow(c) PROVE SettingsInv'
  <2> DEFINE me == client[c]
  <2>1. /\ me.pc = "update" /\ me.user \in Users /\ me.chans \subseteq Channels
        /\ me \in ClientRecord
    BY <1>2 DEF UpdateRow, At, RequestsOK, ClientRecord
  <2>2. CASE AnswerChange(c)
    <3>1. \/ prefs' = prefs
          \/ prefs' = [prefs EXCEPT ![me.user] = me.chans]
      BY <1>2, <2>1 DEF UpdateRow
    <3>2. Channels \ everOff[me.user] \subseteq me.chans
      BY <2>1 DEF SettingsInv
    <3>3. /\ prefs' \in [Users -> SUBSET Channels]
          /\ \A u \in Users : \/ prefs'[u] = prefs[u]
                              \/ Channels \ everOff[u] \subseteq prefs'[u]
      BY <2>1, <3>1, <3>2 DEF SettingsInv, SettingsOK
    <3>4. UNCHANGED <<stored, everOff, changes>> /\ stored \subseteq Users
      BY <1>2 DEF UpdateRow, SettingsInv, SettingsOK
    <3> QED
      BY <2>1, <2>2, <3>3, <3>4, SettingsAnswered
  <2>3. CASE /\ Become(c, [me EXCEPT !.pc = "create"])
             /\ UNCHANGED <<prefs, refused>>
    <3>1. [me EXCEPT !.pc = "create"].pc = "create"
      BY <2>1 DEF ClientRecord
    <3>2. \A d \in Clients : client'[d] = client[d] \/ client'[d].pc # "update"
      BY <2>3, <3>1 DEF Become, RequestsOK
    <3> QED
      BY <1>2, <2>3, <3>2, SettingsFrame DEF UpdateRow
  <2> QED
    BY <1>2, <2>2, <2>3 DEF UpdateRow
<1>3. ASSUME NEW c \in Clients, CreatePrefs(c) PROVE SettingsInv'
  <2>1. client[c].pc = "create" /\ client[c].user \in Users
    BY <1>3 DEF CreatePrefs, At, RequestsOK
  <2>2. \/ UNCHANGED <<stored, prefs>>
        \/ /\ stored' = stored \cup {client[c].user}
           /\ prefs' = [prefs EXCEPT ![client[c].user] = Channels]
    BY <1>3 DEF CreatePrefs
  <2>3. /\ stored' \subseteq Users /\ prefs' \in [Users -> SUBSET Channels]
        /\ \A u \in stored' : \/ u \in stored /\ prefs'[u] = prefs[u]
                              \/ Channels \ everOff[u] \subseteq prefs'[u]
    BY <2>1, <2>2 DEF SettingsInv, SettingsOK
  <2> QED
    BY <1>3, <2>1, <2>3, SettingsAnswered DEF CreatePrefs
<1>4. ASSUME NEW c \in Clients,
             \/ InsertRow(c) \/ SendNote(c)
             \/ \E u \in Users :
                  \/ \E e \in Endpoints : DropOld(c, u, e) \/ Unregister(c, u, e)
                  \/ \E n \in Notes : BeginNotify(c, u, n) \/ BeginTest(c, u, n)
      PROVE  SettingsInv'
  <2>1. UNCHANGED settings
    BY <1>4 DEF InsertRow, SendNote, DropOld, Unregister, BeginNotify,
                BeginTest, Begin
  <2>2. client' = client \/ \E new : Become(c, new) /\ new.pc # "update"
    <3>1. ASSUME NEW u \in Users, NEW e \in Endpoints, DropOld(c, u, e)
          PROVE  \E new : Become(c, new) /\ new.pc # "update"
      <4>1. [Idle EXCEPT !.pc = "insert", !.user = u, !.at = e].pc = "insert"
        BY DEF Idle
      <4> QED
        BY <3>1, <4>1 DEF DropOld
    <3>2. ASSUME NEW u \in Users, NEW n \in Notes, NEW chans, Begin(c, u, n, chans)
          PROVE  \E new : Become(c, new) /\ new.pc # "update"
      <4>1. [Idle EXCEPT !.pc = "notify", !.user = u, !.note = n,
                         !.chans = chans].pc = "notify"
        BY DEF Idle
      <4> QED
        BY <3>2, <4>1 DEF Begin
    <3> QED
      BY <1>4, <3>1, <3>2, IdleFields
         DEF InsertRow, SendNote, Unregister, BeginNotify, BeginTest
  <2>3. \A d \in Clients : client'[d] = client[d] \/ client'[d].pc # "update"
    BY <2>2 DEF Become, RequestsOK
  <2> QED
    BY <2>1, <2>3, SettingsFrame
<1>5. CASE Restart
  <2>1. \A d \in Clients : client'[d].pc # "update"
    BY <1>5, IdleFields DEF Restart
  <2> QED
    BY <1>5, <2>1, SettingsFrame DEF Restart
<1>6. ASSUME UNCHANGED <<settings, client>> PROVE SettingsInv'
  BY <1>6, SettingsFrame
<1>7. ASSUME NEW n \in Notes, Fanout(n) PROVE SettingsInv'
  BY <1>6, <1>7 DEF Fanout, ReadRows, SendTo, DropDead
<1> QED
  BY <1>1, <1>2, <1>3, <1>4, <1>5, <1>6, <1>7 DEF Next, Request

-----------------------------------------------------------------------------
(***************************************************************************)
(* The fan-outs.                                                           *)
(***************************************************************************)

\* A fan-out has a channel still to do, or has read its rows, each of its own
\* endpoint, or has sent to an endpoint.
FanGood(f, p) ==
  /\ f.pc \in {"new", "begun"} => \A e \in Endpoints : p[e] = 0
  /\ f.pc # "run" => f.todo = {} /\ f.read = {}
  /\ \A e \in Endpoints : /\ p[e] <= 1
                          /\ ChannelOf[e] \in f.todo => p[e] = 0
  /\ \A r \in f.read : p[r.at] = 0 /\ ChannelOf[r.at] \notin f.todo
  /\ \A r, q \in f.read : r.at = q.at => r = q

\* A notification is begun by one request.
Notifying ==
  /\ \A c \in Clients :
       client[c].pc = "notify" => fan[client[c].note].pc = "begun"
  /\ \A c, d \in Clients :
       /\ client[c].pc = "notify" /\ client[d].pc = "notify"
       /\ client[c].note = client[d].note
       => c = d

FanInv ==
  /\ fan \in [Notes -> FanRecord]
  /\ pushed \in [Notes -> [Endpoints -> Nat]]
  /\ Notifying
  /\ \A n \in Notes : FanGood(fan[n], pushed[n])

LEMMA FanInit == Init => FanInv
<1> SUFFICES ASSUME Init PROVE FanInv
  OBVIOUS
<1>1. /\ New \in FanRecord /\ New.pc = "new" /\ New.todo = {} /\ New.read = {}
  BY PushAssumption DEF New, FanRecord
<1>2. \A c \in Clients : client[c].pc # "notify"
  BY IdleFields DEF Init
<1>3. \A n \in Notes : fan[n] = New /\ \A e \in Endpoints : pushed[n][e] = 0
  BY DEF Init
<1> QED
  BY <1>1, <1>2, <1>3 DEF Init, FanInv, Notifying, FanGood

LEMMA FanoutStep ==
  ASSUME FanInv, NEW n \in Notes, NEW f \in FanRecord,
         NEW p \in [Endpoints -> Nat],
         fan' = [fan EXCEPT ![n] = f], pushed' = [pushed EXCEPT ![n] = p],
         f.pc = fan[n].pc, FanGood(f, p), client' = client
  PROVE  FanInv'
<1>1. /\ fan' \in [Notes -> FanRecord]
      /\ pushed' \in [Notes -> [Endpoints -> Nat]]
      /\ fan'[n] = f /\ pushed'[n] = p
      /\ \A m \in Notes : m # n => fan'[m] = fan[m] /\ pushed'[m] = pushed[m]
  BY DEF FanInv
<1>2. \A m \in Notes : FanGood(fan'[m], pushed'[m])
  BY <1>1 DEF FanInv
<1>3. \A m : fan[m].pc = "begun" => fan'[m].pc = "begun"
  BY DEF FanInv
<1> QED
  BY <1>1, <1>2, <1>3 DEF FanInv, Notifying

LEMMA FanoutNext ==
  ASSUME FanInv, RowsInv, NEW n \in Notes, Fanout(n)
  PROVE  FanInv'
<1> DEFINE f == fan[n]
           p == pushed[n]
<1>0. f \in FanRecord /\ p \in [Endpoints -> Nat] /\ FanGood(f, p)
  BY DEF FanInv
<1>p. pushed = [pushed EXCEPT ![n] = p]
  BY DEF FanInv
<1>1. ASSUME NEW ch \in Channels, ReadRows(n, ch) PROVE FanInv'
  <2>1. PICK mine \in SUBSET Present :
          /\ \A i \in mine : ChannelOf[reg[i].at] = ch
          /\ fan' = [fan EXCEPT
               ![n].todo = @ \ {ch},
               ![n].read = { [id |-> i, at |-> reg[i].at] : i \in mine }]
    <3>1. PICK ok \in BOOLEAN :
            LET mine == { i \in Present : /\ ok
                                          /\ reg[i].user = fan[n].user
                                          /\ ChannelOf[reg[i].at] = ch }
            IN  fan' = [fan EXCEPT
                  ![n].todo = @ \ {ch},
                  ![n].read = { [id |-> i, at |-> reg[i].at] : i \in mine }]
      BY <1>1 DEF ReadRows, Works
    <3> DEFINE mine == { i \in Present : /\ ok
                                         /\ reg[i].user = fan[n].user
                                         /\ ChannelOf[reg[i].at] = ch }
    <3>2. mine \in SUBSET Present /\ \A i \in mine : ChannelOf[reg[i].at] = ch
      OBVIOUS
    <3>3. fan' = [fan EXCEPT
                  ![n].todo = @ \ {ch},
                  ![n].read = { [id |-> i, at |-> reg[i].at] : i \in mine }]
      BY <3>1
    <3> HIDE DEF mine
    <3> QED
      BY <3>2, <3>3
  <2> DEFINE read == { [id |-> i, at |-> reg[i].at] : i \in mine }
             new == [f EXCEPT !.todo = @ \ {ch}, !.read = read]
  <2>2. read \subseteq [id : Ids, at : Endpoints]
    BY PresentRows DEF RowsInv, Present
  <2>3. \A r, q \in read : r.at = q.at => r = q
    BY DEF RowsInv, OneRowPerEndpoint
  <2>4. \A r \in read : ChannelOf[r.at] = ch /\ r.at \in Endpoints
    BY <2>1, <2>2
  <2>5. fan' = [fan EXCEPT ![n] = new]
    BY <2>1 DEF FanInv
  <2> HIDE DEF read
  <2>6. /\ new \in FanRecord /\ new.pc = f.pc /\ new.todo = f.todo \ {ch}
        /\ new.read = read
    BY <1>0, <2>2 DEF FanRecord
  <2>7. f.pc = "run" /\ ch \in f.todo /\ UNCHANGED <<client, pushed>>
    BY <1>1 DEF ReadRows
  <2> HIDE DEF new
  <2>8. FanGood(new, p)
    BY <1>0, <2>3, <2>4, <2>6, <2>7 DEF FanGood
  <2> QED
    BY <1>0, <1>p, <2>5, <2>6, <2>7, <2>8, FanoutStep
<1>2. ASSUME NEW r \in f.read, SendTo(n, r) PROVE FanInv'
  <2>1. r \in [id : Ids, at : Endpoints] /\ r.at \in Endpoints /\ r.id \in 0 .. MaxRows
    BY <1>0 DEF FanRecord, Ids
  <2>2. PICK dead \in Dead(r) :
          fan' = [fan EXCEPT ![n].read = @ \ {r}, ![n].dead = dead]
    BY <1>2 DEF SendTo
  <2> DEFINE new == [f EXCEPT !.read = @ \ {r}, !.dead = dead]
             more == [p EXCEPT ![r.at] = @ + 1]
  <2>3. fan' = [fan EXCEPT ![n] = new]
    BY <2>2 DEF FanInv
  <2>4. pushed' = [pushed EXCEPT ![n] = more] /\ client' = client
    BY <1>2 DEF SendTo, FanInv
  <2>5. /\ new \in FanRecord /\ new.pc = f.pc /\ new.todo = f.todo
        /\ new.read = f.read \ {r}
    <3>1. dead \in 0 .. MaxRows
      BY <2>1, PushAssumption DEF Dead
    <3> QED
      BY <1>0, <3>1 DEF FanRecord
  <2>6. /\ more \in [Endpoints -> Nat] /\ more[r.at] = p[r.at] + 1
        /\ \A e \in Endpoints : e # r.at => more[e] = p[e]
    BY <1>0, <2>1
  <2> HIDE DEF new, more
  <2>7. p[r.at] = 0 /\ ChannelOf[r.at] \notin f.todo /\ f.pc = "run"
    BY <1>0, <1>2 DEF FanGood
  <2>8. \A q \in new.read : q.at \in Endpoints /\ q.at # r.at
    BY <1>0, <2>5 DEF FanRecord, FanGood
  <2>9. FanGood(new, more)
    BY <1>0, <2>5, <2>6, <2>7, <2>8 DEF FanGood
  <2> QED
    BY <2>3, <2>4, <2>5, <2>6, <2>9, FanoutStep
<1>3. CASE DropDead(n)
  <2> DEFINE new == [f EXCEPT !.dead = 0]
  <2>1. fan' = [fan EXCEPT ![n] = new] /\ UNCHANGED <<client, pushed>>
    BY <1>3 DEF DropDead, FanInv
  <2>2. /\ new \in FanRecord /\ new.pc = f.pc /\ new.todo = f.todo
        /\ new.read = f.read
    BY <1>0, PushAssumption DEF FanRecord
  <2> HIDE DEF new
  <2>3. FanGood(new, p)
    BY <1>0, <2>2 DEF FanGood
  <2> QED
    BY <1>0, <1>p, <2>1, <2>2, <2>3, FanoutStep
<1> QED
  BY <1>1, <1>2, <1>3 DEF Fanout

\* A request that begins or ends, where no other part of the fan-out changes.
LEMMA NotifyFrame ==
  ASSUME FanInv, UNCHANGED <<fan, pushed>>,
         \A c \in Clients : client'[c] = client[c] \/ client'[c].pc # "notify"
  PROVE  FanInv'
<1>1. \A c \in Clients : client'[c].pc = "notify" => client'[c] = client[c]
  OBVIOUS
<1>2. Notifying'
  BY <1>1 DEF FanInv, Notifying
<1> QED
  BY <1>2 DEF FanInv

LEMMA RequestFans ==
  ASSUME FanInv, RequestsOK, SettingsInv, NEW c \in Clients, Request(c)
  PROVE  FanInv'
<1>1. ASSUME NEW u \in Users, NEW n \in Notes, NEW chans \in SUBSET Channels,
             Begin(c, u, n, chans), refused[u] \subseteq Channels
      PROVE  FanInv'
  <2> DEFINE f == fan[n]
             req == [Idle EXCEPT !.pc = "notify", !.user = u, !.note = n,
                                 !.chans = chans]
             new == [f EXCEPT !.pc = "begun", !.off = refused[u]]
  <2>1. /\ req.pc = "notify" /\ req.note = n
        /\ Become(c, req) /\ pushed' = pushed /\ f.pc = "new"
    BY <1>1 DEF Begin, Idle
  <2>2. f \in FanRecord /\ fan' = [fan EXCEPT ![n] = new]
    BY <1>1 DEF Begin, FanInv
  <2>3. /\ new \in FanRecord /\ new.pc = "begun"
        /\ new.todo = f.todo /\ new.read = f.read
    BY <1>1, <2>2 DEF FanRecord
  <2>4. /\ client'[c] = req
        /\ \A d \in Clients : d # c => client'[d] = client[d]
    BY <2>1 DEF Become, RequestsOK
  <2> HIDE DEF new, req
  <2>5. FanGood(new, pushed[n])
    BY <2>1, <2>3 DEF FanInv, FanGood
  <2>6. /\ fan' \in [Notes -> FanRecord] /\ fan'[n] = new
        /\ \A m \in Notes : m # n => fan'[m] = fan[m]
    BY <2>2, <2>3 DEF FanInv
  <2>7. \A d \in Clients : client[d].pc = "notify" =>
          client[d].note \in Notes /\ client[d].note # n
    BY <2>1 DEF FanInv, Notifying, RequestsOK
  <2>8. Notifying'
    <3>1. \A d \in Clients : client'[d].pc = "notify" =>
            /\ d = c => client'[d].note = n
            /\ d # c => /\ client[d].pc = "notify"
                       /\ client'[d].note = client[d].note
                       /\ client[d].note \in Notes /\ client[d].note # n
      BY <2>1, <2>4, <2>7
    <3>2. \A d \in Clients : client'[d].pc = "notify" =>
            fan'[client'[d].note].pc = "begun"
      BY <2>3, <2>6, <3>1 DEF FanInv, Notifying
    <3>3. \A d, e \in Clients :
            /\ client'[d].pc = "notify" /\ client'[e].pc = "notify"
            /\ client'[d].note = client'[e].note
            => d = e
      BY <3>1 DEF FanInv, Notifying
    <3> QED
      BY <3>2, <3>3 DEF Notifying
  <2> QED
    BY <2>1, <2>5, <2>6, <2>8 DEF FanInv
<1>2. CASE SendNote(c)
  <2> DEFINE n == client[c].note
             f == fan[n]
  <2>1. n \in Notes /\ f.pc = "begun" /\ client[c].user \in Users
        /\ client[c] \in ClientRecord /\ client[c].pc = "notify"
    BY <1>2 DEF SendNote, At, RequestsOK, FanInv, Notifying
  <2>2. /\ client'[c].pc = "idle"
        /\ \A d \in Clients : d # c => client'[d] = client[d]
    BY <1>2, IdleFields DEF SendNote, Become, RequestsOK
  <2>3. CASE fan' = fan
    <3>1. \A d \in Clients : client'[d] = client[d] \/ client'[d].pc # "notify"
      BY <2>2
    <3> QED
      BY <1>2, <2>3, <3>1, NotifyFrame DEF SendNote
  <2>4. CASE fan' # fan
    <3> DEFINE todo == client[c].chans \cap { ChannelOf[e] : e \in Endpoints }
               new == [f EXCEPT !.pc = "run", !.user = client[c].user,
                                !.todo = todo]
    <3>1. fan' = [fan EXCEPT ![n] = new] /\ pushed' = pushed
      BY <1>2, <2>1, <2>4 DEF SendNote, FanInv
    <3>2. f \in FanRecord /\ todo \subseteq Channels
      BY <2>1 DEF FanInv, ClientRecord
    <3> HIDE DEF todo
    <3>3. /\ new \in FanRecord /\ new.pc = "run" /\ new.read = f.read
      BY <2>1, <3>2 DEF FanRecord
    <3> HIDE DEF new
    <3>4. FanGood(new, pushed[n])
      <4>1. f.read = {} /\ \A e \in Endpoints : pushed[n][e] = 0
        BY <2>1 DEF FanInv, FanGood
      <4> QED
        BY <3>3, <4>1 DEF FanGood
    <3>5. /\ fan' \in [Notes -> FanRecord] /\ fan'[n] = new
          /\ \A m \in Notes : m # n => fan'[m] = fan[m]
      BY <2>1, <3>1, <3>3 DEF FanInv
    <3>6. \A d \in Clients : client'[d].pc = "notify" =>
            client'[d] = client[d] /\ client[d].note \in Notes /\ client[d].note # n
      BY <2>1, <2>2 DEF FanInv, Notifying, RequestsOK
    <3>7. Notifying'
      BY <3>5, <3>6 DEF FanInv, Notifying
    <3> QED
      BY <3>1, <3>4, <3>5, <3>7 DEF FanInv
  <2> QED
    BY <2>3, <2>4
<1>3. ASSUME UNCHANGED <<fan, pushed>>,
             client' = client \/ \E new : Become(c, new) /\ new.pc # "notify"
      PROVE  FanInv'
  <2>1. \A d \in Clients : client'[d] = client[d] \/ client'[d].pc # "notify"
    BY <1>3 DEF Become, RequestsOK
  <2> QED
    BY <1>3, <2>1, NotifyFrame
<1>4. CASE InsertRow(c) \/ CreatePrefs(c)
  BY <1>3, <1>4, IdleFields DEF InsertRow, CreatePrefs, AnswerChange
<1>5. CASE UpdateRow(c)
  <2>1. [client[c] EXCEPT !.pc = "create"].pc = "create"
    BY DEF RequestsOK, ClientRecord
  <2>2. \E new : Become(c, new) /\ new.pc # "notify"
    BY <1>5, <2>1, IdleFields DEF UpdateRow, AnswerChange
  <2> QED
    BY <1>3, <1>5, <2>2 DEF UpdateRow
<1>6. ASSUME NEW u \in Users, NEW e \in Endpoints,
             DropOld(c, u, e) \/ Unregister(c, u, e)
      PROVE  FanInv'
  <2>1. [Idle EXCEPT !.pc = "insert", !.user = u, !.at = e].pc = "insert"
    BY DEF Idle
  <2>2. client' = client \/ \E new : Become(c, new) /\ new.pc # "notify"
    BY <1>6, <2>1 DEF DropOld, Unregister
  <2> QED
    BY <1>3, <1>6, <2>2 DEF DropOld, Unregister
<1>7. ASSUME NEW u \in Users, NEW ch \in Channels, NEW on \in BOOLEAN,
             ReadPrefs(c, u, ch, on)
      PROVE  FanInv'
  <2>1. \A chans : [Idle EXCEPT !.pc = "update", !.user = u, !.ch = ch,
                                !.on = on, !.chans = chans].pc = "update"
    BY DEF Idle
  <2>2. \E new : Become(c, new) /\ new.pc # "notify"
    BY <1>7, <2>1 DEF ReadPrefs
  <2> QED
    BY <1>3, <1>7, <2>2 DEF ReadPrefs
<1>8. ASSUME NEW u \in Users, NEW n \in Notes,
             BeginNotify(c, u, n) \/ BeginTest(c, u, n)
      PROVE  FanInv'
  <2>1. \A ok \in BOOLEAN : Loaded(u, ok) \in SUBSET Channels
    BY DEF Loaded, SettingsInv, SettingsOK
  <2>2. \E chans \in SUBSET Channels : Begin(c, u, n, chans)
    BY <1>8, <2>1 DEF BeginNotify, BeginTest, Works
  <2>3. refused[u] \subseteq Channels
    BY DEF SettingsInv, SettingsOK
  <2> QED
    BY <1>1, <2>2, <2>3
<1> QED
  BY <1>2, <1>4, <1>5, <1>6, <1>7, <1>8 DEF Request

LEMMA FanNext ==
  ASSUME FanInv, RequestsOK, RowsInv, SettingsInv, [Next]_vars
  PROVE  FanInv'
<1>1. CASE Restart
  <2> DEFINE lost == [New EXCEPT !.pc = "lost"]
  <2>1. /\ New \in FanRecord /\ New.pc = "new" /\ New.todo = {} /\ New.read = {}
        /\ lost \in FanRecord /\ lost.pc = "lost" /\ lost.todo = {}
        /\ lost.read = {}
    BY PushAssumption DEF New, FanRecord
  <2>2. \A n \in Notes : fan'[n] = IF fan[n].pc = "new" THEN New ELSE lost
    BY <1>1 DEF Restart
  <2>3. fan' = [n \in Notes |-> IF fan[n].pc = "new" THEN New ELSE lost]
    BY <1>1 DEF Restart
  <2> HIDE DEF lost
  <2>4. fan' \in [Notes -> FanRecord] /\ pushed' = pushed
    BY <1>1, <2>1, <2>3 DEF Restart
  <2>5. \A c \in Clients : client'[c].pc # "notify"
    BY <1>1, IdleFields DEF Restart
  <2>6. ASSUME NEW n \in Notes PROVE FanGood(fan'[n], pushed'[n])
    <3>1. FanGood(fan[n], pushed[n])
      BY DEF FanInv
    <3>2. CASE fan[n].pc = "new"
      BY <2>1, <2>2, <2>4, <3>1, <3>2 DEF FanGood
    <3>3. CASE fan[n].pc # "new"
      BY <2>1, <2>2, <2>4, <3>1, <3>3 DEF FanGood
    <3> QED
      BY <3>2, <3>3
  <2> QED
    BY <2>4, <2>5, <2>6 DEF FanInv, Notifying
<1>2. CASE UNCHANGED vars
  BY <1>2, NotifyFrame
<1> QED
  BY <1>1, <1>2, RequestFans, FanoutNext DEF Next

-----------------------------------------------------------------------------
LEMMA RequestsInit == Init => RequestsOK
BY IdleFields DEF Init, RequestsOK

LEMMA RequestsNext ==
  ASSUME RequestsOK, SettingsInv, [Next]_vars PROVE RequestsOK'
<1>1. ASSUME NEW c \in Clients, Become(c, Idle) PROVE RequestsOK'
  BY <1>1, IdleFields, BecomeOK
<1>2. ASSUME NEW c \in Clients, NEW u \in Users, NEW e \in Endpoints,
             DropOld(c, u, e)
      PROVE  RequestsOK'
  <2> DEFINE new == [Idle EXCEPT !.pc = "insert", !.user = u, !.at = e]
  <2>1. /\ new \in ClientRecord /\ new.pc = "insert"
        /\ new.user = u /\ new.at = e
    BY DEF Idle, ClientRecord
  <2>2. Become(c, new)
    BY <1>2 DEF DropOld
  <2> HIDE DEF new
  <2> QED
    BY <2>1, <2>2, BecomeOK
<1>3. ASSUME NEW c \in Clients, NEW u \in Users, NEW ch \in Channels,
             NEW on \in BOOLEAN, ReadPrefs(c, u, ch, on)
      PROVE  RequestsOK'
  <2>1. PICK chans \in SUBSET Channels :
          Become(c, [Idle EXCEPT !.pc = "update", !.user = u, !.ch = ch,
                                 !.on = on, !.chans = chans])
    <3>1. \A ok \in BOOLEAN : Loaded(u, ok) \in SUBSET Channels
      BY DEF Loaded, SettingsInv, SettingsOK
    <3>2. PICK ok \in BOOLEAN :
            Become(c, [Idle EXCEPT
              !.pc = "update", !.user = u, !.ch = ch, !.on = on,
              !.chans = IF on THEN Loaded(u, ok) \cup {ch}
                        ELSE Loaded(u, ok) \ {ch}])
      BY <1>3 DEF ReadPrefs, Works
    <3>3. (IF on THEN Loaded(u, ok) \cup {ch} ELSE Loaded(u, ok) \ {ch})
            \in SUBSET Channels
      BY <3>1
    <3> QED
      BY <3>2, <3>3
  <2> DEFINE new == [Idle EXCEPT !.pc = "update", !.user = u, !.ch = ch,
                                 !.on = on, !.chans = chans]
  <2>2. /\ new \in ClientRecord /\ new.pc = "update"
        /\ new.user = u /\ new.ch = ch
    BY DEF Idle, ClientRecord
  <2>3. Become(c, new)
    BY <2>1
  <2> HIDE DEF new
  <2> QED
    BY <2>2, <2>3, BecomeOK
<1>4. ASSUME NEW c \in Clients, UpdateRow(c) PROVE RequestsOK'
  <2>1. CASE Become(c, Idle)
    BY <1>1, <2>1
  <2>2. CASE Become(c, [client[c] EXCEPT !.pc = "create"])
    <3> DEFINE new == [client[c] EXCEPT !.pc = "create"]
    <3>1. /\ client[c] \in ClientRecord /\ client[c].pc = "update"
          /\ client[c].user \in Users /\ client[c].ch \in Channels
      BY <1>4 DEF UpdateRow, At, RequestsOK
    <3>2. /\ new \in ClientRecord /\ new.pc = "create"
          /\ new.user = client[c].user /\ new.ch = client[c].ch
      BY <3>1 DEF ClientRecord
    <3>3. Become(c, new)
      BY <2>2
    <3> HIDE DEF new
    <3> QED
      BY <3>1, <3>2, <3>3, BecomeOK
  <2> QED
    BY <1>4, <2>1, <2>2 DEF UpdateRow, AnswerChange
<1>5. ASSUME NEW c \in Clients, NEW u \in Users, NEW n \in Notes,
             BeginNotify(c, u, n) \/ BeginTest(c, u, n)
      PROVE  RequestsOK'
  <2>1. \A ok \in BOOLEAN : Loaded(u, ok) \in SUBSET Channels
    BY DEF Loaded, SettingsInv, SettingsOK
  <2>2. PICK chans \in SUBSET Channels : Begin(c, u, n, chans)
    BY <1>5, <2>1 DEF BeginNotify, BeginTest, Works
  <2> DEFINE new == [Idle EXCEPT !.pc = "notify", !.user = u, !.note = n,
                                 !.chans = chans]
  <2>3. /\ new \in ClientRecord /\ new.pc = "notify"
        /\ new.user = u /\ new.note = n
    BY DEF Idle, ClientRecord
  <2>4. Become(c, new)
    BY <2>2 DEF Begin
  <2> HIDE DEF new
  <2> QED
    BY <2>3, <2>4, BecomeOK
<1>6. ASSUME NEW c \in Clients, InsertRow(c) \/ CreatePrefs(c) \/ SendNote(c)
      PROVE  RequestsOK'
  BY <1>1, <1>6 DEF InsertRow, CreatePrefs, SendNote, AnswerChange
<1>7. ASSUME client' = client PROVE RequestsOK'
  BY <1>7 DEF RequestsOK
<1>8. CASE Restart
  BY <1>8, IdleFields DEF Restart, RequestsOK
<1>9. ASSUME NEW c \in Clients, NEW u \in Users, NEW e \in Endpoints,
             Unregister(c, u, e)
      PROVE  RequestsOK'
  BY <1>7, <1>9 DEF Unregister
<1>10. ASSUME NEW n \in Notes, Fanout(n) PROVE RequestsOK'
  BY <1>7, <1>10 DEF Fanout, ReadRows, SendTo, DropDead
<1>11. CASE UNCHANGED vars
  BY <1>7, <1>11
<1> QED
  BY <1>2, <1>3, <1>4, <1>5, <1>6, <1>8, <1>9, <1>10, <1>11 DEF Next, Request

PushInv == RequestsOK /\ RowsInv /\ SettingsInv /\ FanInv

LEMMA PushInvariant == Spec => []PushInv
<1>1. Init => PushInv
  BY RequestsInit, RowsInit, SettingsInit, FanInit DEF PushInv
<1>2. PushInv /\ [Next]_vars => PushInv'
  BY RequestsNext, RowsNext, SettingsNext, FanNext DEF PushInv
<1> QED
  BY <1>1, <1>2, PTL DEF Spec

-----------------------------------------------------------------------------
\* Every variable of the registrations, preferences and fan-outs keeps its
\* type, and no row has an id that was not given out, for any number of
\* users, endpoints, requests and notifications.
THEOREM PushTypes == Spec => []TypeOK
<1>1. PushInv => TypeOK
  BY DEF PushInv, RequestsOK, RowsInv, RowsOK, SettingsInv, SettingsOK, FanInv,
         TypeOK
<1> QED
  BY <1>1, PushInvariant, PTL

\* A registration answered with 201 (RegisterWebPush, RegisterDevice) is in
\* the table until its endpoint is registered again, its user unregisters it
\* or a push to this row finds it dead, whatever fan-outs with older rows do.
THEOREM RegistrationsKept == Spec => []RegistrationKept
<1>1. PushInv => RegistrationKept
  BY DEF PushInv, RowsInv
<1> QED
  BY <1>1, PushInvariant, PTL

\* fanOut sends a notification to an endpoint once at most: a channel's rows
\* are read once, and the unique index keeps an endpoint to one row.
THEOREM SentOnce == Spec => []PushedOnce
<1>1. PushInv => PushedOnce
  BY DEF PushInv, FanInv, FanGood, PushedOnce
<1> QED
  BY <1>1, PushInvariant, PTL

\* UpdatePreferences and loadPrefs never leave a channel off that the user
\* did not turn off, with any number of changes racing and queries failing.
THEOREM SilencedOnlyByTheUser == Spec => []OnlyTheUserTurnsOff
<1>1. PushInv => OnlyTheUserTurnsOff
  BY DEF PushInv, SettingsInv
<1> QED
  BY <1>1, PushInvariant, PTL

-----------------------------------------------------------------------------
(***************************************************************************)
(* The tables and requests implement PushDelivery.                         *)
(***************************************************************************)

Shown == <<Stage, Addressee, Picked, Reached>>

LEMMA SameFans == ASSUME UNCHANGED <<fan, pushed>> PROVE UNCHANGED Shown
BY DEF Shown, Stage, Addressee, Picked, Reached

\* A fan-out whose shown part is the same.
LEMMA SameFan ==
  ASSUME FanInv, NEW n \in Notes, NEW f, fan' = [fan EXCEPT ![n] = f],
         f.pc = fan[n].pc \/ (fan[n].pc = "new" /\ f.pc = "begun"),
         f.user = fan[n].user, f.read = fan[n].read, pushed' = pushed
  PROVE  UNCHANGED Shown
<1>1. /\ fan'[n] = f
      /\ \A m \in Notes : m # n => fan'[m] = fan[m]
  BY DEF FanInv
<1>2. \A m \in Notes : /\ fan'[m].user = fan[m].user
                       /\ fan'[m].read = fan[m].read
                       /\ fan'[m].pc = "run" <=> fan[m].pc = "run"
                       /\ fan'[m].pc = "lost" <=> fan[m].pc = "lost"
  BY <1>1
<1>3. Stage' = Stage
  BY <1>2 DEF Stage
<1>4. Addressee' = Addressee
  BY <1>2 DEF Addressee
<1>5. Picked' = Picked
  BY <1>2 DEF Picked
<1>6. Reached' = Reached
  BY DEF Reached
<1> QED
  BY <1>3, <1>4, <1>5, <1>6 DEF Shown

\* Rows of one endpoint go: it is released, unless there were none.
LEMMA Released ==
  ASSUME RowsInv, UNCHANGED Shown, NEW gone,
         reg' = Without(gone) \/ reg' = reg,
         \A i, j \in gone \cap Present : reg[i].at = reg[j].at
  PROVE  Delivery!Next \/ UNCHANGED Delivery!push
<1>1. CASE reg' = reg \/ gone \cap Present = {}
  <2>1. \A i \in Ids : reg'[i] = reg[i]
    BY <1>1, PresentRows DEF Without, Present
  <2>2. Holding' = Holding
    BY <2>1 DEF Holding, Present
  <2> QED
    BY <2>2 DEF Shown, Delivery!push
<1>2. ASSUME reg' = Without(gone), NEW i \in gone \cap Present
      PROVE  Delivery!Next
  <2> DEFINE u == reg[i].user
             e == reg[i].at
  <2>1. u \in Users /\ e \in Endpoints
    BY PresentRows DEF RowsInv
  <2>2. gone \cap Present = {i}
    BY DEF RowsInv, OneRowPerEndpoint
  <2>3. Present' = Present \ {i} /\ \A j \in Present' : reg'[j] = reg[j]
    BY <1>2, <2>2 DEF Without, Present
  <2>4. \A j \in Present : reg[j].at = e => j = i
    BY DEF RowsInv, OneRowPerEndpoint
  <2>5. Holding' = { <<reg[j].user, reg[j].at>> : j \in Present \ {i} }
    BY <2>3 DEF Holding
  <2>6. Holding' = Holding \ {<<u, e>>}
    BY <2>4, <2>5 DEF Holding
  <2>7. Delivery!Release(u, e)
    BY <2>6 DEF Delivery!Release, Shown
  <2> QED
    BY <2>1, <2>7 DEF Delivery!Next
<1> QED
  BY <1>1, <1>2

LEMMA SameRows ==
  ASSUME UNCHANGED <<reg, fan, pushed>> PROVE UNCHANGED Delivery!push
BY SameFans DEF Delivery!push, Shown, Holding, Present

LEMMA BindStep ==
  ASSUME RowsInv, RequestsOK, NEW c \in Clients, InsertRow(c)
  PROVE  Delivery!Next \/ UNCHANGED Delivery!push
<1> DEFINE e == client[c].at
           u == client[c].user
<1>1. UNCHANGED <<fan, pushed>>
  BY DEF InsertRow
<1>2. CASE UNCHANGED rows
  BY <1>1, <1>2, SameRows
<1>3. CASE /\ ~Taken(e) /\ born < MaxRows /\ born' = born + 1
           /\ reg' = [reg EXCEPT ![born'] = [user |-> u, at |-> e]]
  <2>1. e \in Endpoints /\ u \in Users
    BY DEF InsertRow, At, RequestsOK
  <2>2. /\ born' \in Ids /\ born' \notin Present
    BY <1>3, PushAssumption DEF RowsInv, RowsOK, Ids
  <2>3. /\ \A i \in Ids : i # born' => reg'[i] = reg[i]
        /\ reg'[born'] = [user |-> u, at |-> e]
    BY <1>3, <2>2 DEF RowsInv, RowsOK
  <2>4. [user |-> u, at |-> e] # Absent
    BY <2>1, PushAssumption DEF Absent
  <2>5. Present' = Present \cup {born'}
    BY <2>2, <2>3, <2>4 DEF Present
  <2>6. \A i \in Present : reg'[i] = reg[i]
    BY <2>2, <2>3 DEF Present
  <2>7. Holding' = Holding \cup {<<u, e>>}
    BY <2>3, <2>5, <2>6 DEF Holding
  <2>8. \A v \in Users : <<v, e>> \notin Holding
    BY <1>3 DEF Holding, Taken
  <2>9. UNCHANGED <<Stage, Addressee, Picked, Reached>>
    BY <1>1, SameFans DEF Shown
  <2>10. Delivery!Bind(u, e)
    BY <2>7, <2>8, <2>9 DEF Delivery!Bind
  <2> QED
    BY <2>1, <2>10 DEF Delivery!Next
<1> QED
  BY <1>2, <1>3 DEF InsertRow

LEMMA SendStep ==
  ASSUME FanInv, RequestsOK, NEW c \in Clients, SendNote(c)
  PROVE  Delivery!Next \/ UNCHANGED Delivery!push
<1> DEFINE n == client[c].note
           u == client[c].user
           f == fan[n]
<1>1. n \in Notes /\ f.pc = "begun" /\ u \in Users /\ f \in FanRecord
  BY DEF SendNote, At, RequestsOK, FanInv, Notifying
<1>2. UNCHANGED <<reg, pushed>>
  BY DEF SendNote
<1>3. CASE fan' = fan
  BY <1>2, <1>3, SameRows
<1>4. CASE fan' # fan
  <2>1. PICK todo :
          fan' = [fan EXCEPT ![n] =
                    [f EXCEPT !.pc = "run", !.user = u, !.todo = todo]]
    BY <1>1, <1>4 DEF SendNote, FanInv
  <2> DEFINE new == [f EXCEPT !.pc = "run", !.user = u, !.todo = todo]
  <2>2. new.pc = "run" /\ new.user = u /\ new.read = f.read
    BY <1>1 DEF FanRecord
  <2>3. fan' = [fan EXCEPT ![n] = new]
    BY <2>1
  <2> HIDE DEF new
  <2>4. fan'[n] = new /\ \A m \in Notes : m # n => fan'[m] = fan[m]
    BY <1>1, <2>3 DEF FanInv
  <2>5. Stage[n] = "unsent" /\ Stage' = [Stage EXCEPT ![n] = "sending"]
    BY <1>1, <2>2, <2>4 DEF Stage
  <2>6. Addressee' = [Addressee EXCEPT ![n] = u]
    BY <1>1, <2>2, <2>4 DEF Addressee
  <2>7. Picked' = Picked
    <3>1. \A m \in Notes : fan'[m].read = fan[m].read
      BY <2>2, <2>4
    <3> QED
      BY <3>1 DEF Picked
  <2>8. Reached' = Reached /\ Holding' = Holding
    BY <1>2 DEF Reached, Holding, Present
  <2>9. Delivery!Send(n, u)
    BY <2>5, <2>6, <2>7, <2>8 DEF Delivery!Send
  <2> QED
    BY <1>1, <2>9 DEF Delivery!Next
<1> QED
  BY <1>3, <1>4

LEMMA PickStep ==
  ASSUME FanInv, RowsInv, NEW n \in Notes, NEW ch \in Channels, ReadRows(n, ch)
  PROVE  Delivery!Next
<1> DEFINE f == fan[n]
<1>1. f \in FanRecord /\ FanGood(f, pushed[n]) /\ f.pc = "run"
      /\ ch \in f.todo /\ f.read = {} /\ UNCHANGED <<reg, pushed>>
  BY DEF FanInv, ReadRows
<1>2. PICK mine \in SUBSET Present :
        /\ \A i \in mine : reg[i].user = f.user /\ ChannelOf[reg[i].at] = ch
        /\ fan' = [fan EXCEPT
             ![n].todo = @ \ {ch},
             ![n].read = { [id |-> i, at |-> reg[i].at] : i \in mine }]
  <2>1. PICK ok \in BOOLEAN :
          LET mine == { i \in Present : /\ ok
                                        /\ reg[i].user = fan[n].user
                                        /\ ChannelOf[reg[i].at] = ch }
          IN  fan' = [fan EXCEPT
                ![n].todo = @ \ {ch},
                ![n].read = { [id |-> i, at |-> reg[i].at] : i \in mine }]
    BY DEF ReadRows, Works
  <2> DEFINE mine == { i \in Present : /\ ok
                                       /\ reg[i].user = fan[n].user
                                       /\ ChannelOf[reg[i].at] = ch }
  <2>2. /\ mine \in SUBSET Present
        /\ \A i \in mine : reg[i].user = f.user /\ ChannelOf[reg[i].at] = ch
    OBVIOUS
  <2>3. fan' = [fan EXCEPT
                ![n].todo = @ \ {ch},
                ![n].read = { [id |-> i, at |-> reg[i].at] : i \in mine }]
    BY <2>1
  <2> HIDE DEF mine
  <2> QED
    BY <2>2, <2>3
<1> DEFINE read == { [id |-> i, at |-> reg[i].at] : i \in mine }
           ends == { r.at : r \in read }
<1>3. /\ fan'[n].pc = f.pc /\ fan'[n].user = f.user /\ fan'[n].read = read
      /\ \A m \in Notes : m # n => fan'[m] = fan[m]
  BY <1>1, <1>2 DEF FanInv, FanRecord
<1>4. \A e \in ends : /\ e \in Endpoints /\ <<f.user, e>> \in Holding
                      /\ pushed[n][e] = 0
  <2>1. \A e \in ends : \E i \in mine : e = reg[i].at
    OBVIOUS
  <2> SUFFICES ASSUME NEW i \in mine
               PROVE  /\ reg[i].at \in Endpoints
                      /\ <<f.user, reg[i].at>> \in Holding
                      /\ pushed[n][reg[i].at] = 0
    BY <2>1
  <2>2. reg[i].at \in Endpoints
    BY PresentRows DEF RowsInv
  <2>3. <<f.user, reg[i].at>> \in Holding
    BY <1>2 DEF Holding
  <2>4. pushed[n][reg[i].at] = 0
    BY <1>1, <1>2, <2>2 DEF FanGood
  <2> QED
    BY <2>2, <2>3, <2>4
<1> HIDE DEF read
<1>5. \A m \in Notes : fan'[m].pc = fan[m].pc /\ fan'[m].user = fan[m].user
  BY <1>3
<1>6. Stage' = Stage /\ Stage[n] = "sending"
  BY <1>1, <1>5 DEF Stage
<1>7. Addressee' = Addressee /\ Addressee[n] = f.user
  BY <1>5 DEF Addressee
<1>8. Picked[n] = {} /\ Picked' = [Picked EXCEPT ![n] = ends]
  BY <1>1, <1>3 DEF Picked
<1>9. Reached' = Reached /\ \A e \in ends : e \notin Reached[n]
  <2> HIDE DEF ends
  <2>1. Reached' = Reached
    BY <1>1 DEF Reached
  <2>2. Reached[n] = { e \in Endpoints : pushed[n][e] > 0 }
    BY DEF Reached
  <2>3. ASSUME NEW e \in ends PROVE e \notin Reached[n]
    <3>1. pushed[n][e] = 0
      BY <1>4
    <3> QED
      BY <2>2, <3>1
  <2> QED
    BY <2>1, <2>3
<1>10. Holding' = Holding
  BY <1>1 DEF Holding, Present
<1> HIDE DEF ends
<1>11. Picked' = [Picked EXCEPT ![n] = @ \cup ends]
  BY <1>8
<1>12. Delivery!Pick(n, ends)
  BY <1>4, <1>6, <1>7, <1>8, <1>9, <1>10, <1>11 DEF Delivery!Pick
<1>13. ends \in SUBSET Endpoints
  BY <1>4
<1> QED
  BY <1>12, <1>13 DEF Delivery!Next

LEMMA PushStep ==
  ASSUME FanInv, NEW n \in Notes, NEW r \in fan[n].read, SendTo(n, r)
  PROVE  Delivery!Next
<1> DEFINE f == fan[n]
           e == r.at
<1>1. /\ f \in FanRecord /\ FanGood(f, pushed[n])
      /\ pushed[n] \in [Endpoints -> Nat]
      /\ reg' = reg /\ e \in Endpoints
  BY DEF FanInv, SendTo, FanRecord
<1>2. f.pc = "run" /\ pushed[n][e] = 0
  BY <1>1 DEF FanGood
<1>3. PICK dead : fan' = [fan EXCEPT ![n].read = @ \ {r}, ![n].dead = dead]
  BY DEF SendTo
<1>4. /\ fan'[n].pc = f.pc /\ fan'[n].user = f.user
      /\ fan'[n].read = f.read \ {r}
      /\ \A m \in Notes : m # n => fan'[m] = fan[m]
  BY <1>1, <1>3 DEF FanInv, FanRecord
<1>5. /\ pushed'[n][e] = 1
      /\ \A d \in Endpoints : d # e => pushed'[n][d] = pushed[n][d]
      /\ \A m \in Notes : m # n => pushed'[m] = pushed[m]
  BY <1>1, <1>2 DEF FanInv, SendTo
<1>6. \A m \in Notes : fan'[m].pc = fan[m].pc /\ fan'[m].user = fan[m].user
  BY <1>4
<1>7. Stage' = Stage /\ Stage[n] = "sending"
  BY <1>2, <1>6 DEF Stage
<1>8. Addressee' = Addressee
  BY <1>6 DEF Addressee
<1>9. e \in Picked[n] /\ Picked' = [Picked EXCEPT ![n] = @ \ {e}]
  <2>1. { q.at : q \in f.read \ {r} } = { q.at : q \in f.read } \ {e}
    BY <1>1 DEF FanGood
  <2>2. \A m \in Notes : { q.at : q \in fan'[m].read } =
          IF m = n THEN { q.at : q \in f.read } \ {e}
                   ELSE { q.at : q \in fan[m].read }
    BY <1>4, <2>1
  <2> QED
    BY <2>2 DEF Picked
<1>10. e \notin Reached[n] /\ Reached' = [Reached EXCEPT ![n] = @ \cup {e}]
  <2>1. \A m \in Notes : { d \in Endpoints : pushed'[m][d] > 0 } =
          IF m = n THEN { d \in Endpoints : pushed[n][d] > 0 } \cup {e}
                   ELSE { d \in Endpoints : pushed[m][d] > 0 }
    BY <1>1, <1>5
  <2>2. Reached[n] = { d \in Endpoints : pushed[n][d] > 0 }
    BY DEF Reached
  <2>3. e \notin Reached[n]
    BY <1>2, <2>2
  <2>4. Reached' = [m \in Notes |-> IF m = n THEN Reached[n] \cup {e}
                                             ELSE Reached[m]]
    BY <2>1, <2>2 DEF Reached
  <2>5. Reached = [m \in Notes |-> Reached[m]]
    BY DEF Reached
  <2> QED
    BY <2>3, <2>4, <2>5
<1>11. Holding' = Holding
  BY <1>1 DEF Holding, Present
<1>12. Delivery!Push(n, e)
  BY <1>7, <1>8, <1>9, <1>10, <1>11 DEF Delivery!Push
<1> QED
  BY <1>1, <1>12 DEF Delivery!Next

LEMMA RestartStep ==
  ASSUME Restart PROVE Delivery!Next
<1> DEFINE ended == { n \in Notes : fan[n].pc # "new" }
<1>1. /\ New.pc = "new" /\ New.user = Nobody /\ New.read = {}
      /\ [New EXCEPT !.pc = "lost"].pc = "lost"
      /\ [New EXCEPT !.pc = "lost"].user = Nobody
      /\ [New EXCEPT !.pc = "lost"].read = {}
  BY DEF New
<1>2. \A n \in Notes : /\ fan'[n].pc = IF n \in ended THEN "lost" ELSE "new"
                       /\ fan'[n].user = Nobody /\ fan'[n].read = {}
  BY <1>1 DEF Restart
<1>3. /\ \A n \in Notes \ ended : Stage[n] = "unsent"
      /\ Stage' = [n \in Notes |-> IF n \in ended THEN "over" ELSE Stage[n]]
  BY <1>2 DEF Stage
<1>4. Addressee' = [n \in Notes |-> Nobody] /\ Picked' = [n \in Notes |-> {}]
  BY <1>2 DEF Addressee, Picked
<1>5. Reached' = Reached /\ Holding' = Holding
  BY DEF Restart, Reached, Holding, Present
<1>6. Delivery!Restart(ended)
  BY <1>3, <1>4, <1>5 DEF Delivery!Restart
<1>7. ended \in SUBSET Notes
  OBVIOUS
<1> QED
  BY <1>6, <1>7 DEF Delivery!Next

LEMMA DeliveryNext ==
  ASSUME PushInv, [Next]_vars PROVE Delivery!Next \/ UNCHANGED Delivery!push
<1> USE DEF PushInv
<1>1. ASSUME NEW c \in Clients, NEW u \in Users, NEW e \in Endpoints,
             DropOld(c, u, e) \/ Unregister(c, u, e)
      PROVE  Delivery!Next \/ UNCHANGED Delivery!push
  <2>1. UNCHANGED Shown
    BY <1>1, SameFans DEF DropOld, Unregister
  <2>2. PICK gone : /\ reg' = Without(gone) \/ reg' = reg
                    /\ \A i \in gone : reg[i].at = e
    <3>1. CASE DropOld(c, u, e)
      <4>1. \/ reg' = Without({ i \in Present : reg[i].at = e })
            \/ reg' = reg
        BY <3>1 DEF DropOld
      <4> QED
        BY <4>1
    <3>2. CASE Unregister(c, u, e)
      <4>1. \/ reg' = Without({ i \in Present : reg[i] = [user |-> u, at |-> e] })
            \/ reg' = reg
        BY <3>2 DEF Unregister
      <4> QED
        BY <4>1
    <3> QED
      BY <1>1, <3>1, <3>2
  <2> QED
    BY <2>1, <2>2, Released
<1>2. ASSUME NEW n \in Notes, DropDead(n)
      PROVE  Delivery!Next \/ UNCHANGED Delivery!push
  <2> DEFINE new == [fan[n] EXCEPT !.dead = 0]
  <2>1. fan' = [fan EXCEPT ![n] = new] /\ pushed' = pushed
    BY <1>2 DEF DropDead, FanInv
  <2>2. new.pc = fan[n].pc /\ new.user = fan[n].user /\ new.read = fan[n].read
    BY DEF FanInv, FanRecord
  <2> HIDE DEF new
  <2>3. UNCHANGED Shown
    BY <2>1, <2>2, SameFan
  <2>4. reg' = Without({fan[n].dead}) \/ reg' = reg
    BY <1>2 DEF DropDead
  <2> QED
    BY <2>3, <2>4, Released
<1>3. ASSUME NEW c \in Clients, NEW u \in Users, NEW n \in Notes, NEW chans,
             Begin(c, u, n, chans)
      PROVE  UNCHANGED Delivery!push
  <2> DEFINE new == [fan[n] EXCEPT !.pc = "begun", !.off = refused[u]]
  <2>1. fan[n].pc = "new" /\ UNCHANGED <<reg, pushed>>
        /\ fan' = [fan EXCEPT ![n] = new]
    BY <1>3 DEF Begin, FanInv
  <2>2. new.pc = "begun" /\ new.user = fan[n].user /\ new.read = fan[n].read
    BY DEF FanInv, FanRecord
  <2> HIDE DEF new
  <2>3. UNCHANGED Shown
    BY <2>1, <2>2, SameFan
  <2> QED
    BY <2>1, <2>3 DEF Shown, Delivery!push, Holding, Present
<1>4. ASSUME NEW c \in Clients, NEW u \in Users, NEW n \in Notes,
             BeginNotify(c, u, n) \/ BeginTest(c, u, n)
      PROVE  UNCHANGED Delivery!push
  BY <1>3, <1>4 DEF BeginNotify, BeginTest
<1>5. ASSUME NEW c \in Clients,
             \/ UpdateRow(c) \/ CreatePrefs(c)
             \/ \E u \in Users, ch \in Channels, on \in BOOLEAN :
                  ReadPrefs(c, u, ch, on)
      PROVE  UNCHANGED Delivery!push
  BY <1>5, SameRows DEF UpdateRow, CreatePrefs, ReadPrefs
<1>6. ASSUME NEW c \in Clients, Request(c)
      PROVE  Delivery!Next \/ UNCHANGED Delivery!push
  BY <1>1, <1>4, <1>5, <1>6, BindStep, SendStep DEF Request
<1>7. ASSUME NEW n \in Notes, Fanout(n)
      PROVE  Delivery!Next \/ UNCHANGED Delivery!push
  BY <1>2, <1>7, PickStep, PushStep DEF Fanout
<1>8. CASE UNCHANGED vars
  BY <1>8, SameRows
<1> QED
  BY <1>6, <1>7, <1>8, RestartStep DEF Next

LEMMA DeliveryInit == ASSUME Init PROVE Delivery!Init
<1>1. \A n \in Notes : fan[n].pc = "new" /\ fan[n].user = Nobody
                       /\ fan[n].read = {}
  BY DEF Init, New
<1>2. Present = {}
  BY DEF Init, Present
<1>3. Holding = {}
  BY <1>2 DEF Holding
<1>4. Stage = [n \in Notes |-> "unsent"]
  BY <1>1 DEF Stage
<1>5. Addressee = [n \in Notes |-> Nobody] /\ Picked = [n \in Notes |-> {}]
  BY <1>1 DEF Addressee, Picked
<1>6. Reached = [n \in Notes |-> {}]
  BY DEF Init, Reached
<1> QED
  BY <1>3, <1>4, <1>5, <1>6 DEF Delivery!Init

\* fanOut pushes a notification to an endpoint once at most, and only to one
\* that was registered for its addressee while it was sent; an endpoint has
\* one user at a time, whatever RegisterWebPush, RegisterDevice, Unregister*
\* and other fan-outs do meanwhile, with queries failing and restarts.
THEOREM DeliveredToItsUser == Spec => ImplementsPushDelivery
<1>1. Init => Delivery!Init
  BY DeliveryInit
<1>2. PushInv /\ [Next]_vars => [Delivery!Next]_(Delivery!push)
  BY DeliveryNext
<1> QED
  BY <1>1, <1>2, PushInvariant, PTL
     DEF Spec, ImplementsPushDelivery, Delivery!Spec
=============================================================================
