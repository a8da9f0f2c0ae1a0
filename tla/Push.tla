-------------------------------- MODULE Push --------------------------------
(***************************************************************************)
(* Push notifications: the registrations of browsers and devices, the      *)
(* users' channel preferences (internal/handlers/notifications.go) and the *)
(* fan-out of a notification to what is registered                         *)
(* (internal/push/dispatcher.go).  Web push subscriptions and device       *)
(* tokens are two tables that are treated alike; here they are one, and    *)
(* the channel of an endpoint tells them apart.                            *)
(*                                                                         *)
(* No handler uses a transaction: a registration is a delete and an        *)
(* insert, a change of preferences a read, an update and perhaps an        *)
(* insert, and a fan-out works on rows it has read before.                 *)
(***************************************************************************)
EXTENDS Naturals, FiniteSets

CONSTANTS
  Users,
  Endpoints,   \* browsers and devices
  Channels,    \* "in_app" and the push channels
  ChannelOf,   \* the push channel of an endpoint
  Nobody,      \* no user, no endpoint, no notification
  Clients,     \* request goroutines
  Notes,       \* notifications that may be created
  MaxRows,     \* bound: registrations inserted
  MaxChanges,  \* bound: changes of preferences requested
  DBMayFail    \* whether a query may return an error

ASSUME PushAssumption ==
  /\ Nobody \notin Users \cup Endpoints \cup Notes
  /\ ChannelOf \in [Endpoints -> Channels]
  /\ MaxRows \in Nat /\ MaxChanges \in Nat
  /\ DBMayFail \in BOOLEAN

Ids == 1 .. MaxRows

VARIABLES
  reg,      \* a registration per id: its user and endpoint
  born,     \* ids given out
  stored,   \* users with a row of preferences
  prefs,    \* the channels enabled in that row
  client,   \* request goroutines
  fan,      \* fan-out goroutines, one per notification
  \* history
  kept,     \* the id of the registration last answered for an endpoint, 0
            \* when it was replaced, unregistered or found dead
  refused,  \* the channels that the last answered changes of a user turn off
  everOff,  \* the channels that some change of a user turned off
  changes,  \* changes requested
  pushed    \* how often a notification was sent to an endpoint

rows      == <<reg, born, kept>>
settings  == <<stored, prefs, refused, everOff, changes>>
vars      == <<rows, settings, client, fan, pushed>>

Absent  == [user |-> Nobody, at |-> Nobody]
Present == { i \in Ids : reg[i] # Absent }

Idle == [pc |-> "idle", user |-> Nobody, at |-> Nobody, chans |-> {},
         ch |-> Nobody, on |-> FALSE, note |-> Nobody]
New  == [pc |-> "new", user |-> Nobody, todo |-> {}, read |-> {}, dead |-> 0,
         off |-> {}]

Init ==
  /\ reg = [i \in Ids |-> Absent]
  /\ born = 0
  /\ stored = {}
  /\ prefs = [u \in Users |-> {}]
  /\ client = [c \in Clients |-> Idle]
  /\ fan = [n \in Notes |-> New]
  /\ kept = [e \in Endpoints |-> 0]
  /\ refused = [u \in Users |-> {}]
  /\ everOff = [u \in Users |-> {}]
  /\ changes = 0
  /\ pushed = [n \in Notes |-> [e \in Endpoints |-> 0]]

At(c, pc)      == client[c].pc = pc
Become(c, new) == client' = [client EXCEPT ![c] = new]

\* Whether a query works.
Works == IF DBMayFail THEN BOOLEAN ELSE {TRUE}

-----------------------------------------------------------------------------
(***************************************************************************)
(* RegisterWebPush and RegisterDevice, UnregisterWebPush and               *)
(* UnregisterDevice.  The result of a delete is not looked at.             *)
(***************************************************************************)

\* Mutant: a delete only clears the owner.
WithoutOwner(gone) ==
  [i \in Ids |-> IF i \in gone THEN [reg[i] EXCEPT !.user = Nobody] ELSE reg[i]]

Without(gone) == [i \in Ids |-> IF i \in gone THEN Absent ELSE reg[i]]

\* Whoever registered the endpoint before.
DropOld(c, u, e) ==
  /\ At(c, "idle")
  /\ \E ok \in Works :
       reg' = IF ok THEN Without({ i \in Present : reg[i].at = e }) ELSE reg
  /\ kept' = [kept EXCEPT ![e] = 0]
  /\ Become(c, [Idle EXCEPT !.pc = "insert", !.user = u, !.at = e])
  /\ UNCHANGED <<born, settings, fan, pushed>>

\* The unique index on the endpoint keeps a second row out.
Taken(e) == \E i \in Present : reg[i].at = e

InsertRow(c) ==
  /\ At(c, "insert")
  /\ LET e == client[c].at IN
       \/ /\ ~Taken(e)
          /\ born < MaxRows
          /\ born' = born + 1
          /\ reg' = [reg EXCEPT ![born'] = [user |-> client[c].user, at |-> e]]
          /\ kept' = [kept EXCEPT ![e] = born']
       \/ /\ Taken(e) \/ DBMayFail \/ born = MaxRows
          /\ UNCHANGED rows
  /\ Become(c, Idle)
  /\ UNCHANGED <<settings, fan, pushed>>

Unregister(c, u, e) ==
  /\ At(c, "idle")
  /\ LET mine == { i \in Present : reg[i] = [user |-> u, at |-> e] } IN
       \E ok \in Works :
         /\ reg' = IF ok THEN Without(mine) ELSE reg
         /\ kept' = IF kept[e] \in mine THEN [kept EXCEPT ![e] = 0] ELSE kept
  /\ UNCHANGED <<born, settings, client, fan, pushed>>

-----------------------------------------------------------------------------
(***************************************************************************)
(* loadPrefs and UpdatePreferences.  Save updates the row; when there was  *)
(* none it inserts one, and replaces a field that has its zero value by    *)
(* the default of its tag: a channel that is off becomes one that is on.   *)
(***************************************************************************)

\* Mutant: a user without a row, or whose row cannot be read, has no channels.
LoadedOff(u, ok) == IF ok /\ u \in stored THEN prefs[u] ELSE {}

Loaded(u, ok) == IF ok /\ u \in stored THEN prefs[u] ELSE Channels

ReadPrefs(c, u, ch, on) ==
  /\ At(c, "idle")
  /\ changes < MaxChanges
  /\ changes' = changes + 1
  /\ \E ok \in Works :
       LET base == Loaded(u, ok) IN
         Become(c, [Idle EXCEPT
           !.pc = "update", !.user = u, !.ch = ch, !.on = on,
           !.chans = IF on THEN base \cup {ch} ELSE base \ {ch}])
  /\ everOff' = IF on THEN everOff ELSE [everOff EXCEPT ![u] = @ \cup {ch}]
  /\ UNCHANGED <<rows, stored, prefs, refused, fan, pushed>>

\* 200, whatever Save said.
AnswerChange(c) ==
  LET me == client[c] IN
    /\ refused' = [refused EXCEPT ![me.user] = IF me.on THEN @ \ {me.ch}
                                               ELSE @ \cup {me.ch}]
    /\ Become(c, Idle)

UpdateRow(c) ==
  /\ At(c, "update")
  /\ \/ /\ client[c].user \in stored
        /\ prefs' = [prefs EXCEPT ![client[c].user] = client[c].chans]
        /\ AnswerChange(c)
     \/ /\ client[c].user \notin stored
        /\ Become(c, [client[c] EXCEPT !.pc = "create"])
        /\ UNCHANGED <<prefs, refused>>
     \/ /\ DBMayFail
        /\ AnswerChange(c)
        /\ UNCHANGED prefs
  /\ UNCHANGED <<rows, stored, everOff, changes, fan, pushed>>

\* The insert, or the update of a row that another request has inserted.
CreatePrefs(c) ==
  /\ At(c, "create")
  /\ \E ok \in Works :
       IF ok THEN /\ stored' = stored \cup {client[c].user}
                  /\ prefs' = [prefs EXCEPT ![client[c].user] = Channels]
       ELSE UNCHANGED <<stored, prefs>>
  /\ AnswerChange(c)
  /\ UNCHANGED <<rows, everOff, changes, fan, pushed>>

-----------------------------------------------------------------------------
(***************************************************************************)
(* ServiceNotify, SelfNotify and AdminSendTestNotification, as far as push *)
(* goes, and the fan-out.                                                  *)
(***************************************************************************)

Begin(c, u, n, chans) ==
  /\ At(c, "idle")
  /\ fan[n].pc = "new"
  /\ Become(c, [Idle EXCEPT !.pc = "notify", !.user = u, !.note = n,
                            !.chans = chans])
  /\ fan' = [fan EXCEPT ![n].pc = "begun", ![n].off = refused[u]]
  /\ UNCHANGED <<rows, settings, pushed>>

\* ServiceNotify and SelfNotify.  Only the first skips a user with no channel;
\* the other stores the notification and starts a fan-out with nothing to do.
BeginNotify(c, u, n) == \E ok \in Works : Begin(c, u, n, Loaded(u, ok))

\* AdminSendTestNotification does not read the preferences.
BeginTest(c, u, n) == Begin(c, u, n, Channels)

\* The insert, and the start of the goroutine.
SendNote(c) ==
  /\ At(c, "notify")
  /\ LET me == client[c] IN
       \/ fan' = [fan EXCEPT
            ![me.note].pc = "run", ![me.note].user = me.user,
            ![me.note].todo = me.chans \cap { ChannelOf[e] : e \in Endpoints }]
       \/ DBMayFail /\ UNCHANGED fan
  /\ Become(c, Idle)
  /\ UNCHANGED <<rows, settings, pushed>>

\* Mutant: the query has no condition on the user.
ReadRowsOfAll(n, ch) ==
  /\ fan[n].pc = "run"
  /\ fan[n].read = {}
  /\ fan[n].dead = 0
  /\ ch \in fan[n].todo
  /\ LET all == { i \in Present : ChannelOf[reg[i].at] = ch }
     IN  fan' = [fan EXCEPT
           ![n].todo = @ \ {ch},
           ![n].read = { [id |-> i, at |-> reg[i].at] : i \in all }]
  /\ UNCHANGED <<rows, settings, client, pushed>>

\* Web push, then mobile push, or in the other order (which nothing here can
\* tell); a query that fails finds nothing.
ReadRows(n, ch) ==
  /\ fan[n].pc = "run"
  /\ fan[n].read = {}
  /\ fan[n].dead = 0
  /\ ch \in fan[n].todo
  /\ \E ok \in Works :
       LET mine == { i \in Present : /\ ok
                                     /\ reg[i].user = fan[n].user
                                     /\ ChannelOf[reg[i].at] = ch }
       IN  fan' = [fan EXCEPT
             ![n].todo = @ \ {ch},
             ![n].read = { [id |-> i, at |-> reg[i].at] : i \in mine }]
  /\ UNCHANGED <<rows, settings, client, pushed>>

\* SendWeb and SendMobile: the push service takes the notification or does not
\* (0), or says that the endpoint is dead.
Dead(r) == {0, r.id}

SendTo(n, r) ==
  /\ r \in fan[n].read
  /\ fan[n].dead = 0
  /\ pushed' = [pushed EXCEPT ![n][r.at] = @ + 1]
  /\ \E dead \in Dead(r) :
       fan' = [fan EXCEPT ![n].read = @ \ {r}, ![n].dead = dead]
  /\ UNCHANGED <<rows, settings, client>>

\* Mutant: the rows of the endpoint are deleted.
DropDeadEndpoint(n) ==
  /\ fan[n].dead # 0
  /\ LET i == fan[n].dead
         e == CHOOSE e \in Endpoints : pushed[n][e] > 0
     IN  /\ reg' = Without({ j \in Present : reg[j].at = e })
         /\ kept' = [d \in Endpoints |-> IF kept[d] = i THEN 0 ELSE kept[d]]
  /\ fan' = [fan EXCEPT ![n].dead = 0]
  /\ UNCHANGED <<born, settings, client, pushed>>

\* The row that was read is deleted by its id.
DropDead(n) ==
  /\ fan[n].dead # 0
  /\ LET i == fan[n].dead IN
       \E ok \in Works :
         /\ reg' = IF ok THEN Without({i}) ELSE reg
         /\ kept' = [e \in Endpoints |-> IF kept[e] = i THEN 0 ELSE kept[e]]
  /\ fan' = [fan EXCEPT ![n].dead = 0]
  /\ UNCHANGED <<born, settings, client, pushed>>

\* Requests and fan-outs of the old process are lost.
Restart ==
  /\ client' = [c \in Clients |-> Idle]
  /\ fan' = [n \in Notes |-> IF fan[n].pc = "new" THEN New
                             ELSE [New EXCEPT !.pc = "lost"]]
  /\ UNCHANGED <<rows, settings, pushed>>

Request(c) ==
  \/ InsertRow(c) \/ UpdateRow(c) \/ CreatePrefs(c) \/ SendNote(c)
  \/ \E u \in Users :
       \/ \E e \in Endpoints : DropOld(c, u, e) \/ Unregister(c, u, e)
       \/ \E ch \in Channels, on \in BOOLEAN : ReadPrefs(c, u, ch, on)
       \/ \E n \in Notes : BeginNotify(c, u, n) \/ BeginTest(c, u, n)

Fanout(n) ==
  \/ \E ch \in Channels : ReadRows(n, ch)
  \/ \E r \in fan[n].read : SendTo(n, r)
  \/ DropDead(n)

Next == \/ \E c \in Clients : Request(c)
        \/ \E n \in Notes : Fanout(n)
        \/ Restart

Spec == Init /\ [][Next]_vars

-----------------------------------------------------------------------------
Registration == [user : Users, at : Endpoints]
ClientRecord ==
  [pc : {"idle", "insert", "update", "create", "notify"},
   user : Users \cup {Nobody}, at : Endpoints \cup {Nobody},
   chans : SUBSET Channels, ch : Channels \cup {Nobody}, on : BOOLEAN,
   note : Notes \cup {Nobody}]
FanRecord ==
  [pc : {"new", "begun", "run", "lost"}, user : Users \cup {Nobody},
   todo : SUBSET Channels, read : SUBSET [id : Ids, at : Endpoints],
   dead : 0 .. MaxRows, off : SUBSET Channels]

\* Every variable has its type, and no id is used that was not given out.
TypeOK ==
  /\ reg \in [Ids -> Registration \cup {Absent}]
  /\ born \in 0 .. MaxRows
  /\ Present \subseteq 1 .. born
  /\ stored \subseteq Users
  /\ prefs \in [Users -> SUBSET Channels]
  /\ client \in [Clients -> ClientRecord]
  /\ fan \in [Notes -> FanRecord]
  /\ kept \in [Endpoints -> 0 .. born]
  /\ refused \in [Users -> SUBSET Channels]
  /\ everOff \in [Users -> SUBSET Channels]
  /\ changes \in 0 .. MaxChanges
  /\ pushed \in [Notes -> [Endpoints -> Nat]]

\* A registration that was answered with 201 is in the table until the same
\* endpoint is registered again, its user unregisters it, or a push to this
\* very registration finds it dead: a fan-out that read an older row of the
\* endpoint does not delete the new one.
RegistrationKept ==
  \A e \in Endpoints : kept[e] # 0 => reg[kept[e]].at = e

\* A notification is sent to an endpoint once at most, however registrations
\* of the endpoint race with each other and with the fan-out.
PushedOnce ==
  \A n \in Notes, e \in Endpoints : pushed[n][e] <= 1

\* A channel is off only when a change of this user turned it off: neither a
\* change that overwrites another nor a query that fails silences it.
OnlyTheUserTurnsOff ==
  \A u \in Users : u \in stored => Channels \ everOff[u] \subseteq prefs[u]

\* "Caller must already have inserted the row and respected the user's
\* preferences" (dispatcher.go:56): nothing is sent on a channel which the
\* user's last answered change had turned off before the notification began.
PreferencesRespected ==
  \A n \in Notes : fan[n].todo \cap fan[n].off = {}

-----------------------------------------------------------------------------
\* The promise to users and senders: module PushDelivery.

Holding == { <<reg[i].user, reg[i].at>> : i \in Present }

Stage == [n \in Notes |-> CASE fan[n].pc = "run"  -> "sending"
                            [] fan[n].pc = "lost" -> "over"
                            [] OTHER              -> "unsent"]
Addressee == [n \in Notes |-> fan[n].user]
Picked    == [n \in Notes |-> { r.at : r \in fan[n].read }]
Reached   == [n \in Notes |-> { e \in Endpoints : pushed[n][e] > 0 }]

Delivery == INSTANCE PushDelivery WITH
              held <- Holding, stage <- Stage, to <- Addressee,
              picked <- Picked, reached <- Reached

\* A notification reaches an endpoint once at most, and only an endpoint that
\* its addressee had while the notification was being sent: every step of the
\* tables and requests is a step of PushDelivery, or none that it shows.
ImplementsPushDelivery == Delivery!Spec
=============================================================================
