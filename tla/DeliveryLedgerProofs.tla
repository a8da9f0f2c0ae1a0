------------------------ MODULE DeliveryLedgerProofs ------------------------
(***************************************************************************)
(* With the outcomes Send really has, the queue never has an id twice in   *)
(* hand, and keeps the ledger: proofs for every instance of DeliveryQueue. *)
(*                                                                         *)
(* The invariant is Custody.  SingleHolder alone is not inductive: that a  *)
(* new id is in nobody's hands needs the books (a row that is not stored   *)
(* is not held) and the requests (who stores it), that Start may push what *)
(* it read needs the rest of the process to rest meanwhile, and that the   *)
(* scheduler pushes nothing needs that nothing was ever deferred.          *)
(***************************************************************************)
EXTENDS DeliveryQueueProofs

Deployed == Outcomes \subseteq DeployedOutcomes

USE DEF columns, tables, feeders, rate, process, history, vars

(***************************************************************************)
(* How the sets of ids in hand change.                                     *)
(***************************************************************************)

Injective(q) == \A i, j \in DOMAIN q : q[i] = q[j] => i = j

LEMMA ChannelGrows ==
  ASSUME TypeOK, NEW m \in Messages, Send(m), m \notin InChannel,
         Injective(pending)
  PROVE  InChannel' = InChannel \cup {m} /\ Injective(pending)'
<1>1. /\ pending \in Seq(Messages)
      /\ pending' = Append(pending, m)
  BY DEF TypeOK, QueueOK, Send
<1>2. /\ DOMAIN pending = 1 .. Len(pending)
      /\ DOMAIN pending' = 1 .. Len(pending) + 1
      /\ Len(pending) \in Nat
      /\ \A i \in 1 .. Len(pending) : pending'[i] = pending[i]
      /\ pending'[Len(pending) + 1] = m
  BY <1>1
<1>3. InChannel' = InChannel \cup {m}
  <2>1. \A x \in InChannel' : x \in InChannel \cup {m}
    BY <1>2 DEF InChannel
  <2>2. \A x \in InChannel \cup {m} : x \in InChannel'
    BY <1>2 DEF InChannel
  <2> QED
    BY <2>1, <2>2
<1>4. Injective(pending)'
  BY <1>2 DEF Injective, InChannel
<1> QED
  BY <1>3, <1>4

LEMMA ChannelShrinks ==
  ASSUME TypeOK, pending # <<>>, pending' = Tail(pending), Injective(pending)
  PROVE  /\ Head(pending) \in InChannel
         /\ Head(pending) \in Messages
         /\ InChannel' = InChannel \ {Head(pending)}
         /\ Injective(pending)'
<1>1. pending \in Seq(Messages)
  BY DEF TypeOK, QueueOK
<1>2. /\ Len(pending) \in Nat \ {0}
      /\ DOMAIN pending = 1 .. Len(pending)
      /\ Head(pending) = pending[1]
      /\ DOMAIN pending' = 1 .. Len(pending) - 1
      /\ \A i \in 1 .. Len(pending) - 1 : pending'[i] = pending[i + 1]
  BY <1>1
<1>3. Head(pending) \in InChannel /\ Head(pending) \in Messages
  BY <1>1, <1>2 DEF InChannel
<1>4. InChannel' = InChannel \ {Head(pending)}
  <2>1. \A x \in InChannel' : x \in InChannel \ {Head(pending)}
    BY <1>2 DEF InChannel, Injective
  <2>2. ASSUME NEW x \in InChannel \ {Head(pending)} PROVE x \in InChannel'
    <3>1. PICK i \in DOMAIN pending : x = pending[i]
      BY DEF InChannel
    <3>2. i - 1 \in DOMAIN pending' /\ x = pending'[i - 1]
      BY <1>2, <2>2, <3>1
    <3> QED
      BY <3>2 DEF InChannel
  <2> QED
    BY <2>1, <2>2
<1>5. Injective(pending)'
  BY <1>2 DEF Injective
<1> QED
  BY <1>3, <1>4, <1>5

LEMMA ChannelSame ==
  ASSUME UNCHANGED pending, Injective(pending)
  PROVE  InChannel' = InChannel /\ Injective(pending)'
BY DEF InChannel, Injective

\* A worker keeps its message, lays it down, or takes one up.
LEMMA WorkerKeeps ==
  ASSUME TypeOK, NEW w \in Workers, NEW new, JobStep(w, new),
         new.msg = job[w].msg, OneEach(job)
  PROVE  AtWork' = AtWork /\ OneEach(job)'
<1>1. /\ DOMAIN job = Workers /\ DOMAIN job' = Workers
      /\ \A v \in Workers : job'[v].msg = job[v].msg
  BY DEF TypeOK, JobOK, JobStep
<1> QED
  BY <1>1 DEF AtWork, OneEach

LEMMA WorkerDrops ==
  ASSUME TypeOK, NEW w \in Workers, JobStep(w, IdleJob), OneEach(job)
  PROVE  AtWork' = AtWork \ {job[w].msg} /\ OneEach(job)'
<1>1. /\ DOMAIN job = Workers /\ DOMAIN job' = Workers
      /\ \A v \in Workers \ {w} : job'[v].msg = job[v].msg
      /\ job'[w].msg = NoMsg
  BY IdleRecords DEF TypeOK, JobOK, JobStep
<1> QED
  BY <1>1 DEF AtWork, OneEach

LEMMA WorkerTakes ==
  ASSUME TypeOK, NEW w \in Workers, NEW new, JobStep(w, new),
         job[w].msg = NoMsg, new.msg \in Messages, new.msg \notin AtWork,
         OneEach(job)
  PROVE  AtWork' = AtWork \cup {new.msg} /\ OneEach(job)'
<1>1. /\ DOMAIN job = Workers /\ DOMAIN job' = Workers
      /\ \A v \in Workers \ {w} : job'[v].msg = job[v].msg
      /\ job'[w].msg = new.msg
      /\ new.msg # NoMsg
  BY QueueAssumption DEF TypeOK, JobOK, JobStep
<1> QED
  BY <1>1 DEF AtWork, OneEach

LEMMA WorkersSame ==
  ASSUME UNCHANGED job, OneEach(job)
  PROVE  AtWork' = AtWork /\ OneEach(job)' /\ AtRecord' = AtRecord
BY DEF AtWork, OneEach, AtRecord, JobAt

\* The same for a request.
LEMMA RequestKeeps ==
  ASSUME TypeOK, NEW h \in Handlers, NEW new, ReqStep(h, new),
         new.msg = req[h].msg, OneEach(req)
  PROVE  AtRequest' = AtRequest /\ OneEach(req)'
<1>1. /\ DOMAIN req = Handlers /\ DOMAIN req' = Handlers
      /\ \A g \in Handlers : req'[g].msg = req[g].msg
  BY DEF TypeOK, ReqOK, ReqStep
<1> QED
  BY <1>1 DEF AtRequest, OneEach

LEMMA RequestDrops ==
  ASSUME TypeOK, NEW h \in Handlers, NEW new, ReqStep(h, new),
         new.msg = NoMsg, OneEach(req)
  PROVE  AtRequest' = AtRequest \ {req[h].msg} /\ OneEach(req)'
<1>1. /\ DOMAIN req = Handlers /\ DOMAIN req' = Handlers
      /\ \A g \in Handlers \ {h} : req'[g].msg = req[g].msg
      /\ req'[h].msg = NoMsg
  BY DEF TypeOK, ReqOK, ReqStep
<1> QED
  BY <1>1 DEF AtRequest, OneEach

LEMMA RequestTakes ==
  ASSUME TypeOK, NEW h \in Handlers, NEW new, ReqStep(h, new),
         req[h].msg = NoMsg, new.msg \in Messages, new.msg \notin AtRequest,
         OneEach(req)
  PROVE  AtRequest' = AtRequest \cup {new.msg} /\ OneEach(req)'
<1>1. /\ DOMAIN req = Handlers /\ DOMAIN req' = Handlers
      /\ \A g \in Handlers \ {h} : req'[g].msg = req[g].msg
      /\ req'[h].msg = new.msg
      /\ new.msg # NoMsg
  BY QueueAssumption DEF TypeOK, ReqOK, ReqStep
<1> QED
  BY <1>1 DEF AtRequest, OneEach

LEMMA RequestsSame ==
  ASSUME UNCHANGED req, OneEach(req)
  PROVE  AtRequest' = AtRequest /\ OneEach(req)'
BY DEF AtRequest, OneEach

(***************************************************************************)
(* Frames: what a step need not look at.                                   *)
(***************************************************************************)

\* A step of one worker that takes no new id.
LEMMA WorkerFrame ==
  ASSUME TypeOK, SingleHolder, OneEach(job)', AtWork' \subseteq AtWork,
         UNCHANGED <<pending, sleeping, req, backlog, batch>>
  PROVE  SingleHolder' /\ Held' \subseteq Held
<1>1. InChannel' = InChannel /\ Asleep' = Asleep
  BY DEF InChannel, Asleep
<1>2. AtRequest' = AtRequest /\ OneEach(req)'
  BY RequestsSame DEF SingleHolder
<1> QED
  BY <1>1, <1>2 DEF SingleHolder, OneKind, Held

\* A step of one request that takes no new id.
LEMMA RequestFrame ==
  ASSUME TypeOK, SingleHolder, OneEach(req)', AtRequest' \subseteq AtRequest,
         UNCHANGED <<pending, sleeping, job, backlog, batch>>
  PROVE  SingleHolder' /\ Held' \subseteq Held
<1>1. InChannel' = InChannel /\ Asleep' = Asleep
  BY DEF InChannel, Asleep
<1>2. AtWork' = AtWork /\ OneEach(job)'
  BY WorkersSame DEF SingleHolder
<1> QED
  BY <1>1, <1>2 DEF SingleHolder, OneKind, Held

LEMMA RequestsFrame ==
  ASSUME TypeOK, Requests, UNCHANGED req,
         \A m \in Messages : status[m] = "none" => status'[m] = "none"
  PROVE  Requests'
<1>1. \A h \in Handlers : req[h].todo \subseteq Messages
  BY DEF TypeOK, ReqOK, ReqRecord
<1> QED
  BY <1>1 DEF Requests

LEMMA RestingFrame ==
  ASSUME Resting, phase = "run", UNCHANGED <<phase, backlog>>,
         \A w \in Workers : job'[w].pc = "idle" => job'[w].msg = NoMsg
  PROVE  Resting'
BY DEF Resting

\* Only while the process runs has a worker or a request anything to do.
LEMMA WorkerRuns ==
  ASSUME Resting, NEW w \in Workers, job[w].pc # "idle"
  PROVE  phase = "run" /\ backlog = {}
BY IdleRecords DEF Resting

LEMMA RequestRuns ==
  ASSUME Resting, NEW h \in Handlers, req[h].pc # "idle"
  PROVE  phase = "run" /\ backlog = {}
BY IdleRecords DEF Resting

LEMMA IdleHands ==
  ASSUME TypeOK, Resting, NEW w \in Workers, NEW new, JobStep(w, new),
         new.pc = "idle" => new.msg = NoMsg
  PROVE  \A v \in Workers : job'[v].pc = "idle" => job'[v].msg = NoMsg
BY DEF TypeOK, JobOK, JobStep, Resting

LEMMA NoRetriesFrame ==
  ASSUME TypeOK, NoRetries, UNCHANGED <<batch, retryAt>>,
         NEW w \in Workers, NEW new, JobStep(w, new), new.err # "temp"
  PROVE  NoRetries'
BY DEF TypeOK, JobOK, JobStep, NoRetries

\* The books stay right when no worker moves, and when one moves that does
\* not hold an outcome to record.
LEMMA BooksFrame ==
  ASSUME TypeOK, Books, UNCHANGED <<status, accepted, repeated, cut, job>>,
         \A m \in Messages : m \in Held' => m \in Held \/ status[m] # "none"
  PROVE  Books'
<1>1. AtRecord' = AtRecord
  BY DEF AtRecord, JobAt
<1> QED
  BY <1>1 DEF Books, Account, Unfinished, JobAt

LEMMA AtRecordFrame ==
  ASSUME TypeOK, NEW w \in Workers, NEW new, JobStep(w, new),
         job[w].pc # "record", new.pc # "record"
  PROVE  AtRecord' = AtRecord
<1>1. \A v \in Workers : /\ v # w => job'[v] = job[v]
                         /\ job'[w] = new
  BY DEF TypeOK, JobOK, JobStep
<1> QED
  BY <1>1 DEF AtRecord, JobAt

LEMMA BooksMove ==
  ASSUME TypeOK, Books, UNCHANGED <<status, accepted, repeated, cut>>,
         NEW w \in Workers, NEW new, JobStep(w, new),
         job[w].pc # "record", new.pc # "record",
         new.pc \in {"claim", "send"} => Unfinished(new.msg),
         Held' \subseteq Held
  PROVE  Books'
<1>1. \A v \in Workers : /\ v # w => job'[v] = job[v]
                         /\ job'[w] = new
  BY DEF TypeOK, JobOK, JobStep
<1>2. AtRecord' = AtRecord
  BY AtRecordFrame
<1>3. ASSUME NEW m \in Messages PROVE Account(m)'
  BY <1>2 DEF Books, Account, Unfinished
<1>4. ASSUME NEW v \in Workers
      PROVE  (/\ job[v].pc \in {"claim", "send", "record"}
                   => Unfinished(job[v].msg)
              /\ JobAt(v, "record") /\ job[v].err = "nil"
                   => accepted[job[v].msg] > 0)'
  BY <1>1 DEF Books, Unfinished, JobAt
<1> QED
  BY <1>3, <1>4 DEF Books, JobAt, Unfinished

(***************************************************************************)
(* Custody is inductive: one lemma for each group of actions.              *)
(***************************************************************************)

\* A step that moves no id.
LEMMA HandsFrame ==
  ASSUME TypeOK, SingleHolder,
         UNCHANGED <<pending, sleeping, req, job, backlog, batch>>
  PROVE  SingleHolder' /\ Held' = Held
<1>1. AtWork' = AtWork /\ OneEach(job)'
  BY WorkersSame DEF SingleHolder
<1>2. SingleHolder'
  BY <1>1, WorkerFrame
<1> QED
  BY <1>1, <1>2 DEF Held, InChannel, Asleep, AtRequest

\* While the process does not run, only Start and the channel hold ids.
LEMMA NobodyElse ==
  ASSUME Resting, NoRetries, phase # "run"
  PROVE  /\ Asleep = {} /\ AtWork = {} /\ AtRequest = {} /\ batch = {}
         /\ phase = "down" => InChannel = {}
BY IdleRecords DEF Resting, NoRetries, AtWork, AtRequest, InChannel

LEMMA InitCustody == Init => Custody
<1> SUFFICES ASSUME Init PROVE Custody
  OBVIOUS
<1>1. /\ \A w \in Workers : job[w] = IdleJob
      /\ \A h \in Handlers : req[h] = IdleReq
      /\ pending = <<>> /\ batch = {} /\ backlog = {} /\ Asleep = {}
      /\ DOMAIN job = Workers /\ DOMAIN req = Handlers
  BY DEF Init, Asleep
<1>2. InChannel = {} /\ AtWork = {} /\ AtRequest = {} /\ AtRecord = {}
  BY <1>1 DEF InChannel, AtWork, AtRequest, AtRecord, JobAt, IdleJob, IdleReq
<1>3. SingleHolder
  BY <1>1, <1>2, IdleRecords DEF Init, SingleHolder, OneKind, OneEach
<1>4. NoRetries /\ Resting /\ Requests
  BY <1>1 DEF Init, NoRetries, Resting, Requests, IdleJob, IdleReq
<1>5. Books
  BY <1>1, <1>2 DEF Init, Books, Account, Held, JobAt, IdleJob
<1> QED
  BY <1>3, <1>4, <1>5 DEF Custody

LEMMA BootCustody ==
  ASSUME TypeOK, Custody, Boot
  PROVE  Custody'
<1>1. /\ phase = "down" /\ phase' = "recover"
      /\ backlog' \subseteq Recoverable
      /\ UNCHANGED <<tables, pending, req, job, sleeping, batch, rate, history>>
  BY DEF Boot
<1>2. /\ InChannel' = {} /\ Asleep' = {} /\ AtWork' = {} /\ AtRequest' = {}
      /\ batch' = {}
  BY <1>1, NobodyElse DEF Custody, InChannel, Asleep, AtWork, AtRequest
<1>3. SingleHolder'
  BY <1>1, <1>2 DEF Custody, SingleHolder, OneKind, OneEach
<1>4. Books'
  <2>1. \A m \in Messages : m \in Held' => status[m] # "none"
    BY <1>1, <1>2 DEF Held, Recoverable, Unfinished
  <2> QED
    BY <1>1, <2>1, BooksFrame DEF Custody
<1>5. NoRetries' /\ Resting'
  BY <1>1 DEF Custody, NoRetries, Resting, Asleep
<1>6. Requests'
  BY <1>1, RequestsFrame DEF Custody
<1> QED
  BY <1>3, <1>4, <1>5, <1>6 DEF Custody

LEMMA PushCustody ==
  ASSUME TypeOK, Custody, NEW m \in Messages, PushRecovered(m)
  PROVE  Custody'
<1>1. /\ phase = "recover" /\ phase' = "recover" /\ m \in backlog
      /\ Send(m) /\ backlog' = backlog \ {m}
      /\ UNCHANGED <<tables, req, job, sleeping, batch, rate, history>>
  BY DEF PushRecovered
<1>2. Asleep = {} /\ AtWork = {} /\ AtRequest = {} /\ batch = {}
  BY <1>1, NobodyElse DEF Custody
<1>3. /\ Asleep' = {} /\ AtWork' = {} /\ AtRequest' = {} /\ batch' = {}
  BY <1>1, <1>2 DEF Asleep, AtWork, AtRequest
<1>4. InChannel' = InChannel \cup {m} /\ Injective(pending)'
  BY <1>1, ChannelGrows DEF Custody, SingleHolder, OneKind, Injective
<1>5. SingleHolder'
  <2>1. backlog' \cap InChannel' = {}
    BY <1>1, <1>4 DEF Custody, SingleHolder, OneKind
  <2>2. OneKind'
    BY <1>3, <2>1 DEF OneKind
  <2>3. OneEach(job)' /\ OneEach(req)' /\ \A n \in Messages : sleeping'[n] <= 1
    BY <1>1 DEF Custody, SingleHolder, OneEach
  <2> QED
    BY <1>4, <2>2, <2>3 DEF SingleHolder, Injective
<1>6. Books'
  <2>1. Held' \subseteq Held
    BY <1>1, <1>2, <1>3, <1>4 DEF Held
  <2> QED
    BY <1>1, <2>1, BooksFrame DEF Custody
<1>7. NoRetries' /\ Resting'
  BY <1>1, <1>3 DEF Custody, NoRetries, Resting, Asleep
<1>8. Requests'
  BY <1>1, RequestsFrame DEF Custody
<1> QED
  BY <1>5, <1>6, <1>7, <1>8 DEF Custody

LEMMA StartWorkersCustody ==
  ASSUME TypeOK, Custody, StartWorkers
  PROVE  Custody'
<1>1. /\ phase' = "run" /\ backlog = {}
      /\ UNCHANGED <<tables, backlog, pending, req, job, sleeping, batch, rate,
                     history>>
  BY DEF StartWorkers
<1>2. SingleHolder' /\ Held' = Held
  BY <1>1, HandsFrame DEF Custody
<1>3. Books'
  BY <1>1, <1>2, BooksFrame DEF Custody
<1>4. NoRetries' /\ Resting'
  BY <1>1 DEF Custody, NoRetries, Resting
<1>5. Requests'
  BY <1>1, RequestsFrame DEF Custody
<1> QED
  BY <1>2, <1>3, <1>4, <1>5 DEF Custody

LEMMA RequestsMove ==
  ASSUME TypeOK, Requests, NEW h \in Handlers, NEW new, ReqStep(h, new),
         new.pc \notin {"event", "enqueue"} => new.msg = NoMsg,
         new.msg # NoMsg => new.msg \in new.todo,
         \A m \in new.todo \ {new.msg} : status'[m] = "none",
         \A g \in Handlers \ {h} :
           /\ new.todo \cap req[g].todo = {}
           /\ \A m \in req[g].todo \ {req[g].msg} : status'[m] = "none"
  PROVE  Requests'
<1>1. /\ \A g \in Handlers \ {h} : req'[g] = req[g]
      /\ req'[h] = new
  BY DEF TypeOK, ReqOK, ReqStep
<1>2. ASSUME NEW g \in Handlers
      PROVE  (/\ req[g].pc \notin {"event", "enqueue"} => req[g].msg = NoMsg
              /\ req[g].msg # NoMsg => req[g].msg \in req[g].todo
              /\ \A m \in req[g].todo \ {req[g].msg} : status[m] = "none")'
  BY <1>1 DEF Requests
<1>3. ASSUME NEW f \in Handlers, NEW g \in Handlers, f # g
      PROVE  (req[f].todo \cap req[g].todo = {})'
  BY <1>1, <1>3 DEF Requests
<1> QED
  BY <1>2, <1>3 DEF Requests

\* What a request leaves alone.
LEMMA RequestRest ==
  ASSUME Custody, phase = "run",
         UNCHANGED <<phase, backlog, batch, retryAt, job>>
  PROVE  NoRetries' /\ Resting'
<1>1. NoRetries'
  BY DEF Custody, NoRetries
<1> QED
  BY <1>1, RestingFrame DEF Custody, Resting

LEMMA ReceiveCustody ==
  ASSUME TypeOK, Custody, NEW h \in Handlers, NEW kind \in ReqKind,
         NEW todo \in SUBSET Messages, Receive(h, kind, todo)
  PROVE  Custody'
<1> DEFINE new == [pc |-> IF kind = "email" THEN "check" ELSE "create",
                   kind |-> kind, todo |-> todo, msg |-> NoMsg]
<1>1. /\ phase = "run" /\ req[h].pc = "idle" /\ todo \subseteq Fresh
      /\ ReqStep(h, new)
      /\ UNCHANGED <<tables, feeders, pending, job, sleeping, rate, history>>
  BY DEF Receive
<1>2. req[h].msg = NoMsg
  BY <1>1 DEF Custody, Requests
<1>3. SingleHolder' /\ Held' \subseteq Held
  BY <1>1, <1>2, RequestKeeps, RequestFrame DEF Custody, SingleHolder
<1>4. Requests'
  BY <1>1, RequestsMove DEF Custody, Requests, Fresh, Claimed
<1>5. Books'
  BY <1>1, <1>3, BooksFrame DEF Custody
<1> QED
  BY <1>1, <1>3, <1>4, <1>5, RequestRest DEF Custody

\* A request that goes on with what it has, or gives up before it stored it.
LEMMA QuietRequestCustody ==
  ASSUME TypeOK, Custody, NEW h \in Handlers,
         CheckSuppression(h) \/ CreateFails(h) \/ AddQueuedEvent(h)
  PROVE  Custody'
<1>1. \E new : /\ ReqStep(h, new)
               /\ new.msg = req[h].msg
               /\ new.todo \subseteq req[h].todo
               /\ new.msg # NoMsg => new.todo = req[h].todo
               /\ new.pc \notin {"event", "enqueue"} => new.msg = NoMsg
  <2>0. req[h] \in ReqRecord
    BY DEF TypeOK, ReqOK
  <2>1. CASE req[h].pc \in {"check", "create"} /\ ReqStep(h, IdleReq)
    BY <2>1 DEF Custody, Requests, IdleReq
  <2>2. CASE req[h].pc = "check" /\ ReqStep(h, Goto(req[h], "create"))
    <3>1. /\ Goto(req[h], "create").msg = req[h].msg
          /\ Goto(req[h], "create").todo = req[h].todo
      BY <2>0 DEF Goto, ReqRecord
    <3> QED
      BY <2>2, <3>1 DEF Custody, Requests
  <2>3. CASE req[h].pc = "event" /\ ReqStep(h, Goto(req[h], "enqueue"))
    <3>1. /\ Goto(req[h], "enqueue").msg = req[h].msg
          /\ Goto(req[h], "enqueue").todo = req[h].todo
          /\ Goto(req[h], "enqueue").pc = "enqueue"
      BY <2>0 DEF Goto, ReqRecord
    <3> QED
      BY <2>3, <3>1
  <2> QED
    BY <2>1, <2>2, <2>3 DEF CheckSuppression, CreateFails, AddQueuedEvent
<1>2. PICK new : /\ ReqStep(h, new)
                 /\ new.msg = req[h].msg
                 /\ new.todo \subseteq req[h].todo
                 /\ new.msg # NoMsg => new.todo = req[h].todo
                 /\ new.pc \notin {"event", "enqueue"} => new.msg = NoMsg
  BY <1>1
<1>3. /\ req[h].pc # "idle"
      /\ UNCHANGED <<columns, feeders, pending, job, sleeping, rate, history>>
  BY DEF CheckSuppression, CreateFails, AddQueuedEvent
<1>4. phase = "run"
  BY <1>3, RequestRuns DEF Custody
<1>5. SingleHolder' /\ Held' \subseteq Held
  BY <1>2, <1>3, RequestKeeps, RequestFrame DEF Custody, SingleHolder
<1>6. Requests'
  BY <1>2, <1>3, RequestsMove DEF Custody, Requests
<1>7. Books'
  BY <1>3, <1>5, BooksFrame DEF Custody
<1> QED
  BY <1>3, <1>4, <1>5, <1>6, <1>7, RequestRest DEF Custody

\* The new row is in nobody's hands, because it was not there before.
LEMMA CreateRowCustody ==
  ASSUME TypeOK, Custody, NEW h \in Handlers, CreateRow(h)
  PROVE  Custody'
<1>1. PICK m \in req[h].todo :
        /\ status' = [status EXCEPT ![m] = "queued"]
        /\ ReqStep(h, [req[h] EXCEPT
             !.pc = IF req[h].kind = "service" THEN "enqueue" ELSE "event",
             !.msg = m])
  BY DEF CreateRow
<1> DEFINE new == [req[h] EXCEPT
             !.pc = IF req[h].kind = "service" THEN "enqueue" ELSE "event",
             !.msg = m]
<1>2. /\ req[h].pc = "create"
      /\ UNCHANGED <<retries, retryAt, events, suppressed, feeders, pending,
                     job, sleeping, rate, history>>
  BY DEF CreateRow
<1>3. /\ new.msg = m /\ new.todo = req[h].todo
      /\ new.pc \in {"event", "enqueue"}
      /\ m \in Messages
      /\ ReqStep(h, new)
  BY <1>1 DEF TypeOK, ReqOK, ReqRecord
<1> HIDE DEF new
<1>4. phase = "run"
  BY <1>2, RequestRuns DEF Custody
<1>5. req[h].msg = NoMsg
  BY <1>2 DEF Custody, Requests
<1>6. /\ status[m] = "none" /\ m \notin Held
      /\ accepted[m] = 0 /\ cut[m] = 0 /\ repeated[m] = 0
  BY <1>1, <1>3, <1>5, QueueAssumption DEF Custody, Requests, Books, Account
<1>7. /\ AtRequest' = AtRequest \cup {m} /\ OneEach(req)'
  BY <1>3, <1>5, <1>6, RequestTakes DEF Custody, SingleHolder, Held
<1>8. /\ InChannel' = InChannel /\ Asleep' = Asleep /\ AtWork' = AtWork
      /\ OneEach(job)' /\ AtRecord' = AtRecord
  BY <1>2, WorkersSame DEF Custody, SingleHolder, InChannel, Asleep
<1>9. SingleHolder'
  BY <1>2, <1>6, <1>7, <1>8 DEF Custody, SingleHolder, OneKind, Held
<1>10. Requests'
  <2>1. \A n \in Messages \ {m} : status'[n] = status[n]
    BY <1>1 DEF TypeOK, TablesOK
  <2>2. \A g \in Handlers : req[g].todo \subseteq Messages
    BY DEF TypeOK, ReqOK, ReqRecord
  <2>3. \A n \in new.todo \ {new.msg} : status'[n] = "none"
    BY <1>3, <1>5, <2>1, <2>2, QueueAssumption DEF Custody, Requests
  <2>4. \A g \in Handlers \ {h} :
           /\ new.todo \cap req[g].todo = {}
           /\ \A n \in req[g].todo \ {req[g].msg} : status'[n] = "none"
    BY <1>1, <1>3, <2>1, <2>2 DEF Custody, Requests
  <2> QED
    BY <1>1, <1>3, <2>3, <2>4, RequestsMove DEF Custody
<1>11. Books'
  <2>1. Held' = Held \cup {m}
    BY <1>2, <1>7, <1>8 DEF Held
  <2>2. status'[m] = "queued" /\ \A n \in Messages \ {m} : status'[n] = status[n]
    BY <1>1, <1>3 DEF TypeOK, TablesOK
  <2>3. \A w \in Workers : job[w].pc # "idle" => job[w].msg \in Messages \ {m}
    BY <1>3, <1>6, QueueAssumption DEF TypeOK, JobOK, Held, AtWork
  <2>4. ASSUME NEW n \in Messages
        PROVE  Account(n)'
    BY <1>2, <1>6, <1>8, <2>1, <2>2 DEF Custody, Books, Account, Unfinished
  <2>5. ASSUME NEW w \in Workers
        PROVE  (/\ job[w].pc \in {"claim", "send", "record"}
                     => Unfinished(job[w].msg)
                /\ JobAt(w, "record") /\ job[w].err = "nil"
                     => accepted[job[w].msg] > 0)'
    BY <1>2, <2>2, <2>3 DEF Custody, Books, Unfinished, JobAt
  <2> QED
    BY <2>4, <2>5 DEF Books
<1> QED
  BY <1>2, <1>4, <1>9, <1>10, <1>11, RequestRest DEF Custody

LEMMA EnqueueCustody ==
  ASSUME TypeOK, Custody, NEW h \in Handlers, Enqueue(h)
  PROVE  Custody'
<1> DEFINE m    == req[h].msg
           left == req[h].todo \ {m}
           new  == IF left = {} THEN IdleReq
                   ELSE [req[h] EXCEPT !.pc = "create", !.todo = left,
                                       !.msg = NoMsg]
<1>1. /\ req[h].pc = "enqueue" /\ Send(m) /\ ReqStep(h, new)
      /\ UNCHANGED <<tables, feeders, job, sleeping, rate, history>>
  BY DEF Enqueue
<1>2. /\ new.msg = NoMsg /\ new.todo \subseteq left
      /\ new.pc \notin {"event", "enqueue"}
  <2>1. req[h] \in ReqRecord
    BY DEF TypeOK, ReqOK
  <2> QED
    BY <2>1 DEF IdleReq, ReqRecord
<1>3. m \in Messages /\ m # NoMsg /\ m \in AtRequest /\ phase = "run"
  BY <1>1, RequestRuns, QueueAssumption DEF Custody, TypeOK, ReqOK, AtRequest
<1> HIDE DEF new
<1>4. AtRequest' = AtRequest \ {m} /\ OneEach(req)'
  BY <1>1, <1>2, RequestDrops DEF Custody, SingleHolder
<1>5. InChannel' = InChannel \cup {m} /\ Injective(pending)'
  BY <1>1, <1>3, ChannelGrows DEF Custody, SingleHolder, OneKind, Injective
<1>6. Asleep' = Asleep /\ AtWork' = AtWork /\ OneEach(job)'
  BY <1>1, WorkersSame DEF Custody, SingleHolder, Asleep
<1>7. SingleHolder'
  <2>1. OneKind'
    BY <1>1, <1>3, <1>4, <1>5, <1>6 DEF Custody, SingleHolder, OneKind
  <2> QED
    BY <1>1, <1>4, <1>5, <1>6, <2>1 DEF Custody, SingleHolder, Injective
<1>8. Requests'
  BY <1>1, <1>2, RequestsMove DEF Custody, Requests
<1>9. Books'
  <2>1. Held' \subseteq Held
    BY <1>1, <1>3, <1>4, <1>5, <1>6 DEF Held
  <2> QED
    BY <1>1, <2>1, BooksFrame DEF Custody
<1> QED
  BY <1>1, <1>3, <1>7, <1>8, <1>9, RequestRest DEF Custody

\* What a worker leaves alone.
LEMMA WorkerRest ==
  ASSUME TypeOK, Custody, phase = "run",
         UNCHANGED <<phase, backlog, batch, retryAt, req>>,
         NEW w \in Workers, NEW new, JobStep(w, new), new.err # "temp",
         new.pc = "idle" => new.msg = NoMsg,
         \A m \in Messages : status[m] = "none" => status'[m] = "none"
  PROVE  NoRetries' /\ Resting' /\ Requests'
<1>1. NoRetries'
  BY NoRetriesFrame DEF Custody
<1>2. Resting'
  BY IdleHands, RestingFrame DEF Custody
<1>3. Requests'
  BY RequestsFrame DEF Custody
<1> QED
  BY <1>1, <1>2, <1>3

\* A worker that writes no status and has no outcome in hand.
LEMMA QuietWorkerCustody ==
  ASSUME TypeOK, Custody, NEW w \in Workers,
         \/ HourCheck(w) \/ ResetCount(w) \/ ResetHour(w) \/ UnderLimit(w)
         \/ Load(w) \/ LogEvent(w) \/ Count(w) \/ Suppress(w) \/ LogBounce(w)
  PROVE  Custody'
<1> DEFINE Quiet(new) ==
      /\ new = IdleJob \/ (new.msg = job[w].msg /\ new.pc # "idle")
      /\ new.pc # "record"
      /\ new.err # "temp"
      /\ new.pc \in {"claim", "send"} => Unfinished(new.msg)
<1>0. /\ job[w] \in JobRecord /\ job[w].err # "temp"
      /\ Quiet(IdleJob)
  <2>1. job[w] \in JobRecord /\ job[w].err # "temp"
    BY DEF TypeOK, JobOK, Custody, NoRetries
  <2>2. IdleJob.pc = "idle" /\ IdleJob.err = "nil"
    BY DEF IdleJob
  <2> QED
    BY <2>1, <2>2
<1>1. ASSUME NEW pc \in JobPc \ {"idle", "record", "claim", "send"}
      PROVE  Quiet(Goto(job[w], pc))
  BY <1>0 DEF Goto, JobRecord
<1>2. \E new : JobStep(w, new) /\ Quiet(new)
  <2>1. CASE HourCheck(w)
    BY <2>1, <1>1 DEF HourCheck, JobPc
  <2>2. CASE ResetCount(w) \/ ResetHour(w)
    BY <2>2, <1>1 DEF ResetCount, ResetHour, JobPc
  <2>3. CASE UnderLimit(w)
    BY <2>3, <1>1 DEF UnderLimit, JobPc
  <2>4. CASE Load(w)
    <3> DEFINE m      == job[w].msg
               loaded == [job[w] EXCEPT !.pc = "claim", !.tries = retries[m]]
    <3>1. m \in Messages /\ m \in Held
      BY <2>4, QueueAssumption DEF Load, JobAt, TypeOK, JobOK, Held, AtWork
    <3>2. ~Settled(m) => Unfinished(m)
      BY <3>1
      DEF Custody, Books, Account, Settled, Unfinished, TypeOK, TablesOK, Status
    <3>3. loaded.msg = m /\ loaded.pc = "claim" /\ loaded.err = job[w].err
      BY <1>0 DEF JobRecord
    <3>4. JobStep(w, IdleJob) \/ (~Settled(m) /\ JobStep(w, loaded))
      BY <2>4 DEF Load
    <3>5. ~Settled(m) => Quiet(loaded)
      BY <1>0, <3>2, <3>3
    <3> QED
      BY <1>0, <3>4, <3>5
  <2>5. CASE LogEvent(w)
    <3>1. \/ JobStep(w, Goto(job[w], "count"))
          \/ JobStep(w, Goto(job[w], "suppress"))
          \/ JobStep(w, IdleJob)
      BY <2>5, <1>0 DEF LogEvent, JobRecord, ErrKind
    <3> QED
      BY <3>1, <1>0, <1>1 DEF JobPc
  <2>6. CASE Count(w)
    BY <2>6, <1>0 DEF Count
  <2>7. CASE Suppress(w)
    BY <2>7, <1>1 DEF Suppress, JobPc
  <2>8. CASE LogBounce(w)
    BY <2>8, <1>0 DEF LogBounce
  <2> QED
    BY <2>1, <2>2, <2>3, <2>4, <2>5, <2>6, <2>7, <2>8
<1>3. PICK new : JobStep(w, new) /\ Quiet(new)
  BY <1>2
<1>4. /\ job[w].pc \notin {"idle", "record"}
      /\ UNCHANGED <<columns, feeders, pending, req, sleeping, accepted,
                     repeated, cut>>
  BY DEF HourCheck, ResetCount, ResetHour, UnderLimit, Load, LogEvent, Count,
         Suppress, LogBounce, JobAt
<1>5. phase = "run"
  BY <1>4, WorkerRuns DEF Custody
<1>6. SingleHolder' /\ Held' \subseteq Held
  <2>1. OneEach(job)
    BY DEF Custody, SingleHolder
  <2>2. AtWork' \subseteq AtWork /\ OneEach(job)'
    <3>1. CASE new = IdleJob
      BY <1>3, <2>1, <3>1, WorkerDrops
    <3>2. CASE new.msg = job[w].msg
      BY <1>3, <2>1, <3>2, WorkerKeeps
    <3> QED
      BY <1>3, <3>1, <3>2
  <2> QED
    BY <1>4, <2>2, WorkerFrame DEF Custody
<1>7. Books'
  BY <1>3, <1>4, <1>6, BooksMove DEF Custody
<1>8. NoRetries' /\ Resting' /\ Requests'
  BY <1>3, <1>4, <1>5, WorkerRest, IdleRecords
<1> QED
  BY <1>6, <1>7, <1>8 DEF Custody

\* What the channel delivers was in no other hands.
LEMMA TakeCustody ==
  ASSUME TypeOK, Custody, NEW w \in Workers, Take(w)
  PROVE  Custody'
<1> DEFINE m   == Head(pending)
           new == [IdleJob EXCEPT !.pc = "hour", !.msg = m]
<1>1. /\ phase = "run" /\ job[w].pc = "idle" /\ pending # <<>>
      /\ pending' = Tail(pending) /\ JobStep(w, new)
      /\ UNCHANGED <<tables, feeders, req, sleeping, rate, history>>
  BY DEF Take, JobAt
<1>2. new.msg = m /\ new.pc = "hour" /\ new.err = "nil"
  BY DEF IdleJob
<1> HIDE DEF new
<1>3. job[w].msg = NoMsg
  BY <1>1 DEF Custody, Resting
<1>4. /\ m \in InChannel /\ m \in Messages
      /\ InChannel' = InChannel \ {m} /\ Injective(pending)'
  BY <1>1, ChannelShrinks DEF Custody, SingleHolder, Injective
<1>5. AtWork' = AtWork \cup {m} /\ OneEach(job)'
  BY <1>1, <1>2, <1>3, <1>4, WorkerTakes DEF Custody, SingleHolder, OneKind
<1>6. /\ Asleep' = Asleep /\ AtRequest' = AtRequest /\ OneEach(req)'
  BY <1>1, RequestsSame DEF Custody, SingleHolder, Asleep
<1>7. SingleHolder'
  <2>1. OneKind'
    BY <1>1, <1>4, <1>5, <1>6 DEF Custody, SingleHolder, OneKind
  <2> QED
    BY <1>1, <1>4, <1>5, <1>6, <2>1 DEF Custody, SingleHolder, Injective
<1>8. Books'
  <2>1. Held' \subseteq Held
    BY <1>1, <1>4, <1>5, <1>6 DEF Held
  <2> QED
    BY <1>1, <1>2, <2>1, BooksMove DEF Custody
<1>9. NoRetries' /\ Resting' /\ Requests'
  BY <1>1, <1>2, WorkerRest
<1> QED
  BY <1>7, <1>8, <1>9 DEF Custody

\* The id that waits for the next hour goes from the worker to a sleeper.
LEMMA OverLimitCustody ==
  ASSUME TypeOK, Custody, NEW w \in Workers, OverLimit(w)
  PROVE  Custody'
<1> DEFINE m == job[w].msg
<1>1. /\ job[w].pc = "limit" /\ JobStep(w, IdleJob)
      /\ sleeping' = [sleeping EXCEPT ![m] = @ + 1]
      /\ UNCHANGED <<tables, feeders, pending, req, rate, history>>
  BY DEF OverLimit, JobAt
<1>2. m \in Messages /\ m # NoMsg /\ m \in AtWork /\ phase = "run"
  BY <1>1, WorkerRuns, QueueAssumption DEF Custody, TypeOK, JobOK, AtWork
<1>3. sleeping[m] = 0
  BY <1>2 DEF Custody, SingleHolder, OneKind, Asleep, TypeOK, QueueOK
<1>4. /\ Asleep' = Asleep \cup {m}
      /\ \A n \in Messages : sleeping'[n] <= 1
  <2>1. \A n \in Messages : sleeping'[n] = IF n = m THEN 1 ELSE sleeping[n]
    BY <1>1, <1>3 DEF TypeOK, QueueOK
  <2> QED
    BY <1>2, <2>1 DEF Asleep, Custody, SingleHolder
<1>5. AtWork' = AtWork \ {m} /\ OneEach(job)'
  BY <1>1, WorkerDrops DEF Custody, SingleHolder
<1>6. /\ InChannel' = InChannel /\ Injective(pending)'
      /\ AtRequest' = AtRequest /\ OneEach(req)'
  BY <1>1, ChannelSame, RequestsSame DEF Custody, SingleHolder, Injective
<1>7. SingleHolder'
  <2>1. OneKind'
    BY <1>1, <1>2, <1>4, <1>5, <1>6 DEF Custody, SingleHolder, OneKind
  <2> QED
    BY <1>4, <1>5, <1>6, <2>1 DEF SingleHolder, Injective
<1>8. Books'
  <2>1. Held' \subseteq Held
    BY <1>1, <1>2, <1>4, <1>5, <1>6 DEF Held
  <2> QED
    BY <1>1, <2>1, BooksMove, IdleRecords DEF Custody
<1>9. NoRetries' /\ Resting' /\ Requests'
  BY <1>1, <1>2, WorkerRest, IdleRecords DEF IdleJob
<1> QED
  BY <1>7, <1>8, <1>9 DEF Custody

\* A worker that has claimed a row is the only one to have it.
LEMMA RowInHand ==
  ASSUME TypeOK, Custody, NEW w \in Workers,
         job[w].pc \in {"claim", "send", "record"}
  PROVE  /\ phase = "run"
         /\ job[w].msg \in Messages /\ Unfinished(job[w].msg)
         /\ \A v \in Workers \ {w} : job[v].msg # job[w].msg
         /\ job[w].pc # "record" =>
              /\ job[w].msg \notin AtRecord
              /\ accepted[job[w].msg]
                   <= cut[job[w].msg] + repeated[job[w].msg]
<1>1. phase = "run" /\ job[w].msg \in Messages /\ Unfinished(job[w].msg)
  BY WorkerRuns DEF Custody, Books, TypeOK, JobOK
<1>2. \A v \in Workers \ {w} : job[v].msg # job[w].msg
  BY <1>1, QueueAssumption DEF Custody, SingleHolder, OneEach, TypeOK, JobOK
<1>3. job[w].pc # "record" => job[w].msg \notin AtRecord
  BY <1>2 DEF AtRecord, JobAt
<1> QED
  BY <1>1, <1>2, <1>3 DEF Custody, Books, Account

\* The books when a worker writes about the row it has.
LEMMA BooksWrite ==
  ASSUME TypeOK, Custody, NEW w \in Workers, NEW new, JobStep(w, new),
         NEW m \in Messages, m = job[w].msg, new.msg = m,
         job[w].pc \in {"claim", "send", "record"},
         \A n \in Messages \ {m} : /\ status'[n] = status[n]
                                   /\ accepted'[n] = accepted[n]
                                   /\ repeated'[n] = repeated[n]
                                   /\ cut'[n] = cut[n],
         Held' \subseteq Held,
         status'[m] # "none",
         Unfinished(m)' /\ new.pc # "record"
           => accepted'[m] <= cut'[m] + repeated'[m],
         accepted'[m] <= 1 + cut'[m] + repeated'[m],
         new.pc \in {"claim", "send", "record"} => Unfinished(m)',
         new.pc = "record" /\ new.err = "nil" => accepted'[m] > 0
  PROVE  Books'
<1>1. \A v \in Workers : /\ v # w => job'[v] = job[v] /\ job[v].msg # m
                         /\ job'[w] = new
  BY RowInHand DEF TypeOK, JobOK, JobStep
<1>2. \A n \in Messages \ {m} : n \in AtRecord' <=> n \in AtRecord
  BY <1>1 DEF AtRecord, JobAt
<1>3. new.pc = "record" <=> m \in AtRecord'
  BY <1>1 DEF AtRecord, JobAt
<1>4. ASSUME NEW n \in Messages
      PROVE  Account(n)'
  <2>1. CASE n = m
    BY <2>1, <1>3 DEF Account
  <2>2. CASE n # m
    BY <2>2, <1>2 DEF Custody, Books, Account, Unfinished
  <2> QED
    BY <2>1, <2>2
<1>5. ASSUME NEW v \in Workers
      PROVE  (/\ job[v].pc \in {"claim", "send", "record"}
                   => Unfinished(job[v].msg)
              /\ JobAt(v, "record") /\ job[v].err = "nil"
                   => accepted[job[v].msg] > 0)'
  <2>1. CASE v = w
    BY <2>1, <1>1 DEF JobAt, Unfinished
  <2>2. CASE v # w
    BY <2>2, <1>1 DEF Custody, Books, Unfinished, JobAt, TypeOK, JobOK
  <2> QED
    BY <2>1, <2>2
<1> QED
  BY <1>4, <1>5 DEF Books

\* What Claim, Transmit and the two ways to record have in common.
LEMMA WriteCustody ==
  ASSUME TypeOK, Custody, NEW w \in Workers, NEW new, JobStep(w, new),
         job[w].pc \in {"claim", "send", "record"},
         new.msg = job[w].msg, new.pc # "idle", new.err # "temp",
         UNCHANGED <<feeders, pending, req, sleeping, retryAt>>,
         \A m \in Messages : status[m] = "none" => status'[m] = "none"
  PROVE  /\ SingleHolder' /\ Held' \subseteq Held
         /\ NoRetries' /\ Resting' /\ Requests'
<1>1. AtWork' \subseteq AtWork /\ OneEach(job)'
  BY WorkerKeeps DEF Custody, SingleHolder
<1>2. SingleHolder' /\ Held' \subseteq Held
  BY <1>1, WorkerFrame DEF Custody
<1>3. NoRetries' /\ Resting' /\ Requests'
  BY RowInHand, WorkerRest
<1> QED
  BY <1>2, <1>3

LEMMA ClaimCustody ==
  ASSUME TypeOK, Custody, NEW w \in Workers, Claim(w)
  PROVE  Custody'
<1>0. PICK m : m = job[w].msg
  OBVIOUS
<1> DEFINE new == Goto(job[w], "send")
<1>1. /\ job[w].pc = "claim" /\ JobStep(w, new)
      /\ status' = [status EXCEPT ![m] = "sending"] \/ status' = status
      /\ UNCHANGED <<retries, retryAt, events, suppressed, feeders, pending,
                     req, sleeping, rate, history>>
  BY <1>0 DEF Claim, JobAt
<1>2. /\ new.msg = m /\ new.pc = "send" /\ new.err # "temp"
  BY <1>0 DEF TypeOK, JobOK, JobRecord, Goto, Custody, NoRetries
<1> HIDE DEF new
<1>3. m \in Messages /\ Unfinished(m) /\ accepted[m] <= cut[m] + repeated[m]
  BY <1>0, <1>1, RowInHand
<1>4. /\ \A n \in Messages \ {m} : status'[n] = status[n]
      /\ status'[m] \in {"queued", "sending"}
  BY <1>0, <1>1, <1>3 DEF TypeOK, TablesOK, Unfinished
<1>5. \A n \in Messages : status[n] = "none" => status'[n] = "none"
  BY <1>0, <1>3, <1>4 DEF Unfinished
<1>6. /\ SingleHolder' /\ Held' \subseteq Held
      /\ NoRetries' /\ Resting' /\ Requests'
  BY <1>0, <1>1, <1>2, <1>5, WriteCustody
<1>7. accepted'[m] <= 1 + cut'[m] + repeated'[m]
  BY <1>0, <1>1, <1>3 DEF Custody, Books, Account
<1>8. Books'
  BY <1>0, <1>1, <1>2, <1>3, <1>4, <1>6, <1>7, BooksWrite DEF Unfinished
<1> QED
  BY <1>0, <1>6, <1>8 DEF Custody

LEMMA TransmitCustody ==
  ASSUME Deployed, TypeOK, Custody, NEW w \in Workers, Transmit(w)
  PROVE  Custody'
<1>1. PICK o \in Outcomes :
        /\ accepted' = [accepted EXCEPT ![job[w].msg] = @ + o.takers]
        /\ repeated' = [repeated EXCEPT ![job[w].msg] =
                          IF o.takers > 1 THEN @ + (o.takers - 1) ELSE @]
        /\ JobStep(w, [job[w] EXCEPT !.pc = "record", !.err = o.err])
  BY DEF Transmit
<1>0. PICK m : m = job[w].msg
  OBVIOUS
<1> DEFINE new == [job[w] EXCEPT !.pc = "record", !.err = o.err]
<1>2. /\ job[w].pc = "send"
      /\ UNCHANGED <<tables, feeders, pending, req, sleeping, rate, cut,
                     crashes>>
  BY <1>0 DEF Transmit, JobAt
<1>3. /\ o.err \in {"nil", "other"} /\ o.takers \in Nat
      /\ o.err = "nil" => o.takers > 0
  BY ExchangersAssumption
     DEF Deployed, DeployedOutcomes, ContractOutcomes, Outcome
<1>4. /\ new.msg = m /\ new.pc = "record" /\ new.err = o.err
      /\ JobStep(w, new)
  BY <1>0, <1>1 DEF TypeOK, JobOK, JobRecord
<1> HIDE DEF new
<1>5. m \in Messages /\ Unfinished(m) /\ accepted[m] <= cut[m] + repeated[m]
  BY <1>0, <1>2, RowInHand
<1>6. /\ \A n \in Messages \ {m} : accepted'[n] = accepted[n]
      /\ accepted'[m] = accepted[m] + o.takers
      /\ accepted[m] \in Nat /\ cut[m] \in Nat /\ cut'[m] = cut[m]
  BY <1>0, <1>1, <1>2, <1>5 DEF TypeOK, HistoryOK
<1>a. /\ \A n \in Messages \ {m} : repeated'[n] = repeated[n]
      /\ repeated'[m] = IF o.takers > 1 THEN repeated[m] + (o.takers - 1)
                        ELSE repeated[m]
      /\ repeated[m] \in Nat
  BY <1>0, <1>1, <1>5 DEF TypeOK, HistoryOK
<1>7. /\ SingleHolder' /\ Held' \subseteq Held
      /\ NoRetries' /\ Resting' /\ Requests'
  BY <1>0, <1>2, <1>3, <1>4, WriteCustody
<1>8. /\ accepted'[m] <= 1 + cut'[m] + repeated'[m]
      /\ o.err = "nil" => accepted'[m] > 0
  BY <1>3, <1>5, <1>6, <1>a
<1>9. Unfinished(m)' /\ status'[m] # "none"
  BY <1>0, <1>2, <1>5 DEF Unfinished
<1>10. Books'
  BY <1>0, <1>2, <1>4, <1>5, <1>6, <1>7, <1>8, <1>9, <1>a, BooksWrite
<1> QED
  BY <1>0, <1>7, <1>10 DEF Custody

LEMMA RecordCustody ==
  ASSUME TypeOK, Custody, NEW w \in Workers, RecordDone(w) \/ RecordFails(w)
  PROVE  Custody'
<1>0. PICK m : m = job[w].msg
  OBVIOUS
<1> DEFINE new == Goto(job[w], "log")
<1>1. /\ job[w].pc = "record" /\ JobStep(w, new)
      /\ UNCHANGED <<events, suppressed, feeders, pending, req, sleeping, rate,
                     accepted, repeated>>
  BY <1>0 DEF RecordDone, RecordFails, JobAt
<1>2. /\ new.msg = m /\ new.pc = "log" /\ new.err = job[w].err
      /\ job[w].err # "temp"
  BY <1>0 DEF TypeOK, JobOK, JobRecord, Goto, Custody, NoRetries
<1> HIDE DEF new
<1>3. /\ m \in Messages /\ Unfinished(m)
      /\ accepted[m] <= 1 + cut[m] + repeated[m]
      /\ accepted[m] \in Nat /\ cut[m] \in Nat /\ repeated[m] \in Nat
  BY <1>0, <1>1, RowInHand DEF Custody, Books, Account, TypeOK, HistoryOK
<1>4. /\ retryAt' = retryAt
      /\ \A n \in Messages \ {m} : status'[n] = status[n] /\ cut'[n] = cut[n]
      /\ \/ status'[m] \in {"sent", "failed"} /\ cut'[m] = cut[m]
         \/ status'[m] = status[m] /\ cut'[m] = cut[m] + 1
  <2>1. CASE RecordDone(w)
    <3>1. /\ status' = [status EXCEPT ![m] =
                          IF job[w].err = "nil" THEN "sent" ELSE "failed"]
          /\ UNCHANGED <<retryAt, cut>>
      BY <1>0, <2>1, <1>2 DEF RecordDone, Deferred
    <3> QED
      BY <1>0, <1>3, <3>1 DEF TypeOK, TablesOK
  <2>2. CASE RecordFails(w)
    BY <1>0, <2>2, <1>3 DEF RecordFails, TypeOK, HistoryOK
  <2> QED
    BY <1>0, <2>1, <2>2
<1>5. \A n \in Messages : status[n] = "none" => status'[n] = "none"
  BY <1>0, <1>3, <1>4 DEF Unfinished
<1>6. /\ SingleHolder' /\ Held' \subseteq Held
      /\ NoRetries' /\ Resting' /\ Requests'
  BY <1>0, <1>1, <1>2, <1>4, <1>5, WriteCustody
<1>7. /\ status'[m] # "none" /\ accepted'[m] <= 1 + cut'[m] + repeated'[m]
      /\ Unfinished(m)' => accepted'[m] <= cut'[m] + repeated'[m]
  BY <1>0, <1>1, <1>3, <1>4 DEF Unfinished
<1>8. Books'
  BY <1>0, <1>1, <1>2, <1>3, <1>4, <1>6, <1>7, BooksWrite
<1> QED
  BY <1>0, <1>6, <1>8 DEF Custody

LEMMA WakeCustody ==
  ASSUME TypeOK, Custody, NEW m \in Messages, Wake(m)
  PROVE  Custody'
<1>1. /\ sleeping[m] > 0 /\ Send(m)
      /\ sleeping' = [sleeping EXCEPT ![m] = @ - 1]
      /\ UNCHANGED <<tables, feeders, req, job, rate, history>>
  BY DEF Wake
<1>2. m \in Asleep /\ phase = "run" /\ sleeping[m] = 1
  BY <1>1 DEF Asleep, Custody, Resting, SingleHolder, TypeOK, QueueOK
<1>3. /\ Asleep' = Asleep \ {m}
      /\ \A n \in Messages : sleeping'[n] <= 1
  <2>1. \A n \in Messages : sleeping'[n] = IF n = m THEN 0 ELSE sleeping[n]
    BY <1>1, <1>2 DEF TypeOK, QueueOK
  <2> QED
    BY <2>1 DEF Asleep, Custody, SingleHolder
<1>4. InChannel' = InChannel \cup {m} /\ Injective(pending)'
  BY <1>1, <1>2, ChannelGrows DEF Custody, SingleHolder, OneKind, Injective
<1>5. /\ AtWork' = AtWork /\ OneEach(job)'
      /\ AtRequest' = AtRequest /\ OneEach(req)'
  BY <1>1, WorkersSame, RequestsSame DEF Custody, SingleHolder
<1>6. SingleHolder'
  <2>1. OneKind'
    BY <1>1, <1>2, <1>3, <1>4, <1>5 DEF Custody, SingleHolder, OneKind
  <2> QED
    BY <1>3, <1>4, <1>5, <2>1 DEF SingleHolder, Injective
<1>7. Books'
  <2>1. Held' \subseteq Held
    BY <1>1, <1>2, <1>3, <1>4, <1>5 DEF Held
  <2> QED
    BY <1>1, <2>1, BooksFrame DEF Custody
<1>8. Requests'
  BY <1>1, RequestsFrame DEF Custody
<1> QED
  BY <1>1, <1>2, <1>6, <1>7, <1>8, RequestRest DEF Custody

\* Nothing was deferred, so the scheduler never has an id and no retry time
\* ever comes.
LEMMA SchedulerRests ==
  ASSUME Custody
  PROVE  /\ ~Scan
         /\ \A m \in Messages : ~SchedulerPush(m) /\ ~RetryElapses(m)
<1>1. Due = {}
  BY DEF Custody, NoRetries, Due
<1>2. ~Scan
  BY <1>1 DEF Scan
<1> QED
  BY <1>2 DEF Custody, NoRetries, SchedulerPush, RetryElapses

LEMMA HourCustody ==
  ASSUME TypeOK, Custody, HourPasses
  PROVE  Custody'
<1>1. /\ phase = "run"
      /\ UNCHANGED <<tables, feeders, pending, req, job, sleeping, history>>
  BY DEF HourPasses
<1>2. SingleHolder' /\ Held' = Held
  BY <1>1, HandsFrame DEF Custody
<1>3. Books'
  BY <1>1, <1>2, BooksFrame DEF Custody
<1>4. Requests'
  BY <1>1, RequestsFrame DEF Custody
<1> QED
  BY <1>1, <1>2, <1>3, <1>4, RequestRest DEF Custody

LEMMA CrashCustody ==
  ASSUME TypeOK, Custody, Crash
  PROVE  Custody'
<1>1. /\ phase' = "down" /\ backlog' = {} /\ batch' = {} /\ pending' = <<>>
      /\ req' = [h \in Handlers |-> IdleReq]
      /\ job' = [w \in Workers |-> IdleJob]
      /\ sleeping' = [m \in Messages |-> 0]
      /\ UNCHANGED <<tables, accepted, repeated>>
      /\ cut' = [m \in Messages |->
                   IF m \in AtRecord THEN cut[m] + 1 ELSE cut[m]]
  <2>1. \A m \in Messages :
          (\E w \in Workers : JobAt(w, "record") /\ job[w].msg = m)
            <=> m \in AtRecord
    BY DEF AtRecord
  <2> QED
    BY <2>1 DEF Crash
<1>2. /\ InChannel' = {} /\ Asleep' = {} /\ AtWork' = {} /\ AtRequest' = {}
      /\ AtRecord' = {} /\ Held' = {}
  BY <1>1 DEF InChannel, Asleep, AtWork, AtRequest, AtRecord, Held, JobAt,
              IdleJob, IdleReq
<1>3. SingleHolder'
  BY <1>1, <1>2 DEF SingleHolder, OneKind, OneEach, IdleJob, IdleReq
<1>4. NoRetries' /\ Resting' /\ Requests'
  BY <1>1, <1>2 DEF Custody, NoRetries, Resting, Requests, IdleJob, IdleReq
<1>5. Books'
  <2>1. \A m \in Messages : m \in AtRecord => status[m] # "none"
    BY QueueAssumption
       DEF Custody, Books, Account, AtRecord, AtWork, Held
  <2>2. ASSUME NEW m \in Messages
        PROVE  Account(m)'
    <3>1. /\ cut'[m] = IF m \in AtRecord THEN cut[m] + 1 ELSE cut[m]
          /\ accepted[m] \in Nat /\ cut[m] \in Nat /\ repeated[m] \in Nat
      BY <1>1 DEF TypeOK, HistoryOK
    <3> QED
      BY <1>1, <1>2, <2>1, <3>1 DEF Custody, Books, Account, Unfinished
  <2> QED
    BY <1>1, <2>2 DEF Books, JobAt, IdleJob
<1> QED
  BY <1>3, <1>4, <1>5 DEF Custody

LEMMA NextCustody ==
  ASSUME Deployed, TypeOK, Custody, [Next]_vars
  PROVE  Custody'
<1>1. CASE UNCHANGED vars
  <2>1. SingleHolder' /\ Held' = Held
    BY <1>1, HandsFrame DEF Custody
  <2>2. Books'
    BY <1>1, <2>1, BooksFrame DEF Custody
  <2>3. Requests'
    BY <1>1, RequestsFrame DEF Custody
  <2>4. NoRetries' /\ Resting'
    BY <1>1 DEF Custody, NoRetries, Resting, Asleep
  <2> QED
    BY <2>1, <2>2, <2>3, <2>4 DEF Custody
<1>2. CASE Boot \/ StartWorkers
  BY <1>2, BootCustody, StartWorkersCustody
<1>3. ASSUME NEW m \in Messages,
             PushRecovered(m) \/ Wake(m) \/ SchedulerPush(m) \/ RetryElapses(m)
      PROVE  Custody'
  BY <1>3, PushCustody, WakeCustody, SchedulerRests
<1>4. ASSUME NEW h \in Handlers,
             \/ Handle(h)
             \/ \E kind \in ReqKind, todo \in SUBSET Messages :
                  Receive(h, kind, todo)
      PROVE  Custody'
  BY <1>4, ReceiveCustody, QuietRequestCustody, CreateRowCustody,
     EnqueueCustody DEF Handle
<1>5. ASSUME NEW w \in Workers, Take(w) \/ Work(w)
      PROVE  Custody'
  BY <1>5, TakeCustody, OverLimitCustody, QuietWorkerCustody, ClaimCustody,
     TransmitCustody, RecordCustody DEF Work
<1>6. CASE Scan \/ HourPasses \/ Crash
  BY <1>6, SchedulerRests, HourCustody, CrashCustody
<1> QED
  BY <1>1, <1>2, <1>3, <1>4, <1>5, <1>6 DEF Next

(***************************************************************************)
(* What follows.                                                           *)
(***************************************************************************)

\* Custody is an invariant of the deployed queue.
THEOREM CustodyKept == ASSUME Deployed PROVE Spec => []Custody
<1> QED
  BY TypeCorrect, InitCustody, NextCustody, PTL DEF Spec

\* No id is ever in two hands: not in the channel and with a worker, not with
\* two workers, not with a sleeper and in the channel, after a crash or not.
THEOREM OneHolder == ASSUME Deployed PROVE Spec => []SingleHolder
<1>1. Custody => SingleHolder
  BY DEF Custody
<1> QED
  BY <1>1, CustodyKept, PTL

\* An exchanger takes a message another has taken only in the same call of
\* Send, or after the outcome of a call was lost to a crash or a failed update.
THEOREM NoDuplicates == ASSUME Deployed PROVE Spec => []AtMostOnce
<1>1. Custody => AtMostOnce
  BY DEF Custody, Books, Account, AtMostOnce
<1> QED
  BY <1>1, CustodyKept, PTL

(***************************************************************************)
(* The events and the status.                                              *)
(***************************************************************************)

Final(m)   == events[m] \cap {"sent", "failed"}
Verdict(w) == IF job[w].err = "nil" THEN "sent" ELSE "failed"
Logging(m) == \E w \in Workers : JobAt(w, "log") /\ job[w].msg = m

\* Between the update of a row and the event only its worker knows.
Told ==
  /\ \A m \in Messages : Final(m) \subseteq {status[m]}
  /\ \A m \in Messages :
       Settled(m) /\ ~Logging(m) /\ crashes = 0 => Final(m) = {status[m]}
  /\ \A w \in Workers : JobAt(w, "log") => status[job[w].msg] = Verdict(w)

LEMMA InitTold == Init => Told
<1> SUFFICES ASSUME Init PROVE Told
  OBVIOUS
<1>1. /\ \A m \in Messages : events[m] = {} /\ ~Settled(m)
      /\ \A w \in Workers : job[w].pc = "idle"
  BY IdleRecords DEF Init, Settled
<1> QED
  BY <1>1 DEF Told, Final, JobAt

\* A step that writes neither a row nor an event, and after which the same
\* workers have one to write.
LEMMA ToldFrame ==
  ASSUME Told, status' = status, crashes' = crashes,
         \A m \in Messages : Final(m)' = Final(m),
         \A w \in Workers : \/ job'[w] = job[w]
                            \/ job[w].pc # "log" /\ job'[w].pc # "log"
  PROVE  Told'
<1>1. \A w \in Workers : job'[w].pc = "log" => job'[w] = job[w]
  OBVIOUS
<1>2. \A m \in Messages : Logging(m) => Logging(m)'
  BY DEF Logging, JobAt
<1>3. \A w \in Workers : JobAt(w, "log")' => JobAt(w, "log") /\ Verdict(w)' = Verdict(w)
  BY <1>1 DEF JobAt, Verdict
<1> QED
  BY <1>1, <1>2, <1>3 DEF Told, Settled, JobAt

LEMMA WorkerTold ==
  ASSUME TypeOK, Custody, Told, DBMayFail = FALSE,
         NEW w \in Workers, Take(w) \/ Work(w)
  PROVE  Told'
<1>1. /\ job[w] \in JobRecord
      /\ \A pc \in JobPc : /\ Goto(job[w], pc).pc = pc
                           /\ Goto(job[w], pc).msg = job[w].msg
                           /\ Goto(job[w], pc).err = job[w].err
      /\ IdleJob.pc = "idle"
  BY IdleRecords DEF TypeOK, JobOK, JobRecord, Goto
<1>2. ASSUME NEW new, JobStep(w, new), job[w].pc # "log", new.pc # "log",
             status' = status, crashes' = crashes,
             \A m \in Messages : Final(m)' = Final(m)
      PROVE  Told'
  BY <1>2, ToldFrame DEF TypeOK, JobOK, JobStep
<1>3. CASE Take(w)
  <2> DEFINE new == [IdleJob EXCEPT !.pc = "hour", !.msg = Head(pending)]
  <2>1. new.pc = "hour" /\ JobStep(w, new) /\ job[w].pc = "idle"
    BY <1>3 DEF Take, IdleJob, JobAt
  <2> HIDE DEF new
  <2> QED
    BY <1>2, <1>3, <2>1 DEF Take, Final
<1>4. CASE Load(w)
  <2> DEFINE new == [job[w] EXCEPT !.pc = "claim", !.tries = retries[job[w].msg]]
  <2>1. new.pc = "claim"
    BY <1>1 DEF JobRecord
  <2>2. (JobStep(w, IdleJob) \/ JobStep(w, new)) /\ job[w].pc = "load"
    BY <1>4 DEF Load, JobAt
  <2> HIDE DEF new
  <2> QED
    BY <1>1, <1>2, <1>4, <2>1, <2>2 DEF Load, Final
<1>5. CASE Transmit(w)
  <2>1. PICK o \in Outcomes :
          JobStep(w, [job[w] EXCEPT !.pc = "record", !.err = o.err])
    BY <1>5 DEF Transmit
  <2> DEFINE new == [job[w] EXCEPT !.pc = "record", !.err = o.err]
  <2>2. new.pc = "record" /\ JobStep(w, new) /\ job[w].pc = "send"
    BY <1>1, <1>5, <2>1 DEF JobRecord, Transmit, JobAt
  <2> HIDE DEF new
  <2> QED
    BY <1>2, <1>5, <2>2 DEF Transmit, Final
<1>6. CASE \/ HourCheck(w) \/ ResetCount(w) \/ ResetHour(w) \/ UnderLimit(w)
           \/ OverLimit(w) \/ Count(w) \/ Suppress(w)
  <2>1. PICK new : JobStep(w, new) /\ new.pc # "log"
    BY <1>1, <1>6 DEF HourCheck, ResetCount, ResetHour, UnderLimit, OverLimit,
                      Count, Suppress, JobPc
  <2>2. /\ job[w].pc # "log"
        /\ UNCHANGED <<status, crashes, events>>
    BY <1>6 DEF HourCheck, ResetCount, ResetHour, UnderLimit, OverLimit, Count,
                Suppress, JobAt
  <2> QED
    BY <1>2, <2>1, <2>2 DEF Final
<1>7. CASE LogBounce(w)
  <2>1. /\ events' = [events EXCEPT ![job[w].msg] = @ \cup {"bounced"}]
        /\ JobStep(w, IdleJob) /\ job[w].pc = "bounce"
        /\ UNCHANGED <<status, crashes>>
    BY <1>7 DEF LogBounce, AddEvent, WriteOK, JobAt
  <2>2. \A m \in Messages : Final(m)' = Final(m)
    BY <2>1 DEF TypeOK, TablesOK, Final
  <2> QED
    BY <1>1, <1>2, <2>1, <2>2
<1>8. CASE Claim(w)
  <2>1. /\ status' = [status EXCEPT ![job[w].msg] = "sending"]
        /\ JobStep(w, Goto(job[w], "send")) /\ job[w].pc = "claim"
        /\ UNCHANGED <<crashes, events>>
        /\ job[w].msg \in Messages /\ job[w].msg # NoMsg
        /\ Unfinished(job[w].msg)
    BY <1>8, QueueAssumption
       DEF Claim, WriteOK, JobAt, TypeOK, JobOK, Custody, Books
  <2>2. /\ job'[w].pc = "send"
        /\ \A v \in Workers : v # w => job'[v] = job[v]
    BY <1>1, <2>1 DEF TypeOK, JobOK, JobStep, JobPc
  <2>3. Final(job[w].msg) = {}
    BY <2>1 DEF Told, Final, Unfinished
  <2>4. \A v \in Workers : job'[v].pc = "log" =>
          job'[v] = job[v] /\ job[v].msg # job[w].msg
    BY <2>1, <2>2 DEF Custody, SingleHolder, OneEach, TypeOK, JobOK
  <2>5. \A m \in Messages : m # job[w].msg /\ Logging(m) => Logging(m)'
    BY <2>1, <2>2 DEF Logging, JobAt
  <2>6. \A m \in Messages : m # job[w].msg => status'[m] = status[m]
    BY <2>1 DEF TypeOK, TablesOK
  <2>7. status'[job[w].msg] = "sending"
    BY <2>1 DEF TypeOK, TablesOK
  <2>8. \A m \in Messages : Final(m)' \subseteq {status'[m]}
    BY <2>1, <2>3, <2>6 DEF Told, Final
  <2>9. \A m \in Messages :
          Settled(m)' /\ ~Logging(m)' /\ crashes' = 0 => Final(m)' = {status'[m]}
    BY <2>1, <2>5, <2>6, <2>7 DEF Told, Final, Settled
  <2>10. \A v \in Workers : JobAt(v, "log")' => status'[job'[v].msg] = Verdict(v)'
    <3>1. \A v \in Workers : JobAt(v, "log")' =>
            job'[v] = job[v] /\ job[v].msg \in Messages /\ JobAt(v, "log")
      BY <2>4 DEF JobAt, TypeOK, JobOK
    <3> QED
      BY <2>4, <2>6, <3>1 DEF Told, Verdict, JobAt
  <2> QED
    BY <2>8, <2>9, <2>10 DEF Told
<1>9. CASE RecordDone(w)
  <2>0. job[w].err # "temp"
    BY DEF Custody, NoRetries
  <2>1. /\ status' = [status EXCEPT ![job[w].msg] = Verdict(w)]
        /\ JobStep(w, Goto(job[w], "log")) /\ job[w].pc = "record"
        /\ UNCHANGED <<crashes, events>>
        /\ job[w].msg \in Messages /\ job[w].msg # NoMsg
        /\ Unfinished(job[w].msg)
    BY <1>9, <2>0, QueueAssumption
       DEF RecordDone, Deferred, JobAt, TypeOK, JobOK, Custody, Books, Verdict
  <2>2. /\ job'[w] = Goto(job[w], "log")
        /\ job'[w].pc = "log" /\ job'[w].msg = job[w].msg
        /\ job'[w].err = job[w].err
        /\ \A v \in Workers : v # w => job'[v] = job[v]
    BY <1>1, <2>1 DEF TypeOK, JobOK, JobStep, JobPc
  <2>3. Final(job[w].msg) = {}
    BY <2>1 DEF Told, Final, Unfinished
  <2>4. \A v \in Workers : v # w /\ job'[v].pc = "log" =>
          job'[v] = job[v] /\ job[v].msg # job[w].msg
    BY <2>1, <2>2 DEF Custody, SingleHolder, OneEach, TypeOK, JobOK
  <2>5. \A m \in Messages : Logging(m) => Logging(m)'
    BY <2>1, <2>2 DEF Logging, JobAt
  <2>6. \A m \in Messages : m # job[w].msg => status'[m] = status[m]
    BY <2>1 DEF TypeOK, TablesOK
  <2>7. /\ status'[job[w].msg] = Verdict(w) /\ Verdict(w)' = Verdict(w)
        /\ \A m \in Messages : m = job[w].msg => Logging(m)'
    BY <2>1, <2>2 DEF TypeOK, TablesOK, Verdict, Logging, JobAt
  <2>8. \A m \in Messages : Final(m)' \subseteq {status'[m]}
    BY <2>1, <2>3, <2>6 DEF Told, Final
  <2>9. \A m \in Messages :
          Settled(m)' /\ ~Logging(m)' /\ crashes' = 0 => Final(m)' = {status'[m]}
    BY <2>1, <2>5, <2>6, <2>7 DEF Told, Final, Settled
  <2>10. \A v \in Workers : JobAt(v, "log")' => status'[job'[v].msg] = Verdict(v)'
    <3>1. \A v \in Workers : v # w /\ JobAt(v, "log")' =>
            job'[v] = job[v] /\ job[v].msg \in Messages /\ JobAt(v, "log")
      BY <2>4 DEF JobAt, TypeOK, JobOK
    <3> QED
      BY <2>2, <2>4, <2>6, <2>7, <3>1 DEF Told, Verdict, JobAt
  <2> QED
    BY <2>8, <2>9, <2>10 DEF Told
<1>10. CASE LogEvent(w)
  <2>0. job[w].err # "temp" /\ job[w].pc = "log"
    BY <1>10 DEF Custody, NoRetries, LogEvent, JobAt
  <2>1. /\ events' = [events EXCEPT ![job[w].msg] = @ \cup {Verdict(w)}]
        /\ status[job[w].msg] = Verdict(w)
        /\ UNCHANGED <<crashes, status>>
        /\ job[w].msg \in Messages
        /\ \E new : JobStep(w, new) /\ new.pc # "log"
    <3>1. AddEvent(job[w].msg, Verdict(w))
      BY <1>10, <2>0 DEF LogEvent, Deferred, Verdict
    <3>2. \E new : JobStep(w, new) /\ new.pc # "log"
      BY <1>1, <1>10 DEF LogEvent, JobPc
    <3> QED
      BY <1>10, <2>0, <3>1, <3>2
         DEF LogEvent, AddEvent, WriteOK, JobAt, Told, TypeOK, JobOK
  <2>2. /\ job'[w].pc # "log"
        /\ \A v \in Workers : v # w => job'[v] = job[v]
    BY <2>1 DEF TypeOK, JobOK, JobStep
  <2>3. /\ Final(job[w].msg) \subseteq {Verdict(w)}
        /\ Verdict(w) \in {"sent", "failed"}
    BY <2>1 DEF Told, Verdict
  <2>4. /\ events'[job[w].msg] = events[job[w].msg] \cup {Verdict(w)}
        /\ \A m \in Messages : m # job[w].msg => events'[m] = events[m]
    BY <2>1 DEF TypeOK, TablesOK
  <2>5. \A m \in Messages : m = job[w].msg =>
          events'[m] \cap {"sent", "failed"} = {status[m]}
    BY <2>1, <2>3, <2>4 DEF Final
  <2>6. \A m \in Messages : m # job[w].msg /\ Logging(m) => Logging(m)'
    BY <2>2 DEF Logging, JobAt
  <2>7. \A m \in Messages : Final(m)' \subseteq {status'[m]}
    BY <2>1, <2>4, <2>5 DEF Told, Final
  <2>8. \A m \in Messages :
          Settled(m)' /\ ~Logging(m)' /\ crashes' = 0 => Final(m)' = {status'[m]}
    BY <2>1, <2>4, <2>5, <2>6 DEF Told, Final, Settled
  <2>9. \A v \in Workers : JobAt(v, "log")' => status'[job'[v].msg] = Verdict(v)'
    BY <2>1, <2>2 DEF Told, Verdict, JobAt
  <2> QED
    BY <2>7, <2>8, <2>9 DEF Told
<1> QED
  BY <1>3, <1>4, <1>5, <1>6, <1>7, <1>8, <1>9, <1>10 DEF Work, RecordFails

LEMMA NextTold ==
  TypeOK /\ Custody /\ Told /\ DBMayFail = FALSE /\ [Next]_vars => Told'
<1> SUFFICES ASSUME TypeOK, Custody, Told, DBMayFail = FALSE, [Next]_vars
             PROVE  Told'
  OBVIOUS
<1>1. ASSUME UNCHANGED <<status, events, crashes, job>> PROVE Told'
  BY <1>1, ToldFrame DEF Final
<1>2. ASSUME NEW h \in Handlers,
             \/ Handle(h)
             \/ \E kind \in ReqKind, todo \in SUBSET Messages :
                  Receive(h, kind, todo)
      PROVE  Told'
  <2>1. CASE CreateRow(h)
    <3>1. PICK x \in req[h].todo : status' = [status EXCEPT ![x] = "queued"]
      BY <2>1 DEF CreateRow
    <3>2. UNCHANGED <<events, crashes, job>> /\ x \in Messages
      BY <2>1 DEF CreateRow, TypeOK, ReqOK, ReqRecord
    <3>3. status[x] = "none"
      <4>1. req[h].msg = NoMsg
        BY <2>1 DEF CreateRow, Custody, Requests
      <4> QED
        BY <3>2, <4>1, QueueAssumption DEF Custody, Requests
    <3>4. \A m \in Messages : m # x => status'[m] = status[m]
      BY <3>1 DEF TypeOK, TablesOK
    <3>5. Final(x) = {} /\ status'[x] = "queued"
      BY <3>1, <3>2, <3>3 DEF Told, Final, TypeOK, TablesOK
    <3>6. \A w \in Workers : JobAt(w, "log") =>
            job[w].msg \in Messages /\ job[w].msg # x
      BY <3>3 DEF Told, JobAt, Verdict, TypeOK, JobOK
    <3> QED
      BY <3>2, <3>4, <3>5, <3>6
         DEF Told, Final, Settled, Logging, JobAt, Verdict
  <2>2. CASE AddQueuedEvent(h)
    <3>1. /\ events' = [events EXCEPT ![req[h].msg] = @ \cup {"queued"}]
          /\ UNCHANGED <<status, crashes, job>>
      BY <2>2 DEF AddQueuedEvent, AddEvent, WriteOK
    <3>2. \A m \in Messages : Final(m)' = Final(m)
      BY <3>1 DEF TypeOK, TablesOK, Final
    <3> QED
      BY <3>1, <3>2, ToldFrame
  <2> QED
    BY <1>1, <1>2, <2>1, <2>2
       DEF Handle, Receive, CheckSuppression, CreateFails, Enqueue
<1>3. CASE Crash
  <2>1. /\ UNCHANGED <<status, events>> /\ crashes' = crashes + 1
        /\ \A w \in Workers : job'[w].pc # "log"
    BY <1>3, IdleRecords DEF Crash
  <2>2. crashes' # 0
    BY <2>1 DEF TypeOK, HistoryOK
  <2> QED
    BY <2>1, <2>2 DEF Told, Final, JobAt
<1>4. CASE \/ Boot \/ StartWorkers \/ Scan \/ HourPasses \/ UNCHANGED vars
           \/ \E m \in Messages : \/ PushRecovered(m) \/ Wake(m)
                                  \/ SchedulerPush(m) \/ RetryElapses(m)
  BY <1>1, <1>4 DEF Boot, StartWorkers, Scan, HourPasses, PushRecovered, Wake,
                    SchedulerPush, RetryElapses
<1> QED
  BY <1>2, <1>3, <1>4, WorkerTold DEF Next

\* With the outcomes Send really has and writes that do not fail, the events
\* of a message never contradict its status, and the one that settled it is
\* missing only while a worker writes it, or after a crash before that.
THEOREM EventsAgree ==
  ASSUME Deployed, DBMayFail = FALSE PROVE Spec => []HistoryAgrees
<1>1. Told => HistoryAgrees
  <2>1. \A m \in Messages :
          ~(\E w \in Workers : job[w].msg = m) => ~Logging(m)
    BY DEF Logging
  <2> QED
    BY <2>1 DEF Told, Final, HistoryAgrees
<1> QED
  BY <1>1, TypeCorrect, CustodyKept, InitTold, NextTold, PTL DEF Spec

-----------------------------------------------------------------------------
(***************************************************************************)
(* The queue keeps the ledger: with the outcomes Send really has, every    *)
(* step of DeliveryQueue is a step of MessageLedger or changes nothing of  *)
(* it, and a row that is settled stays as it is.  Both rest on Custody: a  *)
(* worker that writes about a row has it alone, and the row is owed.       *)
(***************************************************************************)

ledgerState == [m \in Messages |-> LedgerState(m)]

\* What the ledger shows of a step that writes none of its three columns.
LEMMA LedgerQuiet ==
  ASSUME UNCHANGED <<status, accepted, repeated, cut>>
  PROVE  UNCHANGED Ledger!ledger
BY DEF Ledger!ledger, LedgerState, Unfinished

LEMMA InitRefines == Init => Ledger!Init
<1> SUFFICES ASSUME Init PROVE Ledger!Init
  OBVIOUS
<1>1. ledgerState \in [Messages -> {"absent", "owed"}]
  BY DEF Init, ledgerState, LedgerState, Unfinished
<1> QED
  BY <1>1 DEF Init, Ledger!Init, ledgerState

\* The row a request inserts is owed from then on.
LEMMA CreateRowRefines ==
  ASSUME TypeOK, Custody, NEW h \in Handlers, CreateRow(h)
  PROVE  /\ Ledger!Next
         /\ \A m \in Messages : Settled(m) => status'[m] = status[m]
<1>1. PICK m \in req[h].todo : status' = [status EXCEPT ![m] = "queued"]
  BY DEF CreateRow
<1>2. /\ req[h].pc = "create" /\ m \in Messages
      /\ UNCHANGED <<accepted, repeated, cut>>
  BY <1>1 DEF CreateRow, TypeOK, ReqOK, ReqRecord
<1>3. status[m] = "none"
  BY <1>1, <1>2, QueueAssumption DEF Custody, Requests
<1>4. \A n \in Messages : status'[n] = IF n = m THEN "queued" ELSE status[n]
  BY <1>1 DEF TypeOK, TablesOK
<1>5. ledgerState[m] = "absent"
  BY <1>2, <1>3 DEF ledgerState, LedgerState, Unfinished
<1>6. ledgerState' = [ledgerState EXCEPT ![m] = "owed"]
  BY <1>2, <1>4 DEF ledgerState, LedgerState, Unfinished
<1>7. Ledger!Accept(m)
  BY <1>2, <1>5, <1>6 DEF Ledger!Accept, ledgerState
<1> QED
  BY <1>2, <1>3, <1>4, <1>7 DEF Ledger!Next, Settled

\* A claim is not seen: the row was owed and still is.
LEMMA ClaimRefines ==
  ASSUME TypeOK, Custody, NEW w \in Workers, Claim(w)
  PROVE  /\ UNCHANGED Ledger!ledger
         /\ \A m \in Messages : Settled(m) => status'[m] = status[m]
<1>0. PICK m : m = job[w].msg
  OBVIOUS
<1>1. /\ status' = [status EXCEPT ![m] = "sending"] \/ status' = status
      /\ UNCHANGED <<accepted, repeated, cut>>
      /\ job[w].pc = "claim"
  BY <1>0 DEF Claim, JobAt
<1>2. m \in Messages /\ Unfinished(m)
  BY <1>0, <1>1, RowInHand
<1>3. /\ \A n \in Messages \ {m} : status'[n] = status[n]
      /\ status'[m] \in {"queued", "sending"}
  BY <1>1, <1>2 DEF TypeOK, TablesOK, Unfinished
<1>4. ledgerState' = ledgerState
  BY <1>2, <1>3 DEF ledgerState, LedgerState, Unfinished
<1> QED
  BY <1>1, <1>2, <1>3, <1>4 DEF Ledger!ledger, ledgerState, Settled, Unfinished

\* A transmission is one of the ledger when an exchanger took the message, and
\* unseen otherwise.
LEMMA TransmitRefines ==
  ASSUME TypeOK, Custody, NEW w \in Workers, Transmit(w)
  PROVE  [Ledger!Next]_(Ledger!ledger)
<1>0. PICK m : m = job[w].msg
  OBVIOUS
<1>1. PICK o \in Outcomes :
        /\ accepted' = [accepted EXCEPT ![m] = @ + o.takers]
        /\ repeated' = [repeated EXCEPT ![m] =
                          IF o.takers > 1 THEN @ + (o.takers - 1) ELSE @]
  BY <1>0 DEF Transmit
<1> DEFINE n == o.takers
<1>2. job[w].pc = "send" /\ UNCHANGED <<status, cut>>
  BY DEF Transmit, JobAt
<1>3. /\ m \in Messages /\ Unfinished(m)
      /\ accepted[m] <= cut[m] + repeated[m]
  BY <1>0, <1>2, RowInHand
<1>4. ledgerState' = ledgerState /\ ledgerState[m] = "owed"
  BY <1>2, <1>3 DEF ledgerState, LedgerState, Unfinished
<1>5. n \in Nat /\ n <= Exchangers
  BY QueueAssumption, ExchangersAssumption DEF Outcome
<1>6. accepted[m] \in Nat /\ repeated[m] \in Nat
  BY <1>3 DEF TypeOK, HistoryOK
<1> HIDE DEF n
<1>7. CASE n > 0
  <2>1. n \in 1 .. Exchangers
    BY <1>5, <1>7, ExchangersAssumption
  <2>2. accepted' = [accepted EXCEPT ![m] = @ + n]
    BY <1>1 DEF n
  <2>3. repeated' = [repeated EXCEPT ![m] = @ + (n - 1)]
    <3>1. (IF n > 1 THEN repeated[m] + (n - 1) ELSE repeated[m])
            = repeated[m] + (n - 1)
      BY <1>5, <1>6, <1>7
    <3>2. repeated' = [repeated EXCEPT ![m] =
                         IF n > 1 THEN @ + (n - 1) ELSE @]
      BY <1>1 DEF n
    <3> QED
      BY <3>1, <3>2
  <2>4. \E k \in 1 .. Exchangers :
          /\ accepted' = [accepted EXCEPT ![m] = @ + k]
          /\ repeated' = [repeated EXCEPT ![m] = @ + (k - 1)]
    BY <2>1, <2>2, <2>3
  <2>5. Ledger!Transmit(m)
    BY <1>2, <1>3, <1>4, <2>4 DEF Ledger!Transmit, ledgerState
  <2> QED
    BY <1>3, <2>5 DEF Ledger!Next
<1>8. CASE n = 0
  <2>1. accepted' = accepted /\ repeated' = repeated
    BY <1>1, <1>3, <1>6, <1>8 DEF TypeOK, HistoryOK, n
  <2> QED
    BY <1>2, <2>1, LedgerQuiet
<1> QED
  BY <1>5, <1>7, <1>8

\* The update of the row settles it.
LEMMA RecordDoneRefines ==
  ASSUME TypeOK, Custody, NEW w \in Workers, RecordDone(w)
  PROVE  /\ Ledger!Next
         /\ \A m \in Messages : Settled(m) => status'[m] = status[m]
<1>0. PICK m : m = job[w].msg
  OBVIOUS
<1>1. /\ job[w].pc = "record" /\ job[w].err # "temp"
      /\ UNCHANGED <<accepted, repeated, cut>>
      /\ status' = [status EXCEPT ![m] =
                      IF job[w].err = "nil" THEN "sent" ELSE "failed"]
  BY <1>0 DEF RecordDone, JobAt, Deferred, Custody, NoRetries
<1>2. m \in Messages /\ Unfinished(m)
  BY <1>0, <1>1, RowInHand
<1>3. job[w].err = "nil" => accepted[m] > 0
  BY <1>0, <1>1 DEF Custody, Books, JobAt
<1>4. \A n \in Messages :
        status'[n] = IF n # m THEN status[n]
                     ELSE IF job[w].err = "nil" THEN "sent" ELSE "failed"
  BY <1>1 DEF TypeOK, TablesOK
<1>5. ledgerState[m] = "owed"
  BY <1>2 DEF ledgerState, LedgerState, Unfinished
<1>6. ledgerState' = [ledgerState EXCEPT ![m] =
                        IF job[w].err = "nil" THEN "sent" ELSE "failed"]
  BY <1>2, <1>4 DEF ledgerState, LedgerState, Unfinished
<1>7. Ledger!Settle(m)
  BY <1>1, <1>2, <1>3, <1>5, <1>6 DEF Ledger!Settle, ledgerState
<1> QED
  BY <1>2, <1>4, <1>7 DEF Ledger!Next, Settled, Unfinished

LEMMA RecordFailsRefines ==
  ASSUME TypeOK, Custody, NEW w \in Workers, RecordFails(w)
  PROVE  Ledger!Next
<1>0. PICK m : m = job[w].msg
  OBVIOUS
<1>1. /\ job[w].pc = "record"
      /\ UNCHANGED <<status, accepted, repeated>>
      /\ cut' = [cut EXCEPT ![m] = @ + 1]
  BY <1>0 DEF RecordFails, JobAt
<1>2. m \in Messages /\ Unfinished(m)
  BY <1>0, <1>1, RowInHand
<1>3. ledgerState' = ledgerState /\ ledgerState[m] = "owed"
  BY <1>1, <1>2 DEF ledgerState, LedgerState, Unfinished
<1>4. cut' = [n \in Messages |-> IF n \in {m} THEN cut[n] + 1 ELSE cut[n]]
  BY <1>1 DEF TypeOK, HistoryOK
<1>5. Ledger!Forget({m})
  BY <1>1, <1>2, <1>3, <1>4 DEF Ledger!Forget, ledgerState
<1> QED
  BY <1>2, <1>5 DEF Ledger!Next

\* A crash forgets what the workers had not recorded.
LEMMA CrashRefines ==
  ASSUME TypeOK, Custody, Crash
  PROVE  Ledger!Next
<1>1. UNCHANGED <<status, accepted, repeated>>
  BY DEF Crash
<1>2. AtRecord \subseteq Messages /\ \A m \in AtRecord : Unfinished(m)
  BY RowInHand DEF AtRecord, JobAt
<1>3. cut' = [m \in Messages |-> IF m \in AtRecord THEN cut[m] + 1 ELSE cut[m]]
  <2>1. \A m \in Messages :
          (\E w \in Workers : JobAt(w, "record") /\ job[w].msg = m)
            <=> m \in AtRecord
    BY DEF AtRecord
  <2> QED
    BY <2>1 DEF Crash
<1>4. ledgerState' = ledgerState /\ \A m \in AtRecord : ledgerState[m] = "owed"
  BY <1>1, <1>2 DEF ledgerState, LedgerState, Unfinished
<1>5. Ledger!Forget(AtRecord)
  BY <1>1, <1>3, <1>4 DEF Ledger!Forget, ledgerState
<1> QED
  BY <1>2, <1>5 DEF Ledger!Next

LEMMA NextRefines ==
  ASSUME TypeOK, Custody, [Next]_vars
  PROVE  /\ [Ledger!Next]_(Ledger!ledger)
         /\ \A m \in Messages : Settled(m) => status'[m] = status[m]
<1>0. UNCHANGED <<status, accepted, repeated, cut>> =>
        /\ [Ledger!Next]_(Ledger!ledger)
        /\ \A m \in Messages : Settled(m) => status'[m] = status[m]
  BY LedgerQuiet
<1>1. CASE UNCHANGED vars
  BY <1>0, <1>1
<1>2. CASE Boot \/ StartWorkers \/ Scan \/ HourPasses
  BY <1>0, <1>2 DEF Boot, StartWorkers, Scan, HourPasses
<1>3. ASSUME NEW m \in Messages,
             PushRecovered(m) \/ Wake(m) \/ SchedulerPush(m) \/ RetryElapses(m)
      PROVE  UNCHANGED <<status, accepted, repeated, cut>>
  BY <1>3 DEF PushRecovered, Wake, SchedulerPush, RetryElapses
<1>4. ASSUME NEW h \in Handlers,
             \/ CheckSuppression(h) \/ CreateFails(h) \/ AddQueuedEvent(h)
             \/ Enqueue(h)
             \/ \E kind \in ReqKind, todo \in SUBSET Messages :
                  Receive(h, kind, todo)
      PROVE  UNCHANGED <<status, accepted, repeated, cut>>
  BY <1>4 DEF CheckSuppression, CreateFails, AddQueuedEvent, Enqueue, Receive
<1>5. ASSUME NEW w \in Workers,
             \/ Take(w) \/ HourCheck(w) \/ ResetCount(w) \/ ResetHour(w)
             \/ UnderLimit(w) \/ OverLimit(w) \/ Load(w) \/ LogEvent(w)
             \/ Count(w) \/ Suppress(w) \/ LogBounce(w)
      PROVE  UNCHANGED <<status, accepted, repeated, cut>>
  BY <1>5 DEF Take, HourCheck, ResetCount, ResetHour, UnderLimit, OverLimit,
              Load, LogEvent, Count, Suppress, LogBounce
<1>6. ASSUME NEW h \in Handlers, CreateRow(h)
      PROVE  /\ [Ledger!Next]_(Ledger!ledger)
             /\ \A m \in Messages : Settled(m) => status'[m] = status[m]
  BY <1>6, CreateRowRefines
<1>7. ASSUME NEW w \in Workers,
             Claim(w) \/ Transmit(w) \/ RecordDone(w) \/ RecordFails(w)
      PROVE  /\ [Ledger!Next]_(Ledger!ledger)
             /\ \A m \in Messages : Settled(m) => status'[m] = status[m]
  <2>1. Transmit(w) \/ RecordFails(w) => UNCHANGED status
    BY DEF Transmit, RecordFails
  <2> QED
    BY <1>7, <2>1, ClaimRefines, TransmitRefines, RecordDoneRefines,
       RecordFailsRefines
<1>8. CASE Crash
  <2>1. UNCHANGED status
    BY <1>8 DEF Crash
  <2> QED
    BY <1>8, <2>1, CrashRefines
<1> QED
  BY <1>0, <1>1, <1>2, <1>3, <1>4, <1>5, <1>6, <1>7, <1>8
     DEF Next, Handle, Work

\* The deployed queue implements the ledger: whatever workers, handlers,
\* sleepers and crashes do to each other, a message is delivered while it is
\* owed, again only when an outcome was lost, and settled once.
THEOREM QueueImplementsLedger == ASSUME Deployed PROVE Spec => ImplementsLedger
<1> QED
  BY TypeCorrect, CustodyKept, InitRefines, NextRefines, PTL
     DEF Spec, ImplementsLedger, Ledger!Spec

\* No step of the deployed queue changes the status of a settled row.
THEOREM SettledStays == ASSUME Deployed PROVE Spec => SettledForGood
<1>1. ASSUME TypeOK, Custody, [Next]_vars
      PROVE  [\A m \in Messages : Settled(m) => status'[m] = status[m]]_vars
  BY <1>1, NextRefines
<1> QED
  BY <1>1, TypeCorrect, CustodyKept, PTL DEF Spec, SettledForGood
=============================================================================
