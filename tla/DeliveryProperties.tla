------------------------- MODULE DeliveryProperties -------------------------
(***************************************************************************)
(* What must be true of the e-mail pipeline of module DeliveryQueue, the   *)
(* scheduling it may count on, and the promise it implements.              *)
(***************************************************************************)
EXTENDS DeliveryQueue

ReqPc == {"idle", "check", "create", "event", "enqueue"}
JobPc == {"idle", "hour", "reset", "stamp", "limit", "load", "claim", "send",
          "record", "log", "count", "suppress", "bounce"}

ReqRecord == [pc : ReqPc, kind : ReqKind, todo : SUBSET Messages,
              msg : Messages \cup {NoMsg}]
JobRecord == [pc : JobPc, msg : Messages \cup {NoMsg}, tries : Nat,
              err : ErrKind]

TablesOK ==
  /\ status \in [Messages -> Status]
  /\ retries \in [Messages -> 0 .. MaxRetries]
  /\ retryAt \in [Messages -> {"null", "later", "due"}]
  /\ events \in [Messages -> SUBSET EventType]
  /\ suppressed \subseteq Dests

QueueOK ==
  /\ phase \in {"down", "recover", "run"}
  /\ backlog \subseteq Messages
  /\ batch \subseteq Messages
  /\ pending \in Seq(Messages)
  /\ Len(pending) <= Capacity
  /\ sleeping \in [Messages -> Nat]
  /\ sentCount \in Nat
  /\ hourOver \in BOOLEAN

\* A request holds a message from the insert of its row on.
ReqOK ==
  /\ req \in [Handlers -> ReqRecord]
  /\ \A h \in Handlers :
       req[h].pc \in {"event", "enqueue"} => req[h].msg \in Messages

\* A worker holds a message from the receive to the end of process().
JobOK ==
  /\ job \in [Workers -> JobRecord]
  /\ \A w \in Workers : job[w].pc # "idle" => job[w].msg \in Messages

HistoryOK ==
  /\ accepted \in [Messages -> Nat]
  /\ repeated \in [Messages -> Nat]
  /\ cut \in [Messages -> Nat]
  /\ crashes \in Nat
  /\ sentThisHour \in Nat

\* Every variable has its type, the channel is within its capacity, and the
\* retry count never passes the limit of process().
TypeOK == TablesOK /\ QueueOK /\ ReqOK /\ JobOK /\ HistoryOK

-----------------------------------------------------------------------------
\* Who has ids in hand, besides batch (the scheduler) and backlog (Start).

InChannel == { pending[i] : i \in DOMAIN pending }
Asleep    == { m \in Messages : sleeping[m] > 0 }
AtWork    == { job[w].msg : w \in Workers } \ {NoMsg}
AtRequest == { req[h].msg : h \in Handlers } \ {NoMsg}
Held      == InChannel \cup Asleep \cup AtWork \cup AtRequest
             \cup batch \cup backlog

\* f[x].msg is the message of x for every goroutine x of a kind.
OneEach(f) ==
  \A x, y \in DOMAIN f : f[x].msg = f[y].msg /\ f[x].msg # NoMsg => x = y

OneKind ==
  /\ InChannel \cap (Asleep \cup AtWork \cup AtRequest) = {}
  /\ Asleep \cap (AtWork \cup AtRequest) = {}
  /\ AtWork \cap AtRequest = {}
  /\ backlog \cap (InChannel \cup Asleep \cup AtWork \cup AtRequest) = {}
  /\ batch \cap (InChannel \cup Asleep \cup AtWork \cup AtRequest) = {}

\* As long as Send never asks for a retry, no id is twice in the hands of
\* the same kind of goroutine, or in the hands of two kinds: the
\* unconditional claim in process() is safe only because of it.
SingleHolder ==
  /\ \A i, j \in DOMAIN pending : pending[i] = pending[j] => i = j
  /\ \A m \in Messages : sleeping[m] <= 1
  /\ OneEach(job)
  /\ OneEach(req)
  /\ OneKind

\* While the process runs, a row that is not settled is in somebody's hands
\* or a scheduler scan will find it.  No path of a handler, a worker, a
\* sleeper or the recovery forgets an id.
NoMessageLost ==
  phase = "run" =>
    \A m \in Messages :
      Unfinished(m) => \/ m \in Held
                       \/ status[m] = "queued" /\ retryAt[m] # "null"

\* An exchanger takes a message that another has taken only in the same call of
\* Send, after the first one failed in its last replies, or in a later call,
\* after a crash or a write that failed between a transmission and the update
\* that records it.
AtMostOnce == \A m \in Messages : accepted[m] <= 1 + cut[m] + repeated[m]

\* A row that was sent or failed never changes its status again, although
\* three updates of process() write it without looking.
SettledForGood ==
  [][ \A m \in Messages : Settled(m) => status'[m] = status[m] ]_vars

\* The events a client reads agree with the status: the one that settled the
\* message is there, no other is, and only a crash can have lost it.
HistoryAgrees ==
  \A m \in Messages :
    LET final == events[m] \cap {"sent", "failed"}
        busy  == \E w \in Workers : job[w].msg = m
    IN  /\ final \subseteq {status[m]}
        /\ Settled(m) /\ ~busy /\ crashes = 0 => final = {status[m]}

\* The warm-up limit is tested by process() before a message is sent and
\* counted after it: the overshoot is less than the number of workers, also
\* when workers reset the count under each other.
PastGate == { w \in Workers : job[w].pc \in {"load", "claim", "send", "record",
                                             "log", "count"} }
CounterOvershoot ==
  sentCount + Cardinality(PastGate) <= MaxPerHour - 1 + Cardinality(Workers)

\* However the resets race, an hour sees no more messages than the limit, one
\* more than it, and so on, once for each worker: a worker that found the last
\* hour over wipes the count once, and while it has not the others alone send.
\* An hour begins when the process starts, and with the first reset after the
\* last hour is over.
HourlyBounded ==
  LET W == Cardinality(Workers)
  IN  2 * sentThisHour <= W * (2 * MaxPerHour + W - 1)

\* Start pushes the rows it found before a worker takes any, and waits for
\* room only if they are more than the channel holds: nobody else pushes or
\* has pushed before it, and no row is recovered twice.
StartWaitsOnlyOnOverflow ==
  phase = "recover" /\ backlog # {} /\ ~HasRoom
    => Cardinality(Recoverable) > Capacity

\* A bounce event is written for a message that failed, and when it is there
\* the next SendEmail to that recipient is refused; nothing else suppresses
\* a recipient.
BounceTrail ==
  /\ \A m \in Messages : "bounced" \in events[m] =>
       /\ DestOf[m] \in suppressed
       /\ "failed" \in events[m]
  /\ \A d \in suppressed :
       \E m \in Messages : DestOf[m] = d /\ "failed" \in events[m]

-----------------------------------------------------------------------------
(***************************************************************************)
(* Scheduling.  Go runs every goroutine that can run.  A goroutine blocked *)
(* on a full channel is served in turn, hence strong fairness of the       *)
(* sends; the database and, an assumption about the peer since sendToMX    *)
(* sets no deadline, the exchanger answer in the end; time passes.         *)
(***************************************************************************)
Fairness ==
  /\ WF_vars(Boot) /\ WF_vars(StartWorkers)
  /\ WF_vars(Scan) /\ WF_vars(HourPasses)
  /\ \A m \in Messages : /\ WF_vars(RetryElapses(m))
                         /\ SF_vars(PushRecovered(m))
                         /\ SF_vars(Wake(m))
                         /\ SF_vars(SchedulerPush(m))
  /\ \A h \in Handlers : SF_vars(Handle(h))
  /\ \A w \in Workers : WF_vars(Take(w)) /\ WF_vars(Work(w))

FairSpec == Spec /\ Fairness

\* Every message stored is sent or failed in the end, whatever the warm-up
\* limit, the crashes and the fullness of the channel do on the way.
EventuallySettled ==
  \A m \in Messages : Unfinished(m) ~> Settled(m)

-----------------------------------------------------------------------------
\* The promise to the clients: module MessageLedger.

LedgerState(m) == CASE status[m] = "none" -> "absent"
                    [] Unfinished(m)      -> "owed"
                    [] OTHER              -> status[m]

Ledger == INSTANCE MessageLedger WITH
            state     <- [m \in Messages |-> LedgerState(m)],
            delivered <- accepted,
            forgotten <- cut

\* Every step of the queue is a step of the ledger, or none that it shows.
ImplementsLedger == Ledger!Spec

-----------------------------------------------------------------------------
(***************************************************************************)
(* Why the ledger is kept when Outcomes is DeployedOutcomes: an inductive  *)
(* strengthening of SingleHolder and AtMostOnce.                           *)
(***************************************************************************)

\* Nothing is deferred, so the scheduler finds nothing.
NoRetries ==
  /\ batch = {}
  /\ \A m \in Messages : retryAt[m] = "null"
  /\ \A w \in Workers : job[w].err # "temp"

\* Outside their phase the parts of the process rest.
Resting ==
  /\ phase # "recover" => backlog = {}
  /\ phase = "down" => pending = <<>>
  /\ phase # "run" =>
       /\ Asleep = {}
       /\ \A w \in Workers : job[w] = IdleJob
       /\ \A h \in Handlers : req[h] = IdleReq
  /\ \A w \in Workers : job[w].pc = "idle" => job[w].msg = NoMsg

\* A message belongs to one request, which has not stored the others yet.
Requests ==
  /\ \A h \in Handlers :
       /\ req[h].pc \notin {"event", "enqueue"} => req[h].msg = NoMsg
       /\ req[h].msg # NoMsg => req[h].msg \in req[h].todo
       /\ \A m \in req[h].todo \ {req[h].msg} : status[m] = "none"
  /\ \A g, h \in Handlers : g # h => req[g].todo \cap req[h].todo = {}

AtRecord == { job[w].msg : w \in { w \in Workers : JobAt(w, "record") } }

\* A row was taken no more often than the worker that holds its outcome, the
\* outcomes that were lost and the repeats within a call account for.
Account(m) ==
  /\ status[m] = "none" => /\ m \notin Held
                         /\ accepted[m] = 0 /\ cut[m] = 0 /\ repeated[m] = 0
  /\ Unfinished(m) /\ m \notin AtRecord => accepted[m] <= cut[m] + repeated[m]
  /\ accepted[m] <= 1 + cut[m] + repeated[m]

Books ==
  /\ \A m \in Messages : Account(m)
  /\ \A w \in Workers :
       /\ job[w].pc \in {"claim", "send", "record"} => Unfinished(job[w].msg)
       /\ JobAt(w, "record") /\ job[w].err = "nil" => accepted[job[w].msg] > 0

Custody == SingleHolder /\ NoRetries /\ Resting /\ Requests /\ Books

=============================================================================
