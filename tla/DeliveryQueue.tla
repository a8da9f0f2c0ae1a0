--------------------------- MODULE DeliveryQueue ----------------------------
(***************************************************************************)
(* The e-mail pipeline of delivery-api: the request handlers that store a  *)
(* message and enqueue it (internal/handlers/send.go and the DATA command  *)
(* of internal/smtp/relay.go), the in-process queue with its workers, its  *)
(* retry scheduler and its start-up recovery (internal/queue/worker.go),   *)
(* and the database tables they share.                                     *)
(*                                                                         *)
(* A goroutine is a record with a program counter; one action is one       *)
(* access to shared state (a query, an update, a channel operation, a read *)
(* or write of the rate counter), so that every interleaving of handlers,  *)
(* workers, scheduler and sleepers is explored.  A crash wipes everything  *)
(* but the tables.                                                         *)
(***************************************************************************)
EXTENDS Naturals, Sequences, FiniteSets, SendOutcomes

CONSTANTS
  Messages,    \* rows the messages table may come to hold
  NoMsg,       \* "no message", in a goroutine that works on none
  Dests,       \* pairs of a user and a recipient address
  DestOf,      \* the pair a message is from and for
  Handlers,    \* request goroutines
  Workers,     \* worker goroutines: Start(5) in main.go
  Capacity,    \* size of the pending channel: 10000 in New
  MaxPerHour,  \* Config.WarmupMaxPerHour
  MaxRetries,  \* deferrals before a message fails: the 3 in process()
  ScanLimit,   \* rows one scheduler scan takes: Limit(100)
  Outcomes,    \* what Sender.Send may answer
  Backlog,     \* rows an earlier process left queued
  DBMayFail,   \* whether a query may return an error
  MaxCrashes,  \* bound: crashes of the process in one behaviour
  MaxCopies,   \* bound: copies of one id the scheduler may put in flight
  MaxAccepts   \* bound: how often exchangers take one message

ASSUME QueueAssumption ==
  /\ NoMsg \notin Messages
  /\ IsFiniteSet(Workers)
  /\ Capacity \in Nat \ {0}
  /\ MaxPerHour \in Nat \ {0}   \* config.Load never returns less than 1
  /\ MaxRetries \in Nat
  /\ ScanLimit \in Nat \ {0}
  /\ Outcomes \subseteq Outcome
  /\ Backlog \subseteq Messages
  /\ DBMayFail \in BOOLEAN
  /\ MaxCrashes \in Nat
  /\ DestOf \in [Messages -> Dests]
  /\ MaxCopies \in Nat \ {0}
  /\ MaxAccepts \in Nat \ {0}

VARIABLES
  \* the tables
  status,      \* messages.status, "none" where there is no row yet
  retries,     \* messages.retries
  retryAt,     \* messages.next_retry_at: NULL, in the future, or due
  events,      \* the event types message_events holds for a row
  suppressed,  \* the (user_id, email) pairs of the suppressions table
  \* the process
  phase,       \* "down", "recover" (inside Start), "run"
  backlog,     \* ids Start has read and not yet pushed
  pending,     \* the channel Queue.pending
  req,         \* the request goroutines
  job,         \* the worker goroutines
  sleeping,    \* how many goroutines sleep a minute holding each id
  batch,       \* ids the scheduler has read and not yet pushed
  sentCount,   \* Queue.sentCount
  hourOver,    \* time.Since(q.lastReset) > time.Hour
  \* history
  accepted,    \* how often an exchanger took the message
  repeated,    \* how often one did that was not the first of its call of Send
  cut,         \* how often the outcome of a transmission went unrecorded
  crashes,     \* crashes so far
  sentThisHour \* messages sent since the hour began, until it was over

columns == <<status, retries, retryAt>>
tables  == <<columns, events, suppressed>>
feeders == <<phase, backlog, batch>>
rate    == <<sentCount, hourOver>>
process == <<feeders, pending, req, job, sleeping, rate>>
history == <<accepted, repeated, cut, crashes, sentThisHour>>
vars    == <<tables, process, history>>

-----------------------------------------------------------------------------

Status    == {"none", "queued", "sending", "sent", "failed"}
EventType == {"queued", "sent", "deferred", "failed", "bounced"}
ReqKind   == {"email", "service", "relay"}

IdleReq == [pc |-> "idle", kind |-> "email", todo |-> {}, msg |-> NoMsg]
IdleJob == [pc |-> "idle", msg |-> NoMsg, tries |-> 0, err |-> "nil"]

Settled(m)    == status[m] \in {"sent", "failed"}
Unfinished(m) == status[m] \in {"queued", "sending"}

\* Mutant: the recovery looks for queued rows only.
RecoverableQueuedOnly ==
  { m \in Messages : status[m] = "queued" /\ retryAt[m] # "later" }

\* The rows Start's query selects, and those a scheduler scan selects.  A
\* comparison with NULL is not true, so the scan never sees a row that was
\* not deferred.
Recoverable == { m \in Messages : Unfinished(m) /\ retryAt[m] # "later" }

Copies(m) == Cardinality({ i \in DOMAIN pending : pending[i] = m })
             + Cardinality({ w \in Workers : job[w].msg = m })
             + sleeping[m]

\* Mutant: the scan takes every queued row that does not wait.
DueWithNull == { m \in Messages : /\ status[m] = "queued"
                                 /\ retryAt[m] # "later"
                                 /\ Copies(m) < MaxCopies }

Due == { m \in Messages : /\ status[m] = "queued"
                          /\ retryAt[m] = "due"
                          /\ Copies(m) < MaxCopies }

Init ==
  /\ status = [m \in Messages |-> IF m \in Backlog THEN "queued" ELSE "none"]
  /\ retries = [m \in Messages |-> 0]
  /\ retryAt = [m \in Messages |-> "null"]
  /\ events = [m \in Messages |-> {}]
  /\ suppressed = {}
  /\ phase = "down"
  /\ backlog = {}
  /\ pending = <<>>
  /\ req = [h \in Handlers |-> IdleReq]
  /\ job = [w \in Workers |-> IdleJob]
  /\ sleeping = [m \in Messages |-> 0]
  /\ batch = {}
  /\ sentCount = 0
  /\ hourOver = FALSE
  /\ accepted = [m \in Messages |-> 0]
  /\ repeated = [m \in Messages |-> 0]
  /\ cut = [m \in Messages |-> 0]
  /\ crashes = 0
  /\ sentThisHour = 0

-----------------------------------------------------------------------------
\* Shorthands for the actions.

HasRoom == Len(pending) < Capacity
Send(m) == HasRoom /\ pending' = Append(pending, m)   \* q.pending <- m

\* The ways a write can go: done, or lost with an error nobody looks at.
WriteOK == IF DBMayFail THEN BOOLEAN ELSE {TRUE}

ReqStep(h, new) == req' = [req EXCEPT ![h] = new]
JobStep(w, new) == job' = [job EXCEPT ![w] = new]
Goto(r, pc)     == [r EXCEPT !.pc = pc]
JobAt(w, pc)    == job[w].pc = pc

AddEvent(m, type) ==
  \E ok \in WriteOK :
    events' = IF ok THEN [events EXCEPT ![m] = @ \cup {type}] ELSE events

-----------------------------------------------------------------------------
(***************************************************************************)
(* Start.  Main calls it before any handler, worker or scheduler runs.     *)
(***************************************************************************)

\* Mutant: the recovery selects by the retry time only.
BootAnyStatus ==
  /\ phase = "down"
  /\ phase' = "recover"
  /\ backlog' = { m \in Messages : status[m] # "none" /\ retryAt[m] # "later" }
  /\ UNCHANGED <<tables, pending, req, job, sleeping, batch, rate, history>>

Boot ==
  /\ phase = "down"
  /\ phase' = "recover"
  /\ \E ok \in WriteOK : backlog' = IF ok THEN Recoverable ELSE {}
  /\ UNCHANGED <<tables, pending, req, job, sleeping, batch, rate, history>>

PushRecovered(m) ==
  /\ phase = "recover"
  /\ m \in backlog
  /\ Send(m)
  /\ backlog' = backlog \ {m}
  /\ UNCHANGED <<tables, phase, req, job, sleeping, batch, rate, history>>

StartWorkers ==
  /\ phase = "recover"
  /\ backlog = {}
  /\ phase' = "run"
  /\ UNCHANGED <<tables, backlog, pending, req, job, sleeping, batch, rate,
                 history>>

-----------------------------------------------------------------------------
(***************************************************************************)
(* The request goroutines: SendEmail, ServiceSend, and the DATA command of *)
(* the relay, which stores and enqueues one message per recipient.         *)
(***************************************************************************)

Claimed == UNION { req[h].todo : h \in Handlers }
Fresh   == { m \in Messages : status[m] = "none" } \ Claimed

Receive(h, kind, todo) ==
  /\ phase = "run"
  /\ req[h].pc = "idle"
  /\ todo \subseteq Fresh
  /\ todo # {}
  /\ kind # "relay" => Cardinality(todo) = 1
  /\ ReqStep(h, [pc |-> IF kind = "email" THEN "check" ELSE "create",
                 kind |-> kind, todo |-> todo, msg |-> NoMsg])
  /\ UNCHANGED <<tables, feeders, pending, job, sleeping, rate, history>>

\* Only SendEmail looks at the suppression list, and a query that fails
\* leaves its count at zero.
CheckSuppression(h) ==
  /\ req[h].pc = "check"
  /\ \E ok \in WriteOK :
       IF ok /\ \E m \in req[h].todo : DestOf[m] \in suppressed
       THEN ReqStep(h, IdleReq)
       ELSE ReqStep(h, Goto(req[h], "create"))
  /\ UNCHANGED <<tables, feeders, pending, job, sleeping, rate, history>>

CreateRow(h) ==
  /\ req[h].pc = "create"
  /\ \E m \in req[h].todo :
       /\ status' = [status EXCEPT ![m] = "queued"]
       /\ ReqStep(h, [req[h] EXCEPT
            !.pc = IF req[h].kind = "service" THEN "enqueue" ELSE "event",
            !.msg = m])
  /\ UNCHANGED <<retries, retryAt, events, suppressed, feeders, pending, job,
                 sleeping, rate, history>>

\* The 500 or 451 answer.  Recipients the relay has dealt with stay queued.
CreateFails(h) ==
  /\ DBMayFail
  /\ req[h].pc = "create"
  /\ ReqStep(h, IdleReq)
  /\ UNCHANGED <<tables, feeders, pending, job, sleeping, rate, history>>

AddQueuedEvent(h) ==
  /\ req[h].pc = "event"
  /\ AddEvent(req[h].msg, "queued")
  /\ ReqStep(h, Goto(req[h], "enqueue"))
  /\ UNCHANGED <<columns, suppressed, feeders, pending, job, sleeping, rate,
                 history>>

Enqueue(h) ==
  /\ req[h].pc = "enqueue"
  /\ Send(req[h].msg)
  /\ LET left == req[h].todo \ {req[h].msg}
     IN  ReqStep(h, IF left = {} THEN IdleReq
                    ELSE [req[h] EXCEPT !.pc = "create", !.todo = left,
                                        !.msg = NoMsg])
  /\ UNCHANGED <<tables, feeders, job, sleeping, rate, history>>

-----------------------------------------------------------------------------
(***************************************************************************)
(* The workers: process().                                                 *)
(***************************************************************************)

Take(w) ==
  /\ phase = "run"
  /\ JobAt(w, "idle")
  /\ pending # <<>>
  /\ pending' = Tail(pending)
  /\ JobStep(w, [IdleJob EXCEPT !.pc = "hour", !.msg = Head(pending)])
  /\ UNCHANGED <<tables, feeders, req, sleeping, rate, history>>

\* Mutant: the count is reset whether or not the hour is over.
HourCheckAlwaysResets(w) ==
  /\ JobAt(w, "hour")
  /\ JobStep(w, Goto(job[w], "reset"))
  /\ UNCHANGED <<tables, feeders, pending, req, sleeping, rate, history>>

\* The test of lastReset, the reset of the count and that of lastReset are
\* three steps: two workers may both find the hour over, and the second one
\* wipes the count of an hour that the first one began.
HourCheck(w) ==
  /\ JobAt(w, "hour")
  /\ JobStep(w, Goto(job[w], IF hourOver THEN "reset" ELSE "limit"))
  /\ UNCHANGED <<tables, feeders, pending, req, sleeping, rate, history>>

ResetCount(w) ==
  /\ JobAt(w, "reset")
  /\ sentCount' = 0
  /\ JobStep(w, Goto(job[w], "stamp"))
  /\ UNCHANGED <<tables, feeders, pending, req, sleeping, hourOver, history>>

ResetHour(w) ==
  /\ JobAt(w, "stamp")
  /\ hourOver' = FALSE
  /\ sentThisHour' = IF hourOver THEN 0 ELSE sentThisHour
  /\ JobStep(w, Goto(job[w], "limit"))
  /\ UNCHANGED <<tables, feeders, pending, req, sleeping, sentCount, accepted,
                 repeated, cut, crashes>>

\* Mutant: the limit is tested with >.
UnderLimitOffByOne(w) ==
  /\ JobAt(w, "limit")
  /\ sentCount <= MaxPerHour
  /\ JobStep(w, Goto(job[w], "load"))
  /\ UNCHANGED <<tables, feeders, pending, req, sleeping, rate, history>>

UnderLimit(w) ==
  /\ JobAt(w, "limit")
  /\ sentCount < MaxPerHour
  /\ JobStep(w, Goto(job[w], "load"))
  /\ UNCHANGED <<tables, feeders, pending, req, sleeping, rate, history>>

\* Mutants: the worker drops the id it may not send yet; it starts the sleeper
\* and, without the return, goes on.
OverLimitDrops(w) ==
  /\ JobAt(w, "limit")
  /\ sentCount >= MaxPerHour
  /\ JobStep(w, IdleJob)
  /\ UNCHANGED <<tables, feeders, pending, req, sleeping, rate, history>>

OverLimitGoesOn(w) ==
  /\ JobAt(w, "limit")
  /\ sentCount >= MaxPerHour
  /\ sleeping' = [sleeping EXCEPT ![job[w].msg] = @ + 1]
  /\ JobStep(w, Goto(job[w], "load"))
  /\ UNCHANGED <<tables, feeders, pending, req, rate, history>>

\* The id goes to a goroutine that sleeps a minute.
OverLimit(w) ==
  /\ JobAt(w, "limit")
  /\ sentCount >= MaxPerHour
  /\ sleeping' = [sleeping EXCEPT ![job[w].msg] = @ + 1]
  /\ JobStep(w, IdleJob)
  /\ UNCHANGED <<tables, feeders, pending, req, rate, history>>

\* A message that is settled, or that the query did not return, is dropped.
Load(w) ==
  /\ JobAt(w, "load")
  /\ LET m == job[w].msg
     IN  \E ok \in WriteOK :
           IF ok /\ ~Settled(m)
           THEN JobStep(w, [job[w] EXCEPT !.pc = "claim",
                                          !.tries = retries[m]])
           ELSE JobStep(w, IdleJob)
  /\ UNCHANGED <<tables, feeders, pending, req, sleeping, rate, history>>

\* The update has no condition on the status it replaces.
Claim(w) ==
  /\ JobAt(w, "claim")
  /\ \E ok \in WriteOK :
       status' = IF ok THEN [status EXCEPT ![job[w].msg] = "sending"]
                 ELSE status
  /\ JobStep(w, Goto(job[w], "send"))
  /\ UNCHANGED <<retries, retryAt, events, suppressed, feeders, pending, req,
                 sleeping, rate, history>>

Transmit(w) ==
  /\ JobAt(w, "send")
  /\ \E o \in Outcomes :
       /\ accepted[job[w].msg] + o.takers <= MaxAccepts
       /\ accepted' = [accepted EXCEPT ![job[w].msg] = @ + o.takers]
       /\ repeated' = [repeated EXCEPT ![job[w].msg] =
                         IF o.takers > 1 THEN @ + (o.takers - 1) ELSE @]
       /\ JobStep(w, [job[w] EXCEPT !.pc = "record", !.err = o.err])
  /\ UNCHANGED <<tables, feeders, pending, req, sleeping, rate, cut, crashes,
                 sentThisHour>>

\* Mutants: every error is retried; one retry more than the limit is.
DeferredAnyError(w)  == job[w].err # "nil" /\ job[w].tries < MaxRetries
DeferredOnceMore(w)  == job[w].err = "temp" /\ job[w].tries <= MaxRetries

Deferred(w) == job[w].err = "temp" /\ job[w].tries < MaxRetries

\* Mutant: next_retry_at is not written with the deferral.
RecordWithoutTime(w) ==
  /\ JobAt(w, "record")
  /\ LET m == job[w].msg IN
       /\ status' = [status EXCEPT ![m] = IF Deferred(w) THEN "queued"
                       ELSE IF job[w].err = "nil" THEN "sent" ELSE "failed"]
       /\ retries' = IF Deferred(w)
                     THEN [retries EXCEPT ![m] = job[w].tries + 1]
                     ELSE retries
  /\ JobStep(w, Goto(job[w], "log"))
  /\ UNCHANGED <<retryAt, events, suppressed, feeders, pending, req, sleeping,
                 rate, history>>

RecordDone(w) ==
  /\ JobAt(w, "record")
  /\ LET m == job[w].msg IN
       IF Deferred(w)
       THEN /\ status' = [status EXCEPT ![m] = "queued"]
            /\ retries' = [retries EXCEPT ![m] = job[w].tries + 1]
            /\ retryAt' = [retryAt EXCEPT ![m] = "later"]
       ELSE /\ status' = [status EXCEPT ![m] =
                            IF job[w].err = "nil" THEN "sent" ELSE "failed"]
            /\ UNCHANGED <<retries, retryAt>>
  /\ JobStep(w, Goto(job[w], "log"))
  /\ UNCHANGED <<events, suppressed, feeders, pending, req, sleeping, rate,
                 history>>

\* The update fails and the worker goes on: the row stays as it was claimed.
RecordFails(w) ==
  /\ DBMayFail
  /\ JobAt(w, "record")
  /\ cut' = [cut EXCEPT ![job[w].msg] = @ + 1]
  /\ JobStep(w, Goto(job[w], "log"))
  /\ UNCHANGED <<tables, feeders, pending, req, sleeping, rate, accepted,
                 repeated, crashes, sentThisHour>>

\* Mutant: the event depends on the retries left, not on the kind of error.
LogEventByRetries(w) ==
  /\ JobAt(w, "log")
  /\ LET err == job[w].err IN
       /\ AddEvent(job[w].msg, CASE err = "nil" -> "sent"
                                 [] err # "nil" /\ job[w].tries < MaxRetries
                                    -> "deferred"
                                 [] OTHER -> "failed")
       /\ JobStep(w, CASE err = "nil"  -> Goto(job[w], "count")
                       [] err = "perm" -> Goto(job[w], "suppress")
                       [] OTHER        -> IdleJob)
  /\ UNCHANGED <<columns, suppressed, feeders, pending, req, sleeping, rate,
                 history>>

LogEvent(w) ==
  /\ JobAt(w, "log")
  /\ LET err == job[w].err IN
       /\ AddEvent(job[w].msg, CASE err = "nil" -> "sent"
                                 [] Deferred(w) -> "deferred"
                                 [] OTHER       -> "failed")
       /\ JobStep(w, CASE err = "nil"  -> Goto(job[w], "count")
                       [] err = "perm" -> Goto(job[w], "suppress")
                       [] OTHER        -> IdleJob)
  /\ UNCHANGED <<columns, suppressed, feeders, pending, req, sleeping, rate,
                 history>>

Count(w) ==
  /\ JobAt(w, "count")
  /\ sentCount' = sentCount + 1
  /\ sentThisHour' = IF hourOver THEN sentThisHour ELSE sentThisHour + 1
  /\ JobStep(w, IdleJob)
  /\ UNCHANGED <<tables, feeders, pending, req, sleeping, hourOver, accepted,
                 repeated, cut, crashes>>

Suppress(w) ==
  /\ JobAt(w, "suppress")
  /\ \E ok \in WriteOK :
       suppressed' = IF ok THEN suppressed \cup {DestOf[job[w].msg]}
                     ELSE suppressed
  /\ JobStep(w, Goto(job[w], "bounce"))
  /\ UNCHANGED <<columns, events, feeders, pending, req, sleeping, rate,
                 history>>

LogBounce(w) ==
  /\ JobAt(w, "bounce")
  /\ AddEvent(job[w].msg, "bounced")
  /\ JobStep(w, IdleJob)
  /\ UNCHANGED <<columns, suppressed, feeders, pending, req, sleeping, rate,
                 history>>

-----------------------------------------------------------------------------
(***************************************************************************)
(* Sleepers, the retry scheduler, time, and crashes.                       *)
(***************************************************************************)

Wake(m) ==
  /\ sleeping[m] > 0
  /\ Send(m)
  /\ sleeping' = [sleeping EXCEPT ![m] = @ - 1]
  /\ UNCHANGED <<tables, feeders, req, job, rate, history>>

\* One scan; the next waits until every id of this one is pushed.
Scan ==
  /\ phase = "run"
  /\ batch = {}
  /\ batch' \in SUBSET Due
  /\ Cardinality(batch') = IF Cardinality(Due) < ScanLimit
                           THEN Cardinality(Due) ELSE ScanLimit
  /\ batch' # {}
  /\ UNCHANGED <<tables, phase, backlog, pending, req, job, sleeping, rate,
                 history>>

SchedulerPush(m) ==
  /\ m \in batch
  /\ Send(m)
  /\ batch' = batch \ {m}
  /\ UNCHANGED <<tables, phase, backlog, req, job, sleeping, rate, history>>

HourPasses ==
  /\ phase = "run"
  /\ ~hourOver
  /\ hourOver' = TRUE
  /\ UNCHANGED <<tables, feeders, pending, req, job, sleeping, sentCount,
                 history>>

RetryElapses(m) ==
  /\ retryAt[m] = "later"
  /\ retryAt' = [retryAt EXCEPT ![m] = "due"]
  /\ UNCHANGED <<status, retries, events, suppressed, process, history>>

\* The tables survive, the outcomes of unrecorded transmissions do not.
Crash ==
  /\ phase # "down"
  /\ crashes < MaxCrashes
  /\ crashes' = crashes + 1
  /\ cut' = [m \in Messages |->
               IF \E w \in Workers : JobAt(w, "record") /\ job[w].msg = m
               THEN cut[m] + 1 ELSE cut[m]]
  /\ phase' = "down"
  /\ backlog' = {}
  /\ pending' = <<>>
  /\ req' = [h \in Handlers |-> IdleReq]
  /\ job' = [w \in Workers |-> IdleJob]
  /\ sleeping' = [m \in Messages |-> 0]
  /\ batch' = {}
  /\ sentCount' = 0
  /\ hourOver' = FALSE
  /\ sentThisHour' = 0
  /\ UNCHANGED <<tables, accepted, repeated>>

-----------------------------------------------------------------------------

Handle(h) == \/ CheckSuppression(h) \/ CreateRow(h) \/ CreateFails(h)
             \/ AddQueuedEvent(h) \/ Enqueue(h)

Work(w) == \/ HourCheck(w) \/ ResetCount(w) \/ ResetHour(w)
           \/ UnderLimit(w) \/ OverLimit(w) \/ Load(w) \/ Claim(w) \/ Transmit(w)
           \/ RecordDone(w) \/ RecordFails(w) \/ LogEvent(w) \/ Count(w)
           \/ Suppress(w) \/ LogBounce(w)

Next ==
  \/ Boot \/ StartWorkers
  \/ \E m \in Messages : \/ PushRecovered(m) \/ Wake(m) \/ SchedulerPush(m)
                         \/ RetryElapses(m)
  \/ \E h \in Handlers : \/ Handle(h)
                         \/ \E kind \in ReqKind, todo \in SUBSET Messages :
                              Receive(h, kind, todo)
  \/ \E w \in Workers : Take(w) \/ Work(w)
  \/ Scan \/ HourPasses \/ Crash

Spec == Init /\ [][Next]_vars
=============================================================================
