# A verification project for delivery-api

delivery-api is a Go service with two jobs: it sends transactional e-mail
(REST API and SMTP relay in, a database-backed queue, direct delivery to the
recipients' mail exchangers, DKIM signing per domain), and it keeps and
distributes users' notifications (inbox, live streams, push). This directory
holds TLA+ models of both, the TLC runs that check them on small instances, and
theorems about them that the TLA+ proof system checks for every size.

Paths below are relative to `src/internal/` unless they begin with `src/`.

## 1. Inventory

| component | state | operations | talks to |
|---|---|---|---|
| intake: `handlers/send.go`, DATA in `smtp/relay.go` | rows of `messages`, `message_events`, `suppressions` | SendEmail, ServiceSend, DATA | database, queue |
| queue: `queue/worker.go` | `pending` channel (10000), `sentCount`, `lastReset`, sleeping goroutines | Start, process, retryScheduler, Enqueue | database, sender |
| sender: `smtp/sender.go` | none beyond one call | Send, sendToMX | DNS, mail exchangers, signer |
| signer: `smtp/dkim.go`, loader in `src/main.go` | private key per domain, in memory | LoadKey (start-up), Sign | database |
| domains: `handlers/domains.go`, `handlers/admin.go`, `dns/cloudflare.go` | rows of `sending_domains`, the DNS zone | CreateDomain, VerifyDomain, AdminVerifyDomain, AutoSetupDNS, DeleteDomain | database, DNS, Cloudflare |
| hub: `sse/hub.go` | map of subscribers, a buffered channel each (16) | Subscribe, unsub, Publish | publishers, streams |
| notifications: `handlers/notifications.go`, `handlers/admin_notifications.go` | rows of `notifications` | ServiceNotify, SelfNotify, AdminSendTestNotification, MarkRead, MarkAllRead, DeleteNotification, the SSE and WebSocket streams | database, hub, push |
| push: `push/`, `handlers/notifications.go` | rows of `web_push_subscriptions`, `device_tokens`, `notification_preferences` | Register*, Unregister*, UpdatePreferences, fan-out | database, push services |
| tenants: `handlers/enroll.go`, `handlers/keys.go`, `models/api_key.go`, `middleware/apikey.go` | rows of `api_keys` | enroll, unenroll, create a key, authenticate | database |
| relay session: `smtp/relay.go` | user and key pinned by AUTH, sender and recipients of the mail | AUTH, MAIL, RCPT, RSET, DATA, Logout | database, queue |
| login: `handlers/auth.go`, `handlers/cat_token.go`, `handlers/helpers.go` | OAuth states, sessions, token cache, all in memory | login, callback, logout, WithAuth | accounts service |
| reads, templates, message text, configuration | - | listings, statistics, formatting, start-up | database |

Where the difficulty is, component by component, with what makes it correct:

* **Intake and queue.** Handlers, five workers, a scheduler, sleepers and the
  start-up recovery all pass message ids around. No row is locked, no write's
  error is looked at, and a transmission is not atomic with its record. Correct
  means: no stored message is forgotten; no worker sends one twice unless a crash
  or failed write hid the first time; a settled row stays settled; an hour sees no
  more than the warm-up limit and the workers' slack; every message is settled in the
  end; start-up ends.
* **Sender.** A reply may be lost at any point of an SMTP session and the next
  exchanger tried. Correct means: success is reported only for a message an
  exchanger took, a second exchanger gets a copy only after the first one that took
  it failed, and the error tells the queue whether to retry.
* **Domains and signer.** Handlers load a row, spend seconds in DNS queries, and
  save it whole. Correct means: one row per name, a verdict only from records
  seen for that row, no deleted row back, mail signed with its domain's key.
* **Hub and notifications.** Publishers send to a snapshot of the subscribers
  while streams come and go. Correct means: nobody sends to a closed channel, a
  slow stream stops nobody, an answered notification reached the streams, and
  the count a client shows is right when things are quiet.
* **Push.** Delete and insert without a transaction; a fan-out with rows it read
  earlier. Correct means: an answered registration stays, nothing is pushed
  twice, preferences are respected.
* **Tenants and the relay session.** Enrolment counts and then inserts, with the
  count's error dropped; revocation is one delete that races with requests and
  SMTP sessions which came in before. Correct means: mail, key and domain belong
  to one tenant, and a tenant who is out stays out.
* **Login.** States, sessions and the token cache live in memory, and callbacks,
  sweeps, cache hits and answers of accounts interleave. Correct means: a state
  works once, and a revoked token dies in bounded time.

Every hazard, at its line and with the properties that watch it, is in
`PROJECT.json` under `hazards`; those without a property say why.

## 2. Modules

| module | what it is |
|---|---|
| `SendOutcomes` | what a call of `Sender.Send` may come to: the error the queue sees, and how many exchangers took the message, which it does not see |
| `DeliveryQueue` | intake, queue, scheduler, recovery, crash: the core model |
| `DeliveryProperties` | its types, invariants, action and liveness properties, the mapping to the ledger, the inductive invariant `Custody` |
| `MessageLedger` | the abstract promise of the queue: accepted once, owed until settled, transmitted again only after an outcome was lost; one transmission may reach several exchangers |
| `Sender` | one call of Send, command by command; justifies `SendOutcomes` |
| `Hub`, `Notifications` | the hub's critical sections; publishers and streams made of them |
| `SendingDomains` | one domain name: rows, zone, signer, mail |
| `DomainName` | its abstract promise: one holder at a time, verified by its own records, and a signature of a holder that was verified when the process started |
| `Push` | registrations, preferences, fan-out |
| `PushDelivery` | its abstract promise: a notification picks endpoints its user has at that moment, and reaches each once |
| `Tenants` | API keys, enrolment, who comes in with a key, the relay's sessions |
| `Tenancy` | its abstract promise: who acts for a tenant came in with its login or a good key; mail is sent in a session a good key opened, for a row the tenant owned, verified |
| `Logins` | OAuth states, sessions, the cache of accounts' tokens |
| `OneTimeLogin` | its abstract promise: a state is a ticket to one session, a session that ended lets nobody in |
| `DeliveryQueueProofs`, `DeliveryLedgerProofs`, `SenderProofs`, `NotificationsProofs`, `PushProofs`, `SendingDomainsProofs`, `TenantsProofs`, `LoginsProofs` | theorems about the module of the same name; `DeliveryLedgerProofs` holds those that need the deployed outcomes, and the refinement |
| `MC*` | instances for TLC: definitions of constants and symmetry sets |

`DeliveryQueue` extends `SendOutcomes`; `Sender` checks that the set
`DeployedOutcomes` is what Send returns; `Notifications` extends `Hub`. Five modules instantiate an
abstract specification with a refinement mapping, which compares the code
with what it is for: `DeliveryProperties` MessageLedger, `SendingDomains` DomainName,
`Push` PushDelivery, `Tenants` Tenancy, `Logins` OneTimeLogin. A
definition marked `Mutant` in a comment is not part of a model: it is a plausible
mistake in the definition that follows, and each property is known to fail when
the mistake is put in (`mutants` in `PROJECT.json`).

### Conventions

A goroutine is a record with a program counter. One action is one access to
shared state: a query, an update, a channel operation, one read or write of a
shared variable. What lies between two accesses is folded into the one before.
`DBMayFail` says whether a query may return an error, and an action then does
what the code does with the error, mostly nothing. History variables are listed
as such; no action's guard reads one, except the bounds `MaxCrashes` and
`MaxAccepts`.

### The e-mail pipeline

`status`, `retries`, `retryAt`, `events` and `suppressed` are the columns and
tables of the same name; `retryAt` is NULL, in the future or due, since nothing
else is ever asked of a time. `pending` is the channel. `req` and `job` are the
request and worker goroutines, `sleeping` counts goroutines in the one-minute
sleep of process(), `batch` and `backlog` are the slices the scheduler and Start
iterate over. `hourOver` is `time.Since(q.lastReset) > time.Hour`.

process() becomes HourCheck, ResetCount, ResetHour, UnderLimit or OverLimit, Load, Claim,
Transmit, RecordDone (or RecordFails, when the update fails), LogEvent, Count,
Suppress, LogBounce: each reads or writes something another goroutine can see
between them. `lastReset` is read and written without synchronisation; the
reader uses only one machine word of it (the monotonic reading), so the outcomes
of that race are the old and the new value, and HourCheck, ResetCount and ResetHour
being separate steps covers both. Crash empties everything but the tables, and Boot
starts over.

`sentThisHour` is a history variable, the messages sent since the hour began. An
hour begins when the process starts, and with the first reset after the last hour is
over: the resets of workers that found the same hour over begin nothing, but they do
wipe the count. It stands still from the moment the hour is over until then. A restart
begins a new allowance, as in the code, which keeps the count in memory.

A call of Send may leave the message with several exchangers: one that takes it, and
whose reply to the dot or to QUIT is lost or bad, is followed by the next. The queue sees
one error, or none. `accepted` therefore counts exchangers, `repeated` those that were not
the first of their call, and `cut` the calls whose outcome a crash or a failed update
kept out of the row. AtMostOnce says that these two explain every delivery but one.

Outcomes is a constant. `DeployedOutcomes` is what Send returns (no
`*SMTPError` ever: finding 1); `ContractOutcomes` is what process() was written
for. The second keeps deferrals, retries, bounces and suppressions under test,
and shows what would come with a repair of the first: the scheduler selects by
time only, so an id that waits in the channel is pushed again, and two workers
may send it. SingleHolder and AtMostOnce therefore belong to the deployed
outcomes, and the theorems that need them assume it by name (`Deployed` in
`DeliveryLedgerProofs`: Outcomes is a subset of `DeployedOutcomes`).

### The sender

One call, up to three exchangers (any number in the theorems), each command answered
by 2xx, 4xx, 5xx or a lost connection. The dot may be taken by an exchanger whose reply
is lost. Success of an attempt is decided by the result of QUIT, as in the code.
`takers` are the exchangers that have the message, `lapsed` those of them whose reply to
the dot or to QUIT was no success. CopiesAreLapses relates the two: the loop leaves an
exchanger that has the message only after a lapse, and Send reports success exactly when
one did not lapse.

### Hub and notifications

One user: users share only the hub's mutex. `subs` is the map, `open` the
channels not yet closed, `chan` their contents. A publisher takes its snapshot in
one action and sends to each target in another, which is where an unsubscribing
stream can get between. A panic ends the publisher's handler; net/http recovers
it. Subscriptions are used once, as in the code.

### Sending domains

One name; rows are told apart by id, and ids are never reused. The zone publishes
the DKIM key of one row, or none, and SPF or not; its owner edits it at will. A
lookup may fail, which the code takes for "no record". The DKIM check compares
40 characters of the base64 key, which for the 2048-bit keys this service makes
are the DER header: any DKIM key of that kind passes, and `LookUpDKIM` says so.
Stale resolver caches are not modelled. Save inserts the row again when it is
gone: that is what gorm's Save does with a primary key that matches no row.

### Push

The two registration tables are treated alike by the code, and are one table here
with a channel per endpoint. Save on a preferences row that does not exist inserts
one, and a false field whose tag says `default:true` is stored as true: gorm's
rule, modelled in CreatePrefs (finding 4). Muted types and `last_used` are left
out; a user who muted a type gets no notification, which is the case where nothing
happens.

### Tenants and the relay session

A key is new, live, late (expired) or gone; what keys look like, their hashes and
scopes, and `last_used_at`, which no code reads, are left out. `call` holds the
request goroutines of enrollment, creation and revocation with their one or two
queries each, `smtp` the sessions: AUTH pins user and key, DATA looks the domain up
and then stores one message per recipient. go-smtp gives the order of the commands;
that, and that it calls Reset after DATA, is modelled from how the relay is written
for it. Domains change hands under the session the way SendingDomains says.

### Logins

States and sessions are "live" or "late" (past their time limit) or gone. The cache
is timed: an entry is good for `TTL` ticks, a request to accounts takes at most
`Timeout`, and one tick is what a goroutine may need between reading an answer and
storing it. A restart forgets everything but what accounts knows.

## 3. Runs

| run | instance | checks |
|---|---|---|
| QueueDeployed | 2 messages (one left by an earlier process), 1 handler, 2 workers, capacity 2, limit 1, 1 exchanger, 1 crash, no failing query; with fairness | NoMessageLost, HistoryAgrees, EventuallySettled |
| QueueDBFailure | 2 messages, 2 handlers, 2 workers, capacity 1, limit 1, 2 exchangers, 1 crash, any query may fail | SingleHolder, AtMostOnce, StartWaitsOnlyOnOverflow, ImplementsLedger |
| QueueContract | 2 messages to one recipient, 2 exchangers, every outcome, 1 retry, limit 1; with the messages of the hour | TypeOK, NoMessageLost, BounceTrail, CounterOvershoot, HourlyBounded |
| SenderSafe | 3 exchangers | TypeOK, Answered, CopiesAreLapses, Returns |
| HubTwoPublishers | 2 publishers with or without the inbox channel, 1 notification, 1 stream with a buffer of 2, failing queries; with fairness | TypeOK, SubscribersAreOpen, AnsweredReachesStreams, NotifiedOnce, QuietCountIsRight, PublishersFinish |
| AccessSafe | 2 tenants, 2 keys, 1 row, 2 requests, 1 session (1 recipient, 1 message, 2 at work at once), failing queries; 2 states, 2 sessions, 1 token, 3 requests, TTL 2, time limit 1 | TypeOK, MailIsItsTenants, EnrolledOnce, EnabledAgrees, OutStaysOut, ImplementsTenancy; LoginTypeOK, StateSpentOnce, StaleHitsAreBounded, ImplementsOneTimeLogin |
| DomainsSafe | 2 rows of a name, 2 requests, 1 mail, failing queries | TypeOK, VerifiedWasProven, ImplementsDomainName |
| PushSafe | 2 users, 1 browser, 2 requests, 1 notification, failing queries | TypeOK, RegistrationKept, OnlyTheUserTurnsOff, ImplementsPushDelivery |
| SenderErrorKind, HubPanic, DomainsSigned, PushPreferences | the smallest that shows it | one violated property each, see 6 |

**Bounds and why they are enough.** Two workers are the least that race, and a
third does what the second can; they are interchangeable. Two messages and a
capacity of one or two make the channel full while others hold ids. A limit of one
sends messages to sleep at once. Two exchangers are the least with a copy, three the least
with an exchanger that is neither first nor last; QueueDeployed has one, since what it asks
about, loss, events and progress, does not depend on how many took a message. One retry
(3 in the code) is the least with a deferred, a retried and an exhausted message. One crash is followed by a whole
second life of the process, from tables in any state the first could leave. Two
requests are the least that overtake one another, two rows the least for "deleted
and registered again". `MaxCopies` limits the copies the scheduler puts in flight
under the contract outcomes to two, `MaxAccepts` how often exchangers take one,
`MaxRows` and `MaxChanges` how often something is created or changed, `MaxBusy` the
requests and sessions that work at once, `MaxRcpt` and `MaxMessages` the mail. The
theorems hold without any of these numbers (the bounds are constants of any value
there); two streams with a buffer of one, which overflows at once, were also explored
with TLC (5.5 million states) before the theorems about the hub replaced that run.

Two workers and a limit of one may send three messages in an hour, and QueueContract
reaches that: a deferral leaves copies of an id, each counted when it is sent. Three
requests are the least for a callback that races with another while a third comes in on a
session. One row of the domain is enough for tenants: the mail of a session names its row,
ids are never used twice, and the other tenant may own the row, verify it, lose it, and have
it back at any time. (Two rows were explored with TLC too, 1.5 million states.)

AccessSafe covers two modules that share no variable: a login tells a tenant's handler
who its user is, and `Tenants` lets any user log in at any time. `MCAccess` steps
one while the other is in its initial state, which reaches every state of each without
their product.

Four properties are left to their theorems because the refinement checked in the same run
says the same and more: SettledForGood (MessageLedger), GoneForGood (DomainName), PushedOnce
(PushDelivery), and Custody, whose parts with a meaning of their own are SingleHolder and
AtMostOnce.

**Deadlock** checking is off in the queue and sender runs only, where all messages
settled and no handler at work, or a call that returned, is a proper end;
`EventuallySettled` and `Returns` exclude the others.

**Fairness.** Go runs every goroutine that can run, so steps that only need the
processor or the database are weakly fair. A goroutine blocked in a channel send is
served in turn (the runtime queues senders), while other senders may fill the
channel each time: sends are strongly fair. Time passes: HourPasses and
RetryElapses are weakly fair. One assumption the code does not justify is made
openly: an exchanger answers or the connection breaks. sendToMX sets no deadline,
so an exchanger that goes silent holds a worker for good. Handlers are not obliged
to receive requests, streams are not obliged to read, and the process is not
obliged to crash. `EventuallySettled` also needs a backlog that fits in the
channel: Start pushes it before any worker exists, and blocks for ever when it does
not. StartIsHeldUpByOverflow says that nothing else holds it up.

## 4. Theorems

All are proved for any sets of messages, handlers, workers, requests, streams, keys and
any bounds, from the assumptions named in the modules (`QueueAssumption`,
`ExchangersAssumption`, `NotificationsAssumption` and so on) and from the hypotheses below.
Every safety property that a passing run checks has its theorem.

| theorem | says | along |
|---|---|---|
| TypeCorrect | TypeOK of the queue | one lemma per group of actions |
| OvershootBounded | CounterOvershoot | counts the workers past the test; adding or removing one changes a finite set's cardinality by one |
| HourIsBounded | HourlyBounded | `HourInv`: in a running hour, some number n of messages, no more than the count shows, has been sent since the last wipe, and n and the workers who could still send or wipe stay within MaxPerHour - 1 + W; what was sent before is bounded by the number of wipes that are over, since a worker that waits to wipe does not send. n is not the count itself: a worker resets the count first and begins the hour with the next step, and what is counted between the two belongs to no hour |
| StartIsHeldUpByOverflow | StartWaitsOnlyOnOverflow, for a finite set of messages | `StartInv`: in that phase nobody else runs, and the rows still to push and the length of the channel add up to no more than the rows that are there to recover |
| NothingIsLost | NoMessageLost, under `Calm` | `LossInv`: TypeOK, who defers, and every unfinished row held or to be scanned |
| BouncesAreTraced | BounceTrail, where writes do not fail | `BounceInv`: what a worker has written of a bounce so far |
| CustodyKept | Custody, under `Deployed` | one step per action and conjunct |
| OneHolder, NoDuplicates | SingleHolder, AtMostOnce, under `Deployed` | conjuncts of Custody |
| EventsAgree | HistoryAgrees, under `Deployed`, where writes do not fail | `Told`: the events a worker still owes a row it has alone |
| QueueImplementsLedger, SettledStays | the queue implements MessageLedger; SettledForGood; under `Deployed` | each action is a ledger step or a stutter, under Custody |
| SenderTypes, AnswersAreDeployed, CopiesExplained | TypeOK, Answered, CopiesAreLapses | `SenderInv`: before its reply to the dot, the exchanger that is tried has no message and all that have it lapsed; from there to the reply to QUIT it is the only one that has it and did not |
| GivenOnce | NotifiedOnce | `OnceInv`: a publisher that still owes a stream its event has not sent it, and nobody else carries that notification |
| NotificationTypes, SubscribersCanReceive | TypeOK, SubscribersAreOpen | `Phases`: a stream is in the map exactly in the phases between subscribe and unsubscribe |
| AnsweredIsDelivered | AnsweredReachesStreams | `DeliveryInv`: a publisher that still owes its answer carries the event to the stream, or the stream has it |
| QuietCountHolds | QuietCountIsRight | `CountInv`: the last count in the buffer, or the one that will be shown, is that of the table, or a handler still owes it |
| PushTypes, RegistrationsKept, SentOnce, SilencedOnlyByTheUser | the properties of Push | `PushInv`, of three parts: rows (an endpoint has one row), preferences (what a request is about to write), fan-outs (a channel still to do, or rows read once each) |
| DeliveredToItsUser | Push implements PushDelivery | under `PushInv`, each action is one step of it or a stutter; an insert that takes an endpoint over was preceded by the delete |
| DomainTypes, VerdictsAreProven, DeletedStaysDeleted | the properties of SendingDomains | an inductive invariant over what requests remember of a lookup |
| NameIsKept | SendingDomains implements DomainName | the holder is the one row there is, thanks to the unique index; a request's row is in hand until the last request that has it lays it down |
| TenantTypes, MailStaysInTheTenancy, OneDefaultKey, AnswersAgree, RevokedStaysRevoked | the properties of Tenants | a session's row and key belong to its user; of the enrolments of a user between count and insert, at most one will make a solo key; what a handler that works alone is about to answer |
| TenancyKept | Tenants implements Tenancy | from the types alone: every action of the code tests, in its own step, what the promise asks of it |
| LoginTypes, OneSessionPerState, StaleHitsEnd | the properties of Logins | `HeldAlone`: a state being exchanged is gone from the map and no other callback has it; `Fresh`: an entry of a revoked token, and an answer on its way, end within the bound |
| LoginIsOneTime | Logins implements OneTimeLogin | under `LoginInv`, of which HeldAlone tells whose exchange spends a ticket |

Hypotheses. `Deployed` says that the outcomes of Send are among `DeployedOutcomes`;
AnswersAreDeployed proves that of the sender, for any number of exchangers. `Calm` says
that queries do not fail and that nothing is deferred or nothing crashes. The second
half is needed: with the outcomes process() was written for, a row that was deferred,
then claimed by a worker that held a second copy of its id, and then left "sending" by
a crash before its retry time, is skipped by the recovery (`queue/worker.go:44`) and by
the scheduler (line 210 looks at "queued" rows only), until some later restart. As
deployed nothing is ever deferred, so this waits for the repair of finding 1.

SingleHolder is not inductive: a worker could finish a row that somebody else holds
as well, or a request could store an id that is in the channel. `Custody` adds what
excludes it. `NoRetries`: nothing is deferred, so the scheduler finds nothing.
`Resting`: outside their phase, workers, handlers and slices are empty, so a new
process starts with nothing in hand. `Requests`: a request owns its messages and has
not stored those it still has to. `Books`: a row without a status is in nobody's
hands, an unfinished row was taken by exchangers no more often than lost outcomes and
repeats within a call account for, and a worker past Load holds an unfinished row. TLC checked Custody on the
instance of QueueDBFailure before it was proved.

## 5. Checked by TLC only, and not modelled

The liveness properties (EventuallySettled, Returns, PublishersFinish) are out of the
prover's reach, as is everything about ENABLED. No recursive operator is used anywhere,
so no module is closed to proofs.

Not modelled:

* message text and templates, statistics and listings, configuration: pure, read-only
  or run once;
* TXT records of a zone other than ours, which the automatic set-up may overwrite
  (`dns/cloudflare.go:108`): they are no state of this service, and `RemoveDomainRecords`
  has no caller. The Cloudflare client is therefore modelled in part;
* the client of the relay that repeats a mail after a 451: its second mail is new rows
  that nothing relates to the first;
* stale caches of DNS resolvers, and the framing of SMTP, SSE, WebSocket and HTTP.

Two limits of the code are stated by what remains true of them. Workers test lastReset
(`queue/worker.go:74`) and reset the count (lines 75-76) without a lock, so a worker that
found the last hour over may wipe the count of the new one: the `sent_this_hour` of the
health endpoint (line 230) is too small then, and the hour may see more than the limit.
HourlyBounded says how many more: with W workers, at most `W * MaxPerHour + W * (W - 1) / 2`
messages, which for the five of `src/main.go:36` is five times the limit and ten. Start
pushes every recovered row into the channel (line 48) before it starts a worker (line 56):
with more than 10000 unfinished rows it never returns, and main, which calls it before it
listens, never serves. StartWaitsOnlyOnOverflow says that this is the only way.

Two properties are weaker than a comment reads, on purpose. `handlers/cat_token.go:27`
says of a token that was revoked that "a stale hit would just succeed once more"; it
succeeds any number of times until the entry ends, and the entry's minute starts at the
answer of accounts, which may itself be on its way when the token is revoked:
StaleHitsAreBounded states that bound. `handlers/enroll.go:19` says "Idempotent";
EnrolledOnce says so of enrolments whose count works and sees no other enrolment between
its count and its insert; what an enrolment saw is kept with the key it makes (`solo`). A
failed count or a race does make a second key, in the code and in the model. A relay
session keeps the key it was opened with after the key is revoked, until it ends:
OutStaysOut is about tenants without an open session.

## 6. Findings

1. **SenderErrorKind.** `smtp/sender.go:67` formats the last error with `%v`, so no
   `*SMTPError` reaches process(). A temporary refusal fails the message at once and a
   bounce suppresses nobody.
2. **HubPanic.** `sse/hub.go:73` closes a channel that a publisher with an older snapshot
   (line 97) still sends to. The publisher's handler panics after the row was inserted:
   other streams and push are not served, and the caller gets no answer.
3. **DomainsSigned.** DKIM keys are loaded at start-up only (`src/main.go:29`). A domain
   verified later sends unsigned until the next restart.
4. **PushPreferences.** The first change of preferences cannot turn a channel off
   (`handlers/notifications.go:643` with `models/notification.go:24`). The administrator's
   test notification does not look at preferences at all.

## 7. What could follow

1. The records of a zone other than ours, with a row-by-row model of the Cloudflare API:
   what a set-up may replace.
2. A message accepted under a domain row that is deleted before it is sent, as a
   composition of `SendingDomains` with the intake; today `Sign` reads the signer only,
   so the row's fate does not matter to it.
3. An abstract specification of a call of Send, and one of the live streams, for `Sender`
   and `Notifications` to implement, as the other components have.
4. The queue with repaired outcomes (`ContractOutcomes`) under crashes: a claim that is
   conditional on the status would restore SingleHolder there, and a recovery without
   the time test would make NothingIsLost hold without `Calm`.
