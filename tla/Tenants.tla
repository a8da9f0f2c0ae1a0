------------------------------- MODULE Tenants -------------------------------
(***************************************************************************)
(* Tenants: the rows of api_keys, the handlers that change them            *)
(* (internal/handlers/enroll.go, keys.go), and those who come in with a    *)
(* key: REST requests (internal/middleware/apikey.go) and SMTP sessions of *)
(* the relay (internal/smtp/relay.go).  A request may also come in with a  *)
(* login (module Logins), which says who its user is and is no more than   *)
(* that here.  The mail of SendEmail is in module DeliveryQueue.           *)
(*                                                                         *)
(* Mail is taken for a domain that the user owns and has verified.  Domain *)
(* names share nothing, so there is one; its rows change the way module    *)
(* SendingDomains says, for whatever owner.                                *)
(***************************************************************************)
EXTENDS Naturals, FiniteSets

CONSTANTS
  Users,      \* tenants
  Keys,       \* API keys that may be made; random, none is made twice
  Rows,       \* rows the domain name may get, one after the other
  Callers,    \* request goroutines
  Clients,    \* SMTP connections
  None,       \* no key, no row
  MaxRcpt,    \* bound: recipients of an SMTP mail
  MaxMessages, \* bound: messages stored
  MaxBusy,    \* bound: requests and sessions at work at once
  DBMayFail   \* whether a query may return an error

ASSUME TenantsAssumption ==
  None \notin Users \cup Keys \cup Rows /\ MaxRcpt \in Nat /\ DBMayFail \in BOOLEAN

VARIABLES
  key,      \* a key: "new", "live", "late" (expired), "gone"; its user (and
            \* history: whether a solo enrolment made it)
  domain,   \* a row: "new", "pending", "verified", "gone"; its user
  call,     \* request goroutines: pc, their user, whether they came with a
            \* login (history: whether they work alone, whether they enrol solo)
  smtp,     \* SMTP sessions: the user and key pinned by AUTH, the mail
  messages, \* messages stored: user, key and row of the domain
  \* history
  told      \* what the last answer said of a user: has keys, has none, or None
            \* when it was an error or its handler did not work alone

vars == <<key, domain, call, smtp, messages, told>>

Idle == [pc |-> "idle"]
Open == [pc |-> "open", user |-> None, key |-> None, from |-> FALSE, to |-> 0]

Init ==
  /\ key = [k \in Keys |-> [st |-> "new"]]
  /\ domain = [i \in Rows |-> [st |-> "new"]]
  /\ call = [c \in Callers |-> Idle]
  /\ smtp = [x \in Clients |-> Open]
  /\ messages = {}
  /\ told = [u \in Users |-> None]

tables == <<key, domain, messages>>

At(c, pc)     == call[c].pc = pc
Become(c, to) == call' = [call EXCEPT ![c] = to]
AtWork(u)     == { c \in Callers : ~At(c, "idle") /\ call[c].user = u }

\* The rows of a user, expired keys among them.
KeysOf(u)   == { k \in Keys : key[k].st \in {"live", "late"} /\ key[k].user = u }
SoloKeys(u) == { k \in KeysOf(u) : key[k].solo }

-----------------------------------------------------------------------------
(***************************************************************************)
(* A request comes in.  When another one of the user is at work, neither   *)
(* works alone.                                                            *)
(***************************************************************************)

Room == Cardinality({ c \in Callers : ~At(c, "idle") })
          + Cardinality({ x \in Clients : smtp[x] # Open }) < MaxBusy

Handlers == {"enroll", "create", "unenroll"}

Start(c, u, login, pc) ==
  /\ At(c, "idle")
  /\ Room
  /\ LET others == AtWork(u)
     IN  call' = [d \in Callers |->
                    IF d = c THEN [pc |-> pc, user |-> u, login |-> login,
                                   alone |-> others = {}, solo |-> FALSE]
                    ELSE IF d \in others THEN [call[d] EXCEPT !.alone = FALSE]
                    ELSE call[d]]
  /\ UNCHANGED <<tables, smtp, told>>

\* Mutant: an expired key is a key.
KnownKey(k) == key[k].st \in {"live", "late"}

\* The lookup by hash, and the test of expires_at.
GoodKey(k) == key[k].st = "live"

\* WithAuth: the gateway, a session or accounts vouches for the user, or the
\* middleware finds the key.
ByLogin(c, u, pc) == Start(c, u, TRUE, pc)
APIKeyAuth(c, k, pc) == GoodKey(k) /\ Start(c, key[k].user, FALSE, pc)

Answer(c, says) ==
  /\ told' = [told EXCEPT ![call[c].user] = IF call[c].alone THEN says ELSE None]
  /\ Become(c, Idle)

\* A 500 says nothing of the user's keys.
Fails(c, pc) ==
  /\ DBMayFail
  /\ At(c, pc)
  /\ Answer(c, None)
  /\ UNCHANGED <<tables, smtp>>

-----------------------------------------------------------------------------
(***************************************************************************)
(* EnrollDelivery, CreateAPIKey, UnenrollDelivery.                         *)
(***************************************************************************)

\* The handler goes on to make a key.  It does so solo if its count worked and
\* no other enrolment of the user is between count and insert.
Proceed(c, counted) ==
  LET others == { d \in AtWork(call[c].user) : At(d, "default") }
  IN  Become(c, [call[c] EXCEPT !.pc = "default",
                                !.solo = counted /\ others = {}])

\* Mutant: the count is not looked at.
CountNothing(c) ==
  /\ At(c, "enroll")
  /\ Proceed(c, TRUE)
  /\ UNCHANGED <<tables, smtp, told>>

\* An error of the count is dropped, and leaves the count at 0.
Count(c) ==
  /\ At(c, "enroll")
  /\ LET none == KeysOf(call[c].user) = {}
     IN  \/ ~none     /\ Answer(c, TRUE)
         \/ none      /\ Proceed(c, TRUE)  /\ UNCHANGED told
         \/ DBMayFail /\ Proceed(c, FALSE) /\ UNCHANGED told
  /\ UNCHANGED <<tables, smtp>>

Insert(c, k, pc) ==
  /\ At(c, pc)
  /\ key[k].st = "new"
  /\ key' = [key EXCEPT ![k] = [st |-> "live", user |-> call[c].user,
                                solo |-> call[c].solo]]
  /\ Answer(c, TRUE)
  /\ UNCHANGED <<domain, messages, smtp>>

EnrollDelivery(c, k) == Insert(c, k, "default")
CreateAPIKey(c, k)   == Insert(c, k, "create")

\* Mutant: only keys that are still good are deleted.
RevokedGood(u) == { k \in KeysOf(u) : key[k].st = "live" }

\* One DELETE by user id.
Revoked(u) == KeysOf(u)
UnenrollDelivery(c) ==
  /\ At(c, "unenroll")
  /\ LET gone == Revoked(call[c].user)
     IN  key' = [k \in Keys |-> IF k \in gone THEN [st |-> "gone", user |-> key[k].user]
                                ELSE key[k]]
  /\ Answer(c, FALSE)
  /\ UNCHANGED <<domain, messages, smtp>>

-----------------------------------------------------------------------------
(***************************************************************************)
(* The SMTP session, and the mail it takes for a verified row of its user. *)
(***************************************************************************)

\* Mutant: the lookup is not scoped by the user.
VerifiedFor(i, u) == domain[i].st = "verified"

\* Mutant: the lookup does not ask for the status.
OwnedBy(i, u) == domain[i].st \in {"pending", "verified"} /\ domain[i].user = u

\* WHERE domain = ? AND user_id = ? AND status = 'verified'
Sendable(i, u) == domain[i].st = "verified" /\ domain[i].user = u

Stored(u, k, i) ==
  /\ Cardinality(messages) < MaxMessages
  /\ messages' = messages \cup {[user |-> u, key |-> k, row |-> i]}

\* go-smtp calls Mail, Rcpt and Data one at a time, Data only after both
\* others, refuses a second AUTH, and calls Reset after Data, RSET and a
\* repeated EHLO.
Session(x, to) == smtp' = [smtp EXCEPT ![x] = to]
Talking(x)     == smtp[x].pc = "open" /\ smtp[x].key # None

Auth(x, k) ==
  /\ smtp[x].pc = "open" /\ smtp[x].key = None
  /\ Room
  /\ GoodKey(k)
  /\ Session(x, [smtp[x] EXCEPT !.user = key[k].user, !.key = k])
  /\ UNCHANGED <<tables, call, told>>

Mail(x) ==
  /\ Talking(x)
  /\ Session(x, [smtp[x] EXCEPT !.from = TRUE])
  /\ UNCHANGED <<tables, call, told>>

Rcpt(x) ==
  /\ Talking(x) /\ smtp[x].from
  /\ smtp[x].to < MaxRcpt
  /\ Session(x, [smtp[x] EXCEPT !.to = @ + 1])
  /\ UNCHANGED <<tables, call, told>>

\* Mutant: Reset forgets whose session it is.
ClearedUser(x) == [Open EXCEPT !.key = smtp[x].key]

\* Reset keeps the credential.
Cleared(x) == [Open EXCEPT !.user = smtp[x].user, !.key = smtp[x].key]

Reset(x) ==
  /\ Talking(x)
  /\ Session(x, Cleared(x))
  /\ UNCHANGED <<tables, call, told>>

Data(x, i) ==
  /\ Talking(x) /\ smtp[x].from /\ smtp[x].to > 0
  /\ Sendable(i, smtp[x].user)
  /\ Session(x, [pc |-> "store", user |-> smtp[x].user, key |-> smtp[x].key,
                 to |-> smtp[x].to, row |-> i])
  /\ UNCHANGED <<tables, call, told>>

DataRefused(x) ==
  /\ Talking(x) /\ smtp[x].from /\ smtp[x].to > 0
  /\ DBMayFail \/ \A i \in Rows : ~Sendable(i, smtp[x].user)
  /\ Session(x, Cleared(x))
  /\ UNCHANGED <<tables, call, told>>

\* The loop over the recipients; an error ends it, with 451 for them all.
StoreOne(x) ==
  /\ smtp[x].pc = "store"
  /\ \/ /\ Stored(smtp[x].user, smtp[x].key, smtp[x].row)
        /\ Session(x, IF smtp[x].to > 1 THEN [smtp[x] EXCEPT !.to = @ - 1]
                      ELSE Cleared(x))
     \/ DBMayFail /\ Session(x, Cleared(x)) /\ UNCHANGED messages
  /\ UNCHANGED <<key, domain, call, told>>

\* QUIT or a lost connection; the next one is a session of its own.
Logout(x) ==
  /\ smtp[x] # Open
  /\ Session(x, Open)
  /\ UNCHANGED <<tables, call, told>>

-----------------------------------------------------------------------------
(***************************************************************************)
(* What others do: keys expire, and the domain's handlers work.            *)
(***************************************************************************)

Expire(k) ==
  /\ key[k].st = "live"
  /\ key' = [key EXCEPT ![k].st = "late"]
  /\ UNCHANGED <<domain, call, smtp, messages, told>>

Present == { i \in Rows : domain[i].st \in {"pending", "verified"} }

CreateDomain(i, u) ==
  /\ domain[i].st = "new"
  /\ Present = {}
  /\ domain' = [domain EXCEPT ![i] = [st |-> "pending", user |-> u]]
  /\ UNCHANGED <<key, call, smtp, messages, told>>

\* A verdict, a deletion, or a deleted row that a late verdict brings back.
ChangeDomain(i, st) ==
  /\ domain[i].st # "new"
  /\ st # "gone" => Present \subseteq {i}
  /\ domain' = [domain EXCEPT ![i].st = st]
  /\ UNCHANGED <<key, call, smtp, messages, told>>

Restart ==
  /\ call' = [c \in Callers |-> Idle]
  /\ smtp' = [x \in Clients |-> Open]
  /\ told' = [u \in Users |-> None]
  /\ UNCHANGED tables

HandlerNext(c) ==
  \/ \E pc \in Handlers : \/ \E u \in Users : ByLogin(c, u, pc)
                          \/ \E k \in Keys : APIKeyAuth(c, k, pc)
  \/ \E pc \in {"default", "create", "unenroll"} : Fails(c, pc)
  \/ Count(c) \/ UnenrollDelivery(c)
  \/ \E k \in Keys : EnrollDelivery(c, k) \/ CreateAPIKey(c, k)

SessionNext(x) ==
  \/ \E k \in Keys : Auth(x, k)
  \/ Mail(x) \/ Rcpt(x) \/ Reset(x)
  \/ \E i \in Rows : Data(x, i)
  \/ DataRefused(x) \/ StoreOne(x) \/ Logout(x)

Next ==
  \/ \E c \in Callers : HandlerNext(c)
  \/ \E x \in Clients : SessionNext(x)
  \/ \E k \in Keys : Expire(k)
  \/ \E i \in Rows : \/ \E u \in Users : CreateDomain(i, u)
                     \/ \E st \in {"pending", "verified", "gone"} :
                          ChangeDomain(i, st)
  \/ Restart

Spec == Init /\ [][Next]_vars

-----------------------------------------------------------------------------
KeyType ==
  {[st |-> "new"]}
  \cup [st : {"live", "late"}, user : Users, solo : BOOLEAN]
  \cup [st : {"gone"}, user : Users]
DomainType ==
  {[st |-> "new"]} \cup [st : {"pending", "verified", "gone"}, user : Users]
CallType ==
  {Idle}
  \cup [pc : Handlers, user : Users, login : BOOLEAN, alone : BOOLEAN,
        solo : {FALSE}]
  \cup [pc : {"default"}, user : Users, login : BOOLEAN, alone : BOOLEAN,
        solo : BOOLEAN]
SmtpType ==
  [pc : {"open"}, user : Users \cup {None}, key : Keys \cup {None},
   from : BOOLEAN, to : 0 .. MaxRcpt]
  \cup [pc : {"store"}, user : Users, key : Keys, to : 1 .. MaxRcpt, row : Rows]

TypeOK ==
  /\ key \in [Keys -> KeyType]
  /\ domain \in [Rows -> DomainType]
  /\ call \in [Callers -> CallType]
  /\ smtp \in [Clients -> SmtpType]
  /\ \A x \in Clients : smtp[x].user = None <=> smtp[x].key = None
  /\ messages \subseteq [user : Users, key : Keys, row : Rows]
  /\ told \in [Users -> BOOLEAN \cup {None}]

\* "a tenant's key can only send from a domain that tenant owns — even if a
\* different tenant has the same domain verified" (relay.go:27-29): whatever
\* happens to keys and domains between AUTH, MAIL, DATA and the inserts, the
\* key, the domain and the message belong to one user.
MailIsItsTenants ==
  \A m \in messages :
    domain[m.row].user = m.user /\ key[m.key].user = m.user

\* "Idempotent" (enroll.go:19), as far as it goes: a user with a key that an
\* enrolment made solo gets no second one, whoever enrols or makes and revokes
\* keys meanwhile.  The others come of an enrolment that found another between
\* count and insert, or whose count failed.
EnrolledOnce == \A u \in Users : \A j, k \in SoloKeys(u) : j = k

\* Once the handlers of a user are done and the last of them worked alone, its
\* answer is what InternalTenantStatus says.
EnabledAgrees ==
  \A u \in Users :
    AtWork(u) = {} /\ told[u] # None => (told[u] <=> KeysOf(u) # {})

\* "Revokes every api_key for this user" (enroll.go:57): a user whose keys are
\* revoked or expired, and who has nothing at work, is out.  No request, SMTP
\* session or message of theirs comes up, until somebody logs in as them.
Out(u) == /\ \A k \in KeysOf(u) : key[k].st = "late"
          /\ AtWork(u) = {}
          /\ \A x \in Clients : smtp[x].user # u
MailOf(u) == { m \in messages : m.user = u }
OutStaysOut ==
  [][ \A u \in Users :
        Out(u) => \/ Out(u)' /\ MailOf(u)' = MailOf(u)
                  \/ \E c \in Callers : call'[c].pc # "idle" /\ call'[c].user = u
                                        /\ call'[c].login ]_vars

-----------------------------------------------------------------------------
\* The promise to tenants: module Tenancy.

Standing == [k \in Keys |-> CASE key[k].st = "new"  -> "unmade"
                              [] key[k].st = "live" -> "good"
                              [] OTHER              -> "dead"]
Holder   == [k \in Keys |-> IF key[k].st = "new" THEN None ELSE key[k].user]
Guest    == [c \in Callers |-> IF At(c, "idle") THEN None ELSE call[c].user]
Came     == [c \in Callers |-> IF At(c, "idle") THEN "out"
                               ELSE IF call[c].login THEN "login" ELSE "key"]
Account  == [x \in Clients |-> smtp[x].user]
Badge    == [x \in Clients |-> smtp[x].key]
SendsFor == [x \in Clients |-> IF smtp[x].pc = "store" THEN smtp[x].row
                               ELSE None]
Owner    == [i \in Rows |-> IF domain[i].st = "new" THEN None
                            ELSE domain[i].user]
Verified == { i \in Rows : domain[i].st = "verified" }

Tenancy == INSTANCE Tenancy WITH
             standing <- Standing, holder   <- Holder,   guest  <- Guest,
             came     <- Came,     account  <- Account,  badge  <- Badge,
             sender   <- SendsFor, owner    <- Owner, verified <- Verified,
             mail     <- messages

\* Who acts for a tenant came in with its login or with a key that was good
\* then, and mail is for a row that was the tenant's, and verified, when the
\* session asked, whatever handlers, sessions, expiries, deletions and restarts
\* do in between: every step is one of Tenancy, or none that it shows.
ImplementsTenancy == Tenancy!Spec
=============================================================================
