------------------------------- MODULE Logins -------------------------------
(***************************************************************************)
(* Who a request comes from: the OAuth login and its sessions              *)
(* (internal/handlers/auth.go) and the cache of accounts' tokens           *)
(* (internal/handlers/cat_token.go), the parts of WithAuth                 *)
(* (internal/handlers/helpers.go) that have state.  All of it is in the    *)
(* memory of the process.                                                  *)
(*                                                                         *)
(* States and session tokens are random and never made twice.  The age of  *)
(* a state or a session is one bit, "late"; cache entries and requests to  *)
(* accounts are timed in ticks.  What a session or token says of its user  *)
(* never changes, so a credential stands for its user.                     *)
(***************************************************************************)
EXTENDS Naturals

CONSTANTS
  States,    \* OAuth states that may be made
  Sessions,  \* session tokens that may be made
  Tokens,    \* cat_ tokens that accounts has given out
  Requests,  \* request goroutines
  TTL,       \* ticks a cache entry is good for: 60 s
  Timeout    \* ticks a request to accounts may take: 5 s

ASSUME LoginsAssumption ==
  /\ TTL \in Nat /\ Timeout \in Nat
  /\ Sessions \cap Tokens = {}

VARIABLES
  state,    \* "new", "live", "late" (over ten minutes old), "gone"
  session,  \* the same for a session (30 days), and the state it came from
  cache,    \* ticks in which the entry of a token is still good, counting
            \* this one, within the last of which it ends; 0: no entry
  revoked,  \* ticks since accounts revoked a token; NotYet before
  caller    \* request goroutines: pc, and the credential they bring

loginVars == <<state, session, cache, revoked, caller>>

\* Time since a revocation is counted to one tick past the bound below.
Grace  == TTL + Timeout
NotYet == Grace + 2

AtRest             == [pc |-> "idle"]
CallerAt(c, pc)    == caller[c].pc = pc
CallerTurns(c, to) == caller' = [caller EXCEPT ![c] = to]
In(c, cred)        == CallerAt(c, "in") /\ caller[c].cred = cred
Enter(c, cred)     == CallerTurns(c, [pc |-> "in", cred |-> cred])
Valid(t)           == revoked[t] = NotYet

LoginInit ==
  /\ state = [x \in States |-> "new"]
  /\ session = [s \in Sessions |-> [age |-> "new"]]
  /\ cache = [t \in Tokens |-> 0]
  /\ revoked = [t \in Tokens |-> NotYet]
  /\ caller = [c \in Requests |-> AtRest]

-----------------------------------------------------------------------------
(***************************************************************************)
(* The OAuth login.                                                        *)
(***************************************************************************)

\* LoginRedirect makes a state and sweeps the late ones, under the lock.
LoginRedirect(x) ==
  /\ state[x] = "new"
  /\ state' = [y \in States |-> IF y = x THEN "live"
                                ELSE IF state[y] = "late" THEN "gone"
                                ELSE state[y]]
  /\ UNCHANGED <<session, cache, revoked, caller>>

\* Mutant: the state is deleted when the login has worked.
CallbackReads(c, x) ==
  /\ CallerAt(c, "idle")
  /\ state[x] = "live"
  /\ CallerTurns(c, [pc |-> "exchange", state |-> x])
  /\ UNCHANGED <<state, session, cache, revoked>>

\* AuthCallback takes the state out of the map before it does anything else.
Callback(c, x) ==
  /\ CallerAt(c, "idle")
  /\ state[x] \in {"live", "late"}
  /\ state' = [state EXCEPT ![x] = "gone"]
  /\ IF state[x] = "live" THEN CallerTurns(c, [pc |-> "exchange", state |-> x])
     ELSE UNCHANGED caller
  /\ UNCHANGED <<session, cache, revoked>>

\* The code was exchanged and the user's data fetched.
Login(c, s) ==
  /\ CallerAt(c, "exchange")
  /\ session[s].age = "new"
  /\ session' = [session EXCEPT ![s] = [age |-> "live",
                                        from |-> caller[c].state]]
  /\ CallerTurns(c, AtRest)
  /\ UNCHANGED <<state, cache, revoked>>

LoginFails(c) ==
  /\ CallerAt(c, "exchange")
  /\ CallerTurns(c, AtRest)
  /\ UNCHANGED <<state, session, cache, revoked>>

Made(s)     == session[s].age # "new"
Aged(s, to) == session' = [session EXCEPT ![s].age = to]

\* Mutant: the session is found whatever its age.
BySessionOfAnyAge(c, s) ==
  /\ CallerAt(c, "idle")
  /\ session[s].age \in {"live", "late"}
  /\ Enter(c, s)
  /\ UNCHANGED <<state, session, cache, revoked>>

AuthLogout(s) ==
  /\ session[s].age \in {"live", "late"}
  /\ Aged(s, "gone")
  /\ UNCHANGED <<state, cache, revoked, caller>>

BySession(c, s) ==
  /\ CallerAt(c, "idle")
  /\ session[s].age = "live"
  /\ Enter(c, s)
  /\ UNCHANGED <<state, session, cache, revoked>>

-----------------------------------------------------------------------------
(***************************************************************************)
(* validateCatToken: the cache, a request to accounts, the cache again.    *)
(***************************************************************************)

\* Mutant: a hit keeps the entry alive.
CacheHitRenews(c, t) ==
  /\ CallerAt(c, "idle")
  /\ cache[t] > 0
  /\ Enter(c, t)
  /\ cache' = [cache EXCEPT ![t] = TTL + 1]
  /\ UNCHANGED <<state, session, revoked>>

CacheHit(c, t) ==
  /\ CallerAt(c, "idle")
  /\ cache[t] > 0
  /\ Enter(c, t)
  /\ UNCHANGED <<state, session, cache, revoked>>

CacheMiss(c, t) ==
  /\ CallerAt(c, "idle")
  /\ cache[t] <= 1
  /\ CallerTurns(c, [pc |-> "ask", token |-> t, left |-> Timeout])
  /\ UNCHANGED <<state, session, cache, revoked>>

\* Accounts looks at the token; its answer is on the way.
AccountsMe(c) ==
  /\ CallerAt(c, "ask")
  /\ Valid(caller[c].token)
  /\ CallerTurns(c, [caller[c] EXCEPT !.pc = "answer"])
  /\ UNCHANGED <<state, session, cache, revoked>>

\* Any other status, no answer in time, or one that is not understood.
AskFails(c) ==
  /\ caller[c].pc \in {"ask", "answer"}
  /\ CallerTurns(c, AtRest)
  /\ UNCHANGED <<state, session, cache, revoked>>

\* The answer has been read, within the time limit of the client.
Store(c) ==
  /\ CallerAt(c, "answer")
  /\ cache' = [cache EXCEPT ![caller[c].token] = TTL + 1]
  /\ Enter(c, caller[c].token)
  /\ UNCHANGED <<state, session, revoked>>

Done(c) ==
  /\ CallerAt(c, "in")
  /\ CallerTurns(c, AtRest)
  /\ UNCHANGED <<state, session, cache, revoked>>

-----------------------------------------------------------------------------
(***************************************************************************)
(* Time, accounts, and the end of the process.                             *)
(***************************************************************************)

Revoke(t) ==
  /\ Valid(t)
  /\ revoked' = [revoked EXCEPT ![t] = 0]
  /\ UNCHANGED <<state, session, cache, caller>>

Waiting(c) == caller[c].pc \in {"ask", "answer"}

\* Mutant: the HTTP client has no time limit.
NoLimit == TRUE

\* The HTTP client gives up when its time is over.
InTime == \A c \in Requests : Waiting(c) => caller[c].left > 0

\* A tick is longer than a goroutine needs to go on with an answer it has.
Tick ==
  /\ InTime
  /\ cache' = [t \in Tokens |-> IF cache[t] > 0 THEN cache[t] - 1 ELSE 0]
  /\ revoked' = [t \in Tokens |-> IF revoked[t] <= Grace THEN revoked[t] + 1
                                  ELSE revoked[t]]
  /\ caller' = [c \in Requests |-> IF Waiting(c)
                                   THEN [caller[c] EXCEPT !.left = @ - 1]
                                   ELSE caller[c]]
  /\ UNCHANGED <<state, session>>

StateAges(x) ==
  /\ state[x] = "live"
  /\ state' = [state EXCEPT ![x] = "late"]
  /\ UNCHANGED <<session, cache, revoked, caller>>

SessionAges(s) ==
  /\ session[s].age = "live"
  /\ Aged(s, "late")
  /\ UNCHANGED <<state, cache, revoked, caller>>

MemoryLost ==
  /\ state' = [x \in States |-> IF state[x] = "new" THEN "new" ELSE "gone"]
  /\ session' = [s \in Sessions |->
                   IF Made(s) THEN [session[s] EXCEPT !.age = "gone"]
                   ELSE session[s]]
  /\ cache' = [t \in Tokens |-> 0]
  /\ caller' = [c \in Requests |-> AtRest]
  /\ UNCHANGED revoked

LoginNext ==
  \/ \E c \in Requests :
       \/ \E x \in States : Callback(c, x)
       \/ \E s \in Sessions : Login(c, s) \/ BySession(c, s)
       \/ \E t \in Tokens : CacheHit(c, t) \/ CacheMiss(c, t)
       \/ LoginFails(c) \/ AccountsMe(c) \/ AskFails(c) \/ Store(c) \/ Done(c)
  \/ \E x \in States : LoginRedirect(x) \/ StateAges(x)
  \/ \E s \in Sessions : AuthLogout(s) \/ SessionAges(s)
  \/ \E t \in Tokens : Revoke(t)
  \/ Tick \/ MemoryLost

LoginSpec == LoginInit /\ [][LoginNext]_loginVars

-----------------------------------------------------------------------------
CallerType ==
  {AtRest}
  \cup [pc : {"exchange"}, state : States]
  \cup [pc : {"ask", "answer"}, token : Tokens, left : 0 .. Timeout]
  \cup [pc : {"in"}, cred : Sessions \cup Tokens]

LoginTypeOK ==
  /\ state \in [States -> {"new", "live", "late", "gone"}]
  /\ session \in [Sessions -> {[age |-> "new"]}
                    \cup [age : {"live", "late", "gone"}, from : States]]
  /\ cache \in [Tokens -> 0 .. TTL + 1]
  /\ revoked \in [Tokens -> 0 .. NotYet]
  /\ caller \in [Requests -> CallerType]

\* The state protects the login only if it works once: however callbacks that
\* bring the same state race, at most one of them makes a session, and none
\* can after it.
StateSpentOnce ==
  \A s \in Sessions : Made(s) =>
    /\ state[session[s].from] = "gone"
    /\ \A r \in Sessions : Made(r) /\ session[r].from = session[s].from => r = s
    /\ \A c \in Requests :
         CallerAt(c, "exchange") => caller[c].state # session[s].from

\* "there's no invalidation on logout because a) the window is small"
\* (cat_token.go:24): a revoked token is good for the life of a cache entry
\* and the time accounts' last answer took, and never after, however often it
\* is used.
StaleHitsAreBounded ==
  [][ \A c \in Requests, t \in Tokens :
        ~In(c, t) /\ In(c, t)' => Valid(t) \/ revoked[t] <= Grace ]_loginVars

-----------------------------------------------------------------------------
\* The promise of the OAuth login: module OneTimeLogin.

Exchanging(x) ==
  \E c \in Requests : CallerAt(c, "exchange") /\ caller[c].state = x

Ticket == [x \in States |-> CASE state[x] = "new"  -> "unissued"
                              [] state[x] = "live" -> "issued"
                              [] OTHER -> IF Exchanging(x) THEN "redeeming"
                                          ELSE "spent"]
Door   == [s \in Sessions |-> CASE session[s].age = "new"  -> "none"
                                [] session[s].age = "live" -> "open"
                                [] OTHER                   -> "ended"]
Inside == { p \in Requests \X Sessions : In(p[1], p[2]) }

Promise == INSTANCE OneTimeLogin WITH
             ticket <- Ticket, door <- Door, inside <- Inside

\* A state opens one session at most and is worth nothing afterwards, and a
\* session that has ended lets nobody in, however redirects, callbacks,
\* logouts, late requests and restarts interleave: every step is one of
\* OneTimeLogin, or none that it shows.
ImplementsOneTimeLogin == Promise!Spec
=============================================================================
