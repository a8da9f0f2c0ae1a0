---------------------------- MODULE LoginsProofs ----------------------------
(***************************************************************************)
(* What holds of logins and of the token cache for any number of states,   *)
(* sessions, tokens and requests, and any time limits.                     *)
(***************************************************************************)
EXTENDS Logins, TLAPS

USE DEF loginVars

-----------------------------------------------------------------------------
(***************************************************************************)
(* Types.  The one that could fail is that of the time left to a request   *)
(* to accounts: the client gives up before it is over.                     *)
(***************************************************************************)

\* A request goroutine goes on to a state of its type.
LEMMA TurnsOK ==
  ASSUME LoginTypeOK, NEW c \in Requests, NEW to \in CallerType,
         CallerTurns(c, to)
  PROVE  caller' \in [Requests -> CallerType]
BY DEF LoginTypeOK, CallerTurns

LEMMA AtRestOK == AtRest \in CallerType
BY DEF CallerType

\* What a goroutine that waits, or exchanges a code, knows.
LEMMA CallerFields ==
  ASSUME LoginTypeOK, NEW c \in Requests
  PROVE  /\ CallerAt(c, "exchange") => caller[c].state \in States
         /\ Waiting(c) => /\ caller[c].token \in Tokens
                          /\ caller[c].left \in 0 .. Timeout
                          /\ caller[c] = [pc |-> caller[c].pc,
                                          token |-> caller[c].token,
                                          left |-> caller[c].left]
<1>1. caller[c] \in CallerType
  BY DEF LoginTypeOK
<1>2. CASE caller[c] = AtRest
  BY <1>2 DEF CallerAt, Waiting, AtRest
<1>3. CASE caller[c] \in [pc : {"exchange"}, state : States]
  BY <1>3 DEF CallerAt, Waiting
<1>4. CASE caller[c] \in [pc : {"ask", "answer"}, token : Tokens,
                          left : 0 .. Timeout]
  BY <1>4 DEF CallerAt, Waiting
<1>5. CASE caller[c] \in [pc : {"in"}, cred : Sessions \cup Tokens]
  BY <1>5 DEF CallerAt, Waiting
<1> QED
  BY <1>1, <1>2, <1>3, <1>4, <1>5 DEF CallerType

LEMMA InitTypes == LoginInit => LoginTypeOK
BY AtRestOK, LoginsAssumption DEF LoginInit, LoginTypeOK, NotYet, Grace

\* A session keeps the state it came from.
LEMMA AgedOK ==
  ASSUME LoginTypeOK, NEW s \in Sessions, NEW to \in {"late", "gone"},
         Made(s), Aged(s, to)
  PROVE  /\ session' \in [Sessions -> {[age |-> "new"]}
                            \cup [age : {"live", "late", "gone"}, from : States]]
         /\ session'[s].from = session[s].from
         /\ session'[s].age = to
         /\ \A r \in Sessions \ {s} : session'[r] = session[r]
BY DEF LoginTypeOK, Made, Aged

LEMMA NextTypes ==
  ASSUME LoginTypeOK, [LoginNext]_loginVars
  PROVE  LoginTypeOK'
<1> USE AtRestOK DEF LoginTypeOK
<1>1. CASE UNCHANGED loginVars
  BY <1>1
<1>2. ASSUME NEW c \in Requests, NEW x \in States, Callback(c, x)
      PROVE  LoginTypeOK'
  <2>1. [pc |-> "exchange", state |-> x] \in CallerType
    BY DEF CallerType
  <2>2. caller' \in [Requests -> CallerType]
    BY <1>2, <2>1, TurnsOK DEF Callback
  <2> QED
    BY <1>2, <2>2 DEF Callback
<1>3. ASSUME NEW c \in Requests, NEW s \in Sessions, Login(c, s)
      PROVE  LoginTypeOK'
  <2>1. caller' \in [Requests -> CallerType]
    BY <1>3, TurnsOK, AtRestOK DEF Login
  <2>2. caller[c].state \in States
    BY <1>3, CallerFields DEF Login
  <2> QED
    BY <1>3, <2>1, <2>2 DEF Login
<1>4. ASSUME NEW c \in Requests, NEW s \in Sessions, BySession(c, s)
      PROVE  LoginTypeOK'
  <2>1. [pc |-> "in", cred |-> s] \in CallerType
    BY DEF CallerType
  <2>2. caller' \in [Requests -> CallerType]
    BY <1>4, <2>1, TurnsOK DEF BySession, Enter
  <2> QED
    BY <1>4, <2>2 DEF BySession
<1>5. ASSUME NEW c \in Requests, NEW t \in Tokens,
             CacheHit(c, t) \/ CacheMiss(c, t)
      PROVE  LoginTypeOK'
  <2>1. /\ [pc |-> "in", cred |-> t] \in CallerType
        /\ [pc |-> "ask", token |-> t, left |-> Timeout] \in CallerType
    BY LoginsAssumption DEF CallerType
  <2>2. caller' \in [Requests -> CallerType]
    BY <1>5, <2>1, TurnsOK DEF CacheHit, CacheMiss, Enter
  <2> QED
    BY <1>5, <2>2 DEF CacheHit, CacheMiss
<1>6. ASSUME NEW c \in Requests, LoginFails(c) \/ AskFails(c) \/ Done(c)
      PROVE  LoginTypeOK'
  <2>1. caller' \in [Requests -> CallerType]
    BY <1>6, TurnsOK, AtRestOK DEF LoginFails, AskFails, Done
  <2> QED
    BY <1>6, <2>1 DEF LoginFails, AskFails, Done
<1>7. ASSUME NEW c \in Requests, AccountsMe(c)
      PROVE  LoginTypeOK'
  <2>1. [caller[c] EXCEPT !.pc = "answer"] \in CallerType
    BY <1>7, CallerFields DEF AccountsMe, CallerAt, Waiting, CallerType
  <2>2. caller' \in [Requests -> CallerType]
    BY <1>7, <2>1, TurnsOK DEF AccountsMe
  <2> QED
    BY <1>7, <2>2 DEF AccountsMe
<1>8. ASSUME NEW c \in Requests, Store(c)
      PROVE  LoginTypeOK'
  <2>1. caller[c].token \in Tokens
    BY <1>8, CallerFields DEF Store, CallerAt, Waiting
  <2>2. [pc |-> "in", cred |-> caller[c].token] \in CallerType
    BY <2>1 DEF CallerType
  <2>3. caller' \in [Requests -> CallerType]
    BY <1>8, <2>2, TurnsOK DEF Store, Enter
  <2> QED
    BY <1>8, <2>1, <2>3, LoginsAssumption DEF Store
<1>9. ASSUME NEW x \in States, LoginRedirect(x) \/ StateAges(x)
      PROVE  LoginTypeOK'
  BY <1>9 DEF LoginRedirect, StateAges
<1>10. ASSUME NEW s \in Sessions, AuthLogout(s) \/ SessionAges(s)
       PROVE  LoginTypeOK'
  BY <1>10, AgedOK DEF AuthLogout, SessionAges, Made
<1>11. ASSUME NEW t \in Tokens, Revoke(t)
       PROVE  LoginTypeOK'
  BY <1>11, LoginsAssumption DEF Revoke, NotYet, Grace
<1>12. CASE Tick
  <2>1. ASSUME NEW c \in Requests PROVE caller'[c] \in CallerType
    <3>1. CASE Waiting(c)
      <4>1. caller[c].left - 1 \in 0 .. Timeout
        BY <1>12, <3>1, CallerFields, LoginsAssumption DEF Tick, InTime
      <4> QED
        BY <1>12, <3>1, <4>1, CallerFields DEF Tick, CallerType, Waiting
    <3>2. CASE ~Waiting(c)
      BY <1>12, <3>2 DEF Tick
    <3> QED
      BY <3>1, <3>2
  <2>2. caller' \in [Requests -> CallerType]
    BY <1>12, <2>1 DEF Tick
  <2>3. cache' \in [Tokens -> 0 .. TTL + 1]
    BY <1>12, LoginsAssumption DEF Tick
  <2>4. revoked' \in [Tokens -> 0 .. NotYet]
    BY <1>12, LoginsAssumption DEF Tick, NotYet, Grace
  <2> QED
    BY <1>12, <2>2, <2>3, <2>4 DEF Tick
<1>13. CASE MemoryLost
  <2>1. session' \in [Sessions -> {[age |-> "new"]}
                        \cup [age : {"live", "late", "gone"}, from : States]]
    BY <1>13 DEF MemoryLost, Made
  <2> QED
    BY <1>13, <2>1, LoginsAssumption DEF MemoryLost
<1> QED
  BY <1>1, <1>2, <1>3, <1>4, <1>5, <1>6, <1>7, <1>8, <1>9, <1>10, <1>11,
     <1>12, <1>13
     DEF LoginNext

\* Every variable keeps its type, and no request to accounts outlasts the time
\* limit of the client.
THEOREM LoginTypes == LoginSpec => []LoginTypeOK
<1>1. LoginInit => LoginTypeOK
  BY InitTypes
<1>2. LoginTypeOK /\ [LoginNext]_loginVars => LoginTypeOK'
  BY NextTypes
<1> QED
  BY <1>1, <1>2, PTL DEF LoginSpec

-----------------------------------------------------------------------------
(***************************************************************************)
(* The cache.  A cached entry, or an answer on its way, is only as old as  *)
(* the token was still good when accounts gave the answer.                 *)
(***************************************************************************)

\* What one goroutine does to the states of the goroutines.
LEMMA OneMoves ==
  ASSUME LoginTypeOK, NEW d \in Requests,
         \/ \E x \in States : Callback(d, x)
         \/ \E s \in Sessions : Login(d, s) \/ BySession(d, s)
         \/ \E t \in Tokens : CacheMiss(d, t)
         \/ LoginFails(d) \/ AskFails(d) \/ Done(d)
  PROVE  /\ ~CallerAt(d, "answer")' \/ caller'[d] = caller[d]
         /\ \A t \in Tokens : In(d, t)' =>
              \/ In(d, t)
              \/ \E s \in Sessions : BySession(d, s)
         /\ \A c \in Requests \ {d} : caller'[c] = caller[c]
<1>1. ASSUME NEW x \in States, Callback(d, x)
      PROVE  \/ caller'[d].pc = "exchange"
             \/ caller'[d] = caller[d]
  BY <1>1 DEF Callback, CallerTurns, LoginTypeOK
<1>2. ASSUME NEW t \in Tokens, CacheMiss(d, t)
      PROVE  caller'[d].pc = "ask"
  BY <1>2 DEF CacheMiss, CallerTurns, LoginTypeOK
<1>3. ASSUME NEW s \in Sessions, BySession(d, s)
      PROVE  caller'[d].pc = "in"
  BY <1>3 DEF BySession, Enter, CallerTurns, LoginTypeOK
<1>4. ASSUME \/ \E s \in Sessions : Login(d, s)
             \/ LoginFails(d) \/ AskFails(d) \/ Done(d)
      PROVE  caller'[d].pc = "idle"
  BY <1>4 DEF Login, LoginFails, AskFails, Done, CallerTurns, AtRest, LoginTypeOK
<1>5. \A c \in Requests \ {d} : caller'[c] = caller[c]
  BY DEF Callback, Login, BySession, CacheMiss, LoginFails, AskFails, Done,
         CallerTurns, Enter, LoginTypeOK
<1> QED
  BY <1>1, <1>2, <1>3, <1>4, <1>5 DEF In, CallerAt

\* The entry of a token ends within the grace of its revocation.
EntryEnds(t) ==
  cache[t] > 0 => Valid(t) \/ cache[t] - 1 + revoked[t] <= Grace

\* An answer that is read was given no longer ago than a request may take.
AnswerIsFresh(c) ==
  CallerAt(c, "answer") => \/ Valid(caller[c].token)
                     \/ caller[c].left + revoked[caller[c].token] <= Timeout

Fresh == /\ \A t \in Tokens : EntryEnds(t)
         /\ \A c \in Requests : AnswerIsFresh(c)

LEMMA Numbers ==
  ASSUME LoginTypeOK, NEW t \in Tokens
  PROVE  /\ cache[t] \in Nat /\ revoked[t] \in Nat
         /\ Grace \in Nat /\ TTL \in Nat /\ Timeout \in Nat
         /\ Grace = TTL + Timeout /\ NotYet = Grace + 2
BY LoginsAssumption DEF LoginTypeOK, NotYet, Grace

LEMMA NextFresh ==
  ASSUME LoginTypeOK, Fresh, [LoginNext]_loginVars
  PROVE  Fresh'
<1>1. CASE UNCHANGED <<cache, revoked>> /\ ~Tick
  <2>1. \A t \in Tokens : EntryEnds(t)'
    BY <1>1 DEF Fresh, EntryEnds, Valid
  <2>2. ASSUME NEW c \in Requests, CallerAt(c, "answer")'
        PROVE  AnswerIsFresh(c)'
    <3>1. CASE UNCHANGED caller[c]
      BY <1>1, <3>1 DEF Fresh, AnswerIsFresh, CallerAt, Valid
    <3>2. CASE AccountsMe(c)
      BY <1>1, <3>2 DEF AccountsMe, AnswerIsFresh, CallerTurns, Valid, LoginTypeOK
    <3>3. ASSUME NEW d \in Requests,
                 \/ \E x \in States : Callback(d, x)
                 \/ \E s \in Sessions : Login(d, s) \/ BySession(d, s)
                 \/ \E t \in Tokens : CacheMiss(d, t)
                 \/ LoginFails(d) \/ AskFails(d) \/ Done(d)
          PROVE  caller'[c] = caller[c]
      BY <2>2, <3>3, OneMoves
    <3>4. ASSUME NEW d \in Requests,
                 \/ \E t \in Tokens : CacheHit(d, t)
                 \/ Store(d)
          PROVE  caller'[c] = caller[c]
      BY <2>2, <3>4 DEF CacheHit, Store, Enter, CallerTurns, CallerAt, LoginTypeOK
    <3>5. ASSUME NEW d \in Requests \ {c}, AccountsMe(d)
          PROVE  caller'[c] = caller[c]
      BY <3>5 DEF AccountsMe, CallerTurns, LoginTypeOK
    <3>6. CASE MemoryLost
      BY <2>2, <3>6 DEF MemoryLost, CallerAt, AtRest
    <3> QED
      BY <1>1, <3>1, <3>2, <3>3, <3>4, <3>5, <3>6
         DEF LoginNext, LoginRedirect, StateAges, AuthLogout, SessionAges, Revoke
  <2> QED
    BY <2>1, <2>2 DEF Fresh, AnswerIsFresh
<1>2. ASSUME NEW c \in Requests, Store(c)
      PROVE  Fresh'
  <2> DEFINE u == caller[c].token
  <2>1. u \in Tokens /\ caller[c].left \in 0 .. Timeout
    BY <1>2, CallerFields DEF Store, CallerAt, Waiting
  <2>2. Valid(u) \/ revoked[u] <= Timeout
    BY <1>2, <2>1, Numbers DEF Store, Fresh, AnswerIsFresh
  <2>3. ASSUME NEW t \in Tokens PROVE EntryEnds(t)'
    BY <1>2, <2>1, <2>2, Numbers
       DEF Store, Fresh, EntryEnds, Valid, LoginTypeOK
  <2>4. ASSUME NEW d \in Requests PROVE AnswerIsFresh(d)'
    BY <1>2 DEF Store, Fresh, AnswerIsFresh, Enter, CallerTurns, CallerAt, Valid,
                LoginTypeOK
  <2> QED
    BY <2>3, <2>4 DEF Fresh
<1>3. ASSUME NEW u \in Tokens, Revoke(u)
      PROVE  Fresh'
  <2>1. ASSUME NEW t \in Tokens PROVE EntryEnds(t)'
    BY <1>3, Numbers DEF Revoke, Fresh, EntryEnds, Valid, LoginTypeOK
  <2>2. ASSUME NEW c \in Requests PROVE AnswerIsFresh(c)'
    <3>1. CASE CallerAt(c, "answer")
      BY <1>3, <3>1, Numbers, CallerFields
         DEF Revoke, Fresh, AnswerIsFresh, Valid, LoginTypeOK, Waiting, CallerAt
    <3> QED
      BY <1>3, <3>1 DEF Revoke, AnswerIsFresh, CallerAt
  <2> QED
    BY <2>1, <2>2 DEF Fresh
<1>4. CASE Tick
  <2>1. ASSUME NEW t \in Tokens PROVE EntryEnds(t)'
    BY <1>4, Numbers DEF Tick, Fresh, EntryEnds, Valid, LoginTypeOK
  <2>2. ASSUME NEW c \in Requests, CallerAt(c, "answer")'
        PROVE  AnswerIsFresh(c)'
    <3>1. CallerAt(c, "answer") /\ Waiting(c)
      BY <1>4, <2>2 DEF Tick, CallerAt, Waiting, LoginTypeOK
    <3>2. /\ caller'[c].token = caller[c].token
          /\ caller'[c].left = caller[c].left - 1
      <4>1. caller'[c] = [caller[c] EXCEPT !.left = @ - 1]
        BY <1>4, <3>1 DEF Tick
      <4>2. PICK p, t, left : caller[c] = [pc |-> p, token |-> t, left |-> left]
        BY <3>1, CallerFields
      <4> QED
        BY <4>1, <4>2
    <3>3. caller[c].token \in Tokens /\ caller[c].left \in 0 .. Timeout
      BY <3>1, CallerFields
    <3> QED
      BY <1>4, <3>1, <3>2, <3>3, Numbers
         DEF Tick, Fresh, AnswerIsFresh, Valid, LoginTypeOK
  <2> QED
    BY <2>1, <2>2 DEF Fresh, AnswerIsFresh
<1>5. CASE MemoryLost
  BY <1>5 DEF MemoryLost, Fresh, EntryEnds, AnswerIsFresh, CallerAt, AtRest
<1> QED
  BY <1>1, <1>2, <1>3, <1>4, <1>5
     DEF LoginNext, Callback, Login, BySession, CacheHit, CacheMiss, LoginFails,
         AccountsMe, AskFails, Done, LoginRedirect, StateAges, AuthLogout,
         SessionAges

\* A request comes in with a token by a hit or by an answer.
LEMMA EntryIsBounded ==
  ASSUME LoginTypeOK, Fresh, [LoginNext]_loginVars,
         NEW c \in Requests, NEW t \in Tokens, ~In(c, t), In(c, t)'
  PROVE  Valid(t) \/ revoked[t] <= Grace
<1>1. CASE CacheHit(c, t)
  BY <1>1, Numbers DEF CacheHit, Fresh, EntryEnds
<1>2. CASE Store(c)
  <2>1. caller[c].token = t /\ caller[c].left \in 0 .. Timeout
    BY <1>2, CallerFields
       DEF Store, Enter, CallerTurns, In, CallerAt, Waiting, LoginTypeOK
  <2> QED
    BY <1>2, <2>1, Numbers DEF Store, Fresh, AnswerIsFresh
<1>3. ASSUME NEW s \in Sessions, BySession(c, s)
      PROVE  FALSE
  BY <1>3, LoginsAssumption DEF BySession, Enter, CallerTurns, In, LoginTypeOK
<1>4. caller'[c] # caller[c]
  BY DEF In, CallerAt
<1>5. ~Tick
  <2> SUFFICES ASSUME Tick PROVE FALSE
    OBVIOUS
  <2>1. Waiting(c)
    BY <1>4 DEF Tick
  <2>2. PICK p, u, left : caller[c] = [pc |-> p, token |-> u, left |-> left]
    BY <2>1, CallerFields
  <2>3. caller'[c].pc = p /\ p # "in"
    BY <2>1, <2>2 DEF Tick, Waiting
  <2> QED
    BY <2>3 DEF In, CallerAt
<1>6. ASSUME NEW d \in Requests,
             \/ \E x \in States : Callback(d, x)
             \/ \E s \in Sessions : Login(d, s) \/ BySession(d, s)
             \/ \E u \in Tokens : CacheMiss(d, u)
             \/ LoginFails(d) \/ AskFails(d) \/ Done(d)
      PROVE  FALSE
  BY <1>3, <1>4, <1>6, OneMoves
<1>7. ASSUME NEW d \in Requests, NEW u \in Tokens, CacheHit(d, u)
      PROVE  CacheHit(c, t)
  BY <1>4, <1>7 DEF CacheHit, Enter, CallerTurns, In, CallerAt, LoginTypeOK
<1>8. ASSUME NEW d \in Requests, Store(d)
      PROVE  Store(c)
  BY <1>4, <1>8 DEF Store, Enter, CallerTurns, LoginTypeOK
<1>9. ASSUME NEW d \in Requests, AccountsMe(d)
      PROVE  FALSE
  <2>1. d = c
    BY <1>4, <1>9 DEF AccountsMe, CallerTurns, LoginTypeOK
  <2>2. caller'[c].pc = "answer"
    BY <1>9, <2>1 DEF AccountsMe, CallerTurns, LoginTypeOK
  <2> QED
    BY <2>2 DEF In, CallerAt
<1>10. CASE MemoryLost
  BY <1>10 DEF MemoryLost, AtRest, In, CallerAt
<1> QED
  BY <1>1, <1>2, <1>4, <1>5, <1>6, <1>7, <1>8, <1>9, <1>10
     DEF LoginNext, LoginRedirect, StateAges, AuthLogout, SessionAges, Revoke

\* A revoked token is good for the life of a cache entry and the time limit of
\* one request, however often it is used and whatever else goes on.
THEOREM StaleHitsEnd == LoginSpec => StaleHitsAreBounded
<1>1. LoginInit => Fresh
  BY LoginsAssumption DEF LoginInit, Fresh, EntryEnds, AnswerIsFresh, CallerAt, AtRest
<1>2. LoginTypeOK /\ Fresh /\ [LoginNext]_loginVars => Fresh'
  BY NextFresh
<1>3. LoginTypeOK /\ Fresh /\ [LoginNext]_loginVars =>
        [ \A c \in Requests, t \in Tokens :
            ~In(c, t) /\ In(c, t)' => Valid(t) \/ revoked[t] <= Grace ]_loginVars
  BY EntryIsBounded
<1>4. LoginSpec => []LoginTypeOK
  BY LoginTypes
<1> QED
  BY <1>1, <1>2, <1>3, <1>4, PTL DEF LoginSpec, StaleHitsAreBounded

-----------------------------------------------------------------------------
(***************************************************************************)
(* States.  A state that left the map for an exchange, or for a session,   *)
(* belongs to that one alone.                                              *)
(***************************************************************************)

\* A goroutine at the exchange holds a state nobody else has.
HeldAlone ==
  \A c \in Requests : CallerAt(c, "exchange") =>
    /\ state[caller[c].state] = "gone"
    /\ \A d \in Requests :
         CallerAt(d, "exchange") /\ caller[d].state = caller[c].state => d = c

LEMMA NextSpentOnce ==
  ASSUME LoginTypeOK, HeldAlone, StateSpentOnce, [LoginNext]_loginVars
  PROVE  (HeldAlone /\ StateSpentOnce)'
<1> DEFINE Kept == \A x \in States : state[x] = "gone" => state'[x] = "gone"
           SameFrom == \A s \in Sessions :
                         (Made(s))' => Made(s) /\ session'[s].from = session[s].from
           FewerAt == \A c \in Requests :
                        CallerAt(c, "exchange")' =>
                          CallerAt(c, "exchange") /\ caller'[c] = caller[c]
<1>1. CASE Kept /\ SameFrom /\ FewerAt
  <2>1. \A s \in Sessions : Made(s) => session[s].from \in States
    BY DEF Made, LoginTypeOK
  <2>2. ASSUME NEW c \in Requests, CallerAt(c, "exchange")'
        PROVE  /\ state'[caller'[c].state] = "gone"
               /\ \A d \in Requests :
                    CallerAt(d, "exchange")' /\ caller'[d].state = caller'[c].state
                      => d = c
    <3>1. CallerAt(c, "exchange") /\ caller'[c] = caller[c]
      BY <1>1, <2>2
    <3>2. state[caller[c].state] = "gone" /\ caller[c].state \in States
      BY <3>1, CallerFields DEF HeldAlone
    <3>3. \A d \in Requests : CallerAt(d, "exchange")' =>
            CallerAt(d, "exchange") /\ caller'[d] = caller[d]
      BY <1>1
    <3> QED
      BY <1>1, <3>1, <3>2, <3>3 DEF HeldAlone
  <2>3. StateSpentOnce'
    BY <1>1, <2>1 DEF StateSpentOnce
  <2>4. HeldAlone'
    BY <2>2 DEF HeldAlone
  <2> QED
    BY <2>3, <2>4
<1>2. ASSUME NEW c \in Requests, NEW x \in States, Callback(c, x)
      PROVE  (HeldAlone /\ StateSpentOnce)'
  <2>1. CASE state[x] = "late"
    <3>1. Kept /\ SameFrom /\ FewerAt
      BY <1>2, <2>1 DEF Callback, LoginTypeOK, Made, CallerAt
    <3> QED
      BY <3>1, <1>1
  <2>2. CASE state[x] = "live"
    <3>1. /\ state'[x] = "gone"
          /\ Kept
          /\ caller'[c] = [pc |-> "exchange", state |-> x]
          /\ \A d \in Requests \ {c} : caller'[d] = caller[d]
          /\ session' = session
      BY <1>2, <2>2 DEF Callback, CallerTurns, LoginTypeOK
    <3>2. \A d \in Requests : CallerAt(d, "exchange") => caller[d].state # x
      BY <2>2 DEF HeldAlone
    <3>3. \A s \in Sessions : Made(s) => /\ session[s].from \in States
                                        /\ session[s].from # x
      BY <2>2 DEF StateSpentOnce, Made, LoginTypeOK
    <3>4. HeldAlone'
      <4>1. ASSUME NEW d \in Requests, CallerAt(d, "exchange")'
            PROVE  state'[caller'[d].state] = "gone"
        <5>1. CASE d = c
          BY <3>1, <5>1
        <5>2. CASE d # c
          <6>1. CallerAt(d, "exchange") /\ caller'[d].state = caller[d].state
            BY <3>1, <4>1, <5>2 DEF CallerAt
          <6>2. caller[d].state \in States /\ state[caller[d].state] = "gone"
            BY <6>1, CallerFields DEF HeldAlone
          <6> QED
            BY <3>1, <6>1, <6>2
        <5> QED
          BY <5>1, <5>2
      <4>2. ASSUME NEW d \in Requests, CallerAt(d, "exchange")',
                   NEW b \in Requests, CallerAt(b, "exchange")',
                   caller'[b].state = caller'[d].state
            PROVE  b = d
        BY <3>1, <3>2, <4>2 DEF HeldAlone, CallerAt
      <4> QED
        BY <4>1, <4>2 DEF HeldAlone
    <3>5. StateSpentOnce'
      BY <3>1, <3>3 DEF StateSpentOnce, Made, CallerAt
    <3> QED
      BY <3>4, <3>5
  <2> QED
    BY <1>2, <2>1, <2>2 DEF Callback
<1>3. ASSUME NEW c \in Requests, NEW s \in Sessions, Login(c, s)
      PROVE  (HeldAlone /\ StateSpentOnce)'
  <2> DEFINE x == caller[c].state
  <2>1. /\ session'[s] = [age |-> "live", from |-> x]
        /\ \A r \in Sessions \ {s} : session'[r] = session[r]
        /\ caller'[c] = AtRest
        /\ \A d \in Requests \ {c} : caller'[d] = caller[d]
        /\ state' = state
        /\ CallerAt(c, "exchange") /\ ~Made(s)
    BY <1>3 DEF Login, CallerTurns, LoginTypeOK, Made
  <2>2. state[x] = "gone"
    BY <2>1 DEF HeldAlone
  <2>3. \A r \in Sessions : Made(r) => session[r].from # x
    BY <2>1 DEF StateSpentOnce
  <2>4. HeldAlone'
    BY <2>1 DEF HeldAlone, CallerAt, AtRest
  <2>5. ASSUME NEW r \in Sessions, Made(r)'
        PROVE  /\ state'[session'[r].from] = "gone"
               /\ \A q \in Sessions :
                    (Made(q))' /\ session'[q].from = session'[r].from => q = r
               /\ \A d \in Requests :
                    CallerAt(d, "exchange")' => caller'[d].state # session'[r].from
    <3>1. CASE r = s
      BY <2>1, <2>2, <2>3, <3>1 DEF HeldAlone, Made, CallerAt, AtRest
    <3>2. CASE r # s
      BY <2>1, <2>3, <2>5, <3>2 DEF StateSpentOnce, Made, CallerAt, AtRest
    <3> QED
      BY <3>1, <3>2
  <2> QED
    BY <2>4, <2>5 DEF StateSpentOnce
<1>4. ASSUME NEW s \in Sessions, AuthLogout(s) \/ SessionAges(s)
      PROVE  (HeldAlone /\ StateSpentOnce)'
  <2>1. Made(s) /\ (Aged(s, "gone") \/ Aged(s, "late"))
    BY <1>4 DEF AuthLogout, SessionAges, Made
  <2>2. SameFrom
    BY <2>1, AgedOK DEF Made
  <2>3. Kept /\ FewerAt
    BY <1>4 DEF AuthLogout, SessionAges, CallerAt
  <2> QED
    BY <1>1, <2>2, <2>3
<1>5. CASE MemoryLost
  <2>1. Kept
    BY <1>5 DEF MemoryLost
  <2>2. SameFrom
    BY <1>5 DEF MemoryLost, Made, LoginTypeOK
  <2>3. FewerAt
    BY <1>5 DEF MemoryLost, CallerAt, AtRest
  <2> QED
    BY <1>1, <2>1, <2>2, <2>3
<1>6. CASE UNCHANGED session /\ Kept /\ FewerAt
  BY <1>1, <1>6 DEF Made
<1>7. ASSUME NEW x \in States, LoginRedirect(x) \/ StateAges(x)
      PROVE  UNCHANGED session /\ Kept /\ FewerAt
  BY <1>7 DEF LoginRedirect, StateAges, CallerAt, LoginTypeOK
<1>8. CASE Tick
  <2>1. FewerAt
    BY <1>8 DEF Tick, CallerAt, Waiting, LoginTypeOK
  <2> QED
    BY <1>6, <1>8, <2>1 DEF Tick
<1>9. ASSUME NEW c \in Requests,
             \/ \E s \in Sessions : BySession(c, s)
             \/ \E t \in Tokens : CacheHit(c, t) \/ CacheMiss(c, t)
             \/ LoginFails(c) \/ AccountsMe(c) \/ AskFails(c) \/ Store(c)
             \/ Done(c)
      PROVE  UNCHANGED session /\ Kept /\ FewerAt
  <2>1. UNCHANGED <<session, state>>
    BY <1>9 DEF BySession, CacheHit, CacheMiss, LoginFails, AccountsMe,
                AskFails, Store, Done
  <2>2. \A d \in Requests \ {c} : caller'[d] = caller[d]
    BY <1>9 DEF BySession, CacheHit, CacheMiss, LoginFails, AccountsMe,
                AskFails, Store, Done, CallerTurns, Enter, LoginTypeOK
  <2>3. caller'[c].pc # "exchange"
    <3>1. CASE AccountsMe(c)
      BY <3>1 DEF AccountsMe, CallerTurns, LoginTypeOK
    <3>2. CASE LoginFails(c) \/ AskFails(c) \/ Done(c)
      BY <3>2 DEF LoginFails, AskFails, Done, CallerTurns, AtRest, LoginTypeOK
    <3>3. CASE \/ \E s \in Sessions : BySession(c, s)
               \/ \E t \in Tokens : CacheHit(c, t) \/ CacheMiss(c, t)
               \/ Store(c)
      BY <3>3 DEF BySession, CacheHit, CacheMiss, Store, CallerTurns, Enter,
                  LoginTypeOK
    <3> QED
      BY <1>9, <3>1, <3>2, <3>3
  <2> QED
    BY <2>1, <2>2, <2>3 DEF CallerAt
<1>10. CASE UNCHANGED loginVars \/ \E t \in Tokens : Revoke(t)
  BY <1>6, <1>10 DEF Revoke, CallerAt
<1> QED
  BY <1>2, <1>3, <1>4, <1>5, <1>6, <1>7, <1>8, <1>9, <1>10 DEF LoginNext

\* However callbacks race, a state makes one session, and none after it.
THEOREM OneSessionPerState == LoginSpec => []StateSpentOnce
<1>1. LoginInit => HeldAlone /\ StateSpentOnce
  BY DEF LoginInit, HeldAlone, StateSpentOnce, Made, CallerAt, AtRest
<1>2. LoginTypeOK /\ HeldAlone /\ StateSpentOnce /\ [LoginNext]_loginVars
        => HeldAlone' /\ StateSpentOnce'
  BY NextSpentOnce
<1>3. LoginSpec => []LoginTypeOK
  BY LoginTypes
<1> QED
  BY <1>1, <1>2, <1>3, PTL DEF LoginSpec

-----------------------------------------------------------------------------
(***************************************************************************)
(* The maps implement OneTimeLogin.                                        *)
(***************************************************************************)

LoginInv == LoginTypeOK /\ HeldAlone

\* Who exchanges which state, and who was let in on which session.
SameCallers ==
  /\ \A x \in States : Exchanging(x)' <=> Exchanging(x)
  /\ \A c \in Requests, s \in Sessions : In(c, s)' <=> In(c, s)

LEMMA CallersStay ==
  ASSUME SameCallers
  PROVE  /\ Inside' = Inside
         /\ state' = state => Ticket' = Ticket
<1>1. Inside' = Inside
  BY DEF SameCallers, Inside
<1>2. state' = state => Ticket' = Ticket
  BY DEF SameCallers, Ticket
<1> QED
  BY <1>1, <1>2

\* A request goes on with no session, and no state to exchange.
LEMMA CallerElsewhere ==
  ASSUME LoginTypeOK, NEW c \in Requests, NEW to, CallerTurns(c, to),
         caller[c].pc # "exchange", to.pc # "exchange",
         caller[c].pc # "in" \/ caller[c].cred \notin Sessions,
         to.pc # "in" \/ to.cred \notin Sessions
  PROVE  SameCallers
<1>1. /\ caller'[c] = to
      /\ \A d \in Requests : d # c => caller'[d] = caller[d]
  BY DEF CallerTurns, LoginTypeOK
<1>2. ASSUME NEW x \in States PROVE Exchanging(x)' <=> Exchanging(x)
  BY <1>1 DEF Exchanging, CallerAt
<1>3. ASSUME NEW d \in Requests, NEW s \in Sessions
      PROVE  In(d, s)' <=> In(d, s)
  BY <1>1 DEF In, CallerAt
<1> QED
  BY <1>2, <1>3 DEF SameCallers

LEMMA SameStep ==
  ASSUME UNCHANGED <<state, session>>, SameCallers
  PROVE  UNCHANGED Promise!login
<1>1. Door' = Door
  BY DEF Door
<1> QED
  BY <1>1, CallersStay DEF Promise!login

\* Nobody exchanges a state that is in the map.
LEMMA NotExchanged ==
  ASSUME LoginInv, NEW x \in States, state[x] # "gone"
  PROVE  ~Exchanging(x)
BY DEF LoginInv, HeldAlone, Exchanging

LEMMA StateSteps ==
  ASSUME LoginInv, NEW x \in States, LoginRedirect(x) \/ StateAges(x)
  PROVE  Promise!Next
<1>0. LoginTypeOK
  BY DEF LoginInv
<1>1. SameCallers /\ Door' = Door
  BY DEF LoginRedirect, StateAges, SameCallers, Exchanging, In, CallerAt, Door
<1>2. CASE LoginRedirect(x)
  <2>1. /\ state[x] = "new" /\ state'[x] = "live"
        /\ \A y \in States : y # x => \/ state'[y] = state[y]
                                      \/ state[y] = "late" /\ state'[y] = "gone"
    BY <1>2 DEF LoginRedirect
  <2>2. Ticket[x] = "unissued" /\ Ticket' = [Ticket EXCEPT ![x] = "issued"]
    BY <1>1, <2>1 DEF Ticket, SameCallers
  <2>3. Promise!Issue(x)
    BY <1>1, <2>2, CallersStay DEF Promise!Issue
  <2> QED
    BY <2>3 DEF Promise!Next
<1>3. CASE StateAges(x)
  <2>1. /\ state[x] = "live" /\ state'[x] = "late"
        /\ \A y \in States : y # x => state'[y] = state[y]
    BY <1>0, <1>3 DEF StateAges, LoginTypeOK
  <2>2. ~Exchanging(x)
    BY <2>1, NotExchanged
  <2>3. Ticket[x] = "issued" /\ Ticket' = [Ticket EXCEPT ![x] = "spent"]
    BY <1>1, <2>1, <2>2 DEF Ticket, SameCallers
  <2>4. Promise!Lapse(x)
    BY <1>1, <2>3, CallersStay DEF Promise!Lapse
  <2> QED
    BY <2>4 DEF Promise!Next
<1> QED
  BY <1>2, <1>3

LEMMA CallbackStep ==
  ASSUME LoginInv, NEW c \in Requests, NEW x \in States, Callback(c, x)
  PROVE  Promise!Next \/ UNCHANGED Promise!login
<1>0. LoginTypeOK /\ caller[c].pc = "idle"
  BY DEF LoginInv, Callback, CallerAt
<1>1. /\ state'[x] = "gone" /\ \A y \in States : y # x => state'[y] = state[y]
      /\ session' = session
  BY <1>0 DEF Callback, LoginTypeOK
<1>2. Door' = Door /\ ~Exchanging(x)
  BY <1>1, NotExchanged DEF Door, Callback
<1>3. CASE state[x] = "late"
  <2>1. SameCallers
    BY <1>3 DEF Callback, SameCallers, Exchanging, In, CallerAt
  <2>2. Ticket' = Ticket
    BY <1>1, <1>3, <2>1 DEF Ticket, SameCallers
  <2> QED
    BY <1>2, <2>1, <2>2, CallersStay DEF Promise!login
<1>4. CASE state[x] = "live"
  <2> DEFINE to == [pc |-> "exchange", state |-> x]
  <2>1. /\ caller'[c] = to
        /\ \A d \in Requests : d # c => caller'[d] = caller[d]
    BY <1>0, <1>4 DEF Callback, CallerTurns, LoginTypeOK
  <2>2. \A y \in States : Exchanging(y)' <=> Exchanging(y) \/ y = x
    BY <1>0, <2>1 DEF Exchanging, CallerAt
  <2>3. Inside' = Inside
    <3>1. \A d \in Requests, s \in Sessions : In(d, s)' <=> In(d, s)
      BY <1>0, <2>1 DEF In, CallerAt
    <3> QED
      BY <3>1 DEF Inside
  <2>4. Ticket[x] = "issued" /\ Ticket' = [Ticket EXCEPT ![x] = "redeeming"]
    BY <1>1, <1>4, <2>2 DEF Ticket
  <2>5. Promise!Redeem(x)
    BY <1>2, <2>3, <2>4 DEF Promise!Redeem
  <2> QED
    BY <2>5 DEF Promise!Next
<1> QED
  BY <1>3, <1>4 DEF Callback

\* The exchange ends, with a session or without.
LEMMA ExchangeEnds ==
  ASSUME LoginInv, NEW c \in Requests, CallerAt(c, "exchange"),
         CallerTurns(c, AtRest), state' = state
  PROVE  LET x == caller[c].state
         IN  /\ x \in States /\ Inside' = Inside
             /\ Ticket[x] = "redeeming"
             /\ Ticket' = [Ticket EXCEPT ![x] = "spent"]
<1>a. LoginTypeOK /\ caller[c].state \in States
  BY CallerFields DEF LoginInv
<1>b. PICK x \in States : x = caller[c].state
  BY <1>a
<1>0. LoginTypeOK /\ x \in States /\ state[x] = "gone"
  BY <1>a, <1>b DEF LoginInv, HeldAlone
<1>1. /\ caller'[c] = AtRest
      /\ \A d \in Requests : d # c => caller'[d] = caller[d]
  BY <1>0 DEF CallerTurns, LoginTypeOK
<1>2. Inside' = Inside
  <2>1. \A d \in Requests, s \in Sessions : In(d, s)' <=> In(d, s)
    BY <1>1 DEF In, CallerAt, AtRest
  <2> QED
    BY <2>1 DEF Inside
<1>3. Exchanging(x) /\ ~Exchanging(x)'
  <2>1. Exchanging(x)
    BY <1>b DEF Exchanging
  <2>2. ASSUME NEW d \in Requests, CallerAt(d, "exchange")', caller'[d].state = x
        PROVE  FALSE
    BY <1>b, <1>1, <2>2 DEF LoginInv, HeldAlone, CallerAt, AtRest
  <2> QED
    BY <2>1, <2>2 DEF Exchanging
<1>4. \A y \in States : y # x => (Exchanging(y)' <=> Exchanging(y))
  BY <1>b, <1>1 DEF Exchanging, CallerAt, AtRest
<1>5. Ticket[x] = "redeeming" /\ Ticket' = [Ticket EXCEPT ![x] = "spent"]
  <2>1. Ticket[x] = "redeeming" /\ Ticket'[x] = "spent"
    BY <1>0, <1>3 DEF Ticket
  <2>2. ASSUME NEW y \in States, y # x PROVE Ticket'[y] = Ticket[y]
    BY <1>4, <2>2 DEF Ticket
  <2> QED
    BY <2>1, <2>2 DEF Ticket
<1> QED
  BY <1>b, <1>2, <1>5

LEMMA LoginStep ==
  ASSUME LoginInv, NEW c \in Requests,
         LoginFails(c) \/ \E s \in Sessions : Login(c, s)
  PROVE  Promise!Next
<1> DEFINE x == caller[c].state
<1>0. LoginTypeOK
  BY DEF LoginInv
<1>1. /\ x \in States /\ Inside' = Inside /\ Ticket[x] = "redeeming"
      /\ Ticket' = [Ticket EXCEPT ![x] = "spent"]
  BY ExchangeEnds DEF LoginFails, Login
<1>2. CASE LoginFails(c)
  <2>1. Door' = Door
    BY <1>2 DEF LoginFails, Door
  <2>2. Promise!Lapse(x)
    BY <1>1, <2>1 DEF Promise!Lapse
  <2> QED
    BY <1>1, <2>2 DEF Promise!Next
<1>3. ASSUME NEW s \in Sessions, Login(c, s) PROVE Promise!Next
  <2>1. /\ session[s].age = "new" /\ session'[s].age = "live"
        /\ \A r \in Sessions : r # s => session'[r] = session[r]
    BY <1>0, <1>3 DEF Login, LoginTypeOK
  <2>2. Door[s] = "none" /\ Door' = [Door EXCEPT ![s] = "open"]
    BY <2>1 DEF Door
  <2>3. Promise!OpenDoor(x, s)
    BY <1>1, <2>2 DEF Promise!OpenDoor
  <2> QED
    BY <1>1, <2>3 DEF Promise!Next
<1> QED
  BY <1>2, <1>3

LEMMA SessionSteps ==
  ASSUME LoginInv, NEW s \in Sessions, AuthLogout(s) \/ SessionAges(s)
  PROVE  Promise!Next \/ UNCHANGED Promise!login
<1>0. LoginTypeOK /\ Made(s)
  BY DEF LoginInv, AuthLogout, SessionAges, Made
<1>1. PICK to \in {"late", "gone"} : Aged(s, to)
  BY DEF AuthLogout, SessionAges
<1>2. /\ session[s].age \in {"live", "late"}
      /\ session'[s].age = to
      /\ \A r \in Sessions : r # s => session'[r] = session[r]
  BY <1>0, <1>1, AgedOK DEF AuthLogout, SessionAges
<1>3. SameCallers /\ state' = state
  BY DEF AuthLogout, SessionAges, SameCallers, Exchanging, In, CallerAt
<1>4. Ticket' = Ticket /\ Inside' = Inside
  BY <1>3, CallersStay
<1>5. CASE session[s].age = "live"
  <2>1. Door[s] = "open" /\ Door' = [Door EXCEPT ![s] = "ended"]
    BY <1>2, <1>5 DEF Door
  <2>2. Promise!End(s)
    BY <1>4, <2>1 DEF Promise!End
  <2> QED
    BY <2>2 DEF Promise!Next
<1>6. CASE session[s].age = "late"
  <2>1. Door' = Door
    BY <1>2, <1>6 DEF Door
  <2> QED
    BY <1>4, <2>1 DEF Promise!login
<1> QED
  BY <1>2, <1>5, <1>6

LEMMA AdmitStep ==
  ASSUME LoginInv, NEW c \in Requests, NEW s \in Sessions, BySession(c, s)
  PROVE  Promise!Next
<1>0. LoginTypeOK /\ caller[c].pc = "idle" /\ session[s].age = "live"
      /\ UNCHANGED <<state, session>>
  BY DEF LoginInv, BySession, CallerAt
<1>1. /\ caller'[c] = [pc |-> "in", cred |-> s]
      /\ \A d \in Requests : d # c => caller'[d] = caller[d]
  BY <1>0 DEF BySession, Enter, CallerTurns, LoginTypeOK
<1>2. Ticket' = Ticket
  <2>1. \A x \in States : Exchanging(x)' <=> Exchanging(x)
    BY <1>0, <1>1 DEF Exchanging, CallerAt
  <2> QED
    BY <1>0, <2>1 DEF Ticket
<1>3. Door' = Door /\ Door[s] = "open"
  BY <1>0 DEF Door
<1>4. \A r \in Sessions : <<c, r>> \notin Inside
  BY <1>0 DEF Inside, In, CallerAt
<1>5. \A d \in Requests, r \in Sessions :
        In(d, r)' <=> In(d, r) \/ (d = c /\ r = s)
  BY <1>0, <1>1 DEF In, CallerAt
<1>6. Inside' = Inside \cup {<<c, s>>}
  BY <1>5 DEF Inside
<1>7. Promise!Admit(c, s)
  BY <1>2, <1>3, <1>4, <1>6 DEF Promise!Admit
<1> QED
  BY <1>7 DEF Promise!Next

LEMMA DoneStep ==
  ASSUME LoginInv, NEW c \in Requests, Done(c)
  PROVE  Promise!Next \/ UNCHANGED Promise!login
<1>0. LoginTypeOK /\ caller[c].pc = "in" /\ UNCHANGED <<state, session>>
  BY DEF LoginInv, Done, CallerAt
<1>1. CASE caller[c].cred \notin Sessions
  <2>1. SameCallers
    BY <1>0, <1>1, CallerElsewhere DEF Done, AtRest
  <2> QED
    BY <1>0, <2>1, SameStep
<1>2. CASE caller[c].cred \in Sessions
  <2> DEFINE s == caller[c].cred
  <2>1. /\ caller'[c] = AtRest
        /\ \A d \in Requests : d # c => caller'[d] = caller[d]
    BY <1>0 DEF Done, CallerTurns, LoginTypeOK
  <2>2. Ticket' = Ticket
    <3>1. \A x \in States : Exchanging(x)' <=> Exchanging(x)
      BY <1>0, <2>1 DEF Exchanging, CallerAt, AtRest
    <3> QED
      BY <1>0, <3>1 DEF Ticket
  <2>3. Door' = Door
    BY <1>0 DEF Door
  <2>4. \A d \in Requests, r \in Sessions :
          In(d, r)' <=> In(d, r) /\ ~(d = c /\ r = s)
    BY <1>0, <2>1 DEF In, CallerAt, AtRest
  <2>5. Inside' = Inside \ {<<c, s>>}
    BY <2>4 DEF Inside
  <2>6. Promise!Leave(c, s)
    BY <2>2, <2>3, <2>5 DEF Promise!Leave
  <2> QED
    BY <1>2, <2>6 DEF Promise!Next
<1> QED
  BY <1>1, <1>2

\* What a request does with a token, and with accounts.
LEMMA TokenSteps ==
  ASSUME LoginInv, NEW c \in Requests,
         \/ \E t \in Tokens : CacheHit(c, t) \/ CacheMiss(c, t)
         \/ AccountsMe(c) \/ AskFails(c) \/ Store(c)
  PROVE  UNCHANGED Promise!login
<1>0. LoginTypeOK
  BY DEF LoginInv
<1>1. UNCHANGED <<state, session>>
  BY DEF CacheHit, CacheMiss, AccountsMe, AskFails, Store
<1>2. caller[c].pc \in {"idle", "ask", "answer"}
  BY DEF CacheHit, CacheMiss, AccountsMe, AskFails, Store, CallerAt
<1>3. PICK to : /\ CallerTurns(c, to) /\ to.pc # "exchange"
                /\ to.pc # "in" \/ to.cred \notin Sessions
  <2>1. ASSUME NEW t \in Tokens, Enter(c, t)
        PROVE  \E to : /\ CallerTurns(c, to) /\ to.pc # "exchange"
                       /\ to.pc # "in" \/ to.cred \notin Sessions
    <3> DEFINE to == [pc |-> "in", cred |-> t]
    <3>1. CallerTurns(c, to)
      BY <2>1 DEF Enter
    <3>2. to.pc = "in" /\ to.cred \notin Sessions
      BY LoginsAssumption
    <3> HIDE DEF to
    <3> QED
      BY <3>1, <3>2
  <2>2. CASE \E t \in Tokens : CacheHit(c, t)
    BY <2>1, <2>2 DEF CacheHit
  <2>3. CASE Store(c)
    <3>1. caller[c].token \in Tokens
      BY <1>0, <2>3, CallerFields DEF Store, CallerAt, Waiting
    <3> QED
      BY <2>1, <2>3, <3>1 DEF Store
  <2>4. ASSUME NEW t \in Tokens, CacheMiss(c, t)
        PROVE  \E to : /\ CallerTurns(c, to) /\ to.pc # "exchange"
                       /\ to.pc # "in" \/ to.cred \notin Sessions
    <3> DEFINE to == [pc |-> "ask", token |-> t, left |-> Timeout]
    <3>1. CallerTurns(c, to) /\ to.pc = "ask"
      BY <2>4 DEF CacheMiss
    <3> HIDE DEF to
    <3> QED
      BY <3>1
  <2>5. CASE AccountsMe(c)
    <3> DEFINE to == [caller[c] EXCEPT !.pc = "answer"]
    <3>1. CallerTurns(c, to)
      BY <2>5 DEF AccountsMe
    <3>2. to.pc = "answer"
      BY <1>0, <2>5, CallerFields DEF AccountsMe, CallerAt, Waiting
    <3> HIDE DEF to
    <3> QED
      BY <3>1, <3>2
  <2>6. CASE AskFails(c)
    BY <2>6 DEF AskFails, AtRest
  <2> QED
    BY <2>2, <2>3, <2>4, <2>5, <2>6
<1>4. SameCallers
  BY <1>0, <1>2, <1>3, CallerElsewhere
<1> QED
  BY <1>1, <1>4, SameStep

LEMMA TickStep == ASSUME LoginInv, Tick PROVE UNCHANGED Promise!login
<1>0. LoginTypeOK
  BY DEF LoginInv
<1>1. ASSUME NEW c \in Requests
      PROVE  /\ caller'[c].pc = caller[c].pc
             /\ caller[c].pc \notin {"ask", "answer"} => caller'[c] = caller[c]
  <2>1. caller'[c] = IF Waiting(c) THEN [caller[c] EXCEPT !.left = @ - 1]
                     ELSE caller[c]
    BY DEF Tick
  <2>2. Waiting(c) => [caller[c] EXCEPT !.left = @ - 1].pc = caller[c].pc
    BY <1>0, CallerFields
  <2> QED
    BY <2>1, <2>2 DEF Waiting
<1>2. \A x \in States : Exchanging(x)' <=> Exchanging(x)
  BY <1>1 DEF Exchanging, CallerAt
<1>3. \A c \in Requests, s \in Sessions : In(c, s)' <=> In(c, s)
  BY <1>1 DEF In, CallerAt
<1> QED
  BY <1>2, <1>3, SameStep DEF Tick, SameCallers

LEMMA ForgetStep == ASSUME LoginInv, MemoryLost PROVE Promise!Next
<1>0. LoginTypeOK
  BY DEF LoginInv
<1>1. \A c \in Requests : caller'[c].pc = "idle"
  BY DEF MemoryLost, AtRest
<1>2. /\ \A x \in States : ~Exchanging(x)'
      /\ \A c \in Requests, s \in Sessions : ~In(c, s)'
  BY <1>1 DEF Exchanging, In, CallerAt
<1>3. Ticket' = [x \in States |-> IF Ticket[x] = "unissued" THEN "unissued"
                                  ELSE "spent"]
  <2>1. \A x \in States : state'[x] = IF state[x] = "new" THEN "new" ELSE "gone"
    BY DEF MemoryLost
  <2> QED
    BY <1>2, <2>1 DEF Ticket
<1>4. Door' = [s \in Sessions |-> IF Door[s] = "none" THEN "none" ELSE "ended"]
  <2>1. \A s \in Sessions :
          session'[s].age = IF session[s].age = "new" THEN "new" ELSE "gone"
    BY <1>0 DEF MemoryLost, Made, LoginTypeOK
  <2> QED
    BY <2>1 DEF Door
<1>5. Inside' = {}
  BY <1>2 DEF Inside
<1>6. Promise!Forget
  BY <1>3, <1>4, <1>5 DEF Promise!Forget
<1> QED
  BY <1>6 DEF Promise!Next

LEMMA PromiseNext ==
  ASSUME LoginInv, [LoginNext]_loginVars
  PROVE  Promise!Next \/ UNCHANGED Promise!login
<1>1. ASSUME UNCHANGED <<state, session, caller>> PROVE UNCHANGED Promise!login
  BY <1>1, SameStep DEF SameCallers, Exchanging, In, CallerAt
<1>2. CASE UNCHANGED loginVars \/ \E t \in Tokens : Revoke(t)
  BY <1>1, <1>2 DEF Revoke
<1>3. ASSUME NEW c \in Requests,
             \/ \E x \in States : Callback(c, x)
             \/ \E s \in Sessions : Login(c, s) \/ BySession(c, s)
             \/ \E t \in Tokens : CacheHit(c, t) \/ CacheMiss(c, t)
             \/ LoginFails(c) \/ AccountsMe(c) \/ AskFails(c) \/ Store(c)
             \/ Done(c)
      PROVE  Promise!Next \/ UNCHANGED Promise!login
  BY <1>3, CallbackStep, LoginStep, AdmitStep, TokenSteps, DoneStep
<1> QED
  BY <1>2, <1>3, StateSteps, SessionSteps, TickStep, ForgetStep DEF LoginNext

LEMMA PromiseInit == ASSUME LoginInit PROVE Promise!Init
<1>1. Ticket = [x \in States |-> "unissued"]
  BY DEF LoginInit, Ticket
<1>2. Door = [s \in Sessions |-> "none"]
  BY DEF LoginInit, Door
<1>3. Inside = {}
  BY DEF LoginInit, Inside, In, CallerAt, AtRest
<1> QED
  BY <1>1, <1>2, <1>3 DEF Promise!Init

\* AuthCallback redeems a state of LoginRedirect once, for one session at
\* most, and getSession lets nobody in on a session that AuthLogout, its age or
\* a restart has ended, however the requests interleave.
THEOREM LoginIsOneTime == LoginSpec => ImplementsOneTimeLogin
<1>1. LoginInit => Promise!Init /\ HeldAlone
  BY PromiseInit DEF LoginInit, HeldAlone, CallerAt, AtRest
<1>2. LoginTypeOK /\ StateSpentOnce /\ HeldAlone /\ [LoginNext]_loginVars
        => HeldAlone'
  BY NextSpentOnce
<1>3. LoginTypeOK /\ HeldAlone /\ [LoginNext]_loginVars
        => [Promise!Next]_(Promise!login)
  BY PromiseNext DEF LoginInv
<1> QED
  BY <1>1, <1>2, <1>3, LoginTypes, OneSessionPerState, PTL
     DEF LoginSpec, ImplementsOneTimeLogin, Promise!Spec
=============================================================================
