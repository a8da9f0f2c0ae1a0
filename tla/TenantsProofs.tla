---------------------------- MODULE TenantsProofs ----------------------------
(***************************************************************************)
(* What holds of tenants, their keys and their relay sessions for any      *)
(* number of them, and any number of racing requests.                      *)
(***************************************************************************)
EXTENDS Tenants, TLAPS

USE DEF vars, tables

-----------------------------------------------------------------------------
(***************************************************************************)
(* What the types say of the parts of a state.                             *)
(***************************************************************************)

Made(k) == key[k].st # "new"

LEMMA KeyFields ==
  ASSUME TypeOK, NEW k \in Keys
  PROVE  /\ key[k].st \in {"new", "live", "late", "gone"}
         /\ Made(k) => key[k].user \in Users
         /\ key[k].st = "gone" => key[k] = [st |-> "gone", user |-> key[k].user]
         /\ key[k].st \in {"live", "late"} =>
              /\ key[k].solo \in BOOLEAN
              /\ key[k] = [st |-> key[k].st, user |-> key[k].user,
                           solo |-> key[k].solo]
         /\ key[k].st = "new" => key[k] = [st |-> "new"]
<1>1. key[k] \in KeyType
  BY DEF TypeOK
<1> QED
  BY <1>1 DEF KeyType, Made

LEMMA DomainFields ==
  ASSUME TypeOK, NEW i \in Rows
  PROVE  /\ domain[i].st \in {"new", "pending", "verified", "gone"}
         /\ domain[i].st # "new" =>
              /\ domain[i].user \in Users
              /\ domain[i] = [st |-> domain[i].st, user |-> domain[i].user]
<1>1. domain[i] \in DomainType
  BY DEF TypeOK
<1> QED
  BY <1>1 DEF DomainType

Pcs == Handlers \cup {"default"}

LEMMA CallFields ==
  ASSUME TypeOK, NEW c \in Callers, ~At(c, "idle")
  PROVE  /\ call[c].pc \in Pcs
         /\ call[c].user \in Users
         /\ call[c].login \in BOOLEAN
         /\ call[c].alone \in BOOLEAN
         /\ call[c].solo \in BOOLEAN
         /\ ~At(c, "default") => call[c].solo = FALSE
         /\ call[c] = [pc |-> call[c].pc, user |-> call[c].user,
                       login |-> call[c].login, alone |-> call[c].alone,
                       solo |-> call[c].solo]
<1>1. call[c] \in CallType
  BY DEF TypeOK
<1>2. call[c] # Idle
  BY DEF At, Idle
<1> QED
  BY <1>1, <1>2 DEF CallType, Pcs, Handlers, At

LEMMA CallRecord ==
  ASSUME TypeOK, NEW c \in Callers, ~At(c, "idle")
  PROVE  call[c] \in [pc : Pcs, user : Users, login : BOOLEAN,
                     alone : BOOLEAN, solo : BOOLEAN]
<1>1. call[c] \in CallType /\ call[c] # Idle
  BY DEF TypeOK, At, Idle
<1> QED
  BY <1>1 DEF CallType, Pcs, Handlers

OpenType  == [pc : {"open"}, user : Users \cup {None}, key : Keys \cup {None},
              from : BOOLEAN, to : 0 .. MaxRcpt]
StoreType == [pc : {"store"}, user : Users, key : Keys, to : 1 .. MaxRcpt,
              row : Rows]

LEMMA SmtpFields ==
  ASSUME TypeOK, NEW x \in Clients
  PROVE  /\ smtp[x].pc = "open" => smtp[x] \in OpenType
         /\ smtp[x].pc = "store" => smtp[x] \in StoreType
         /\ smtp[x].pc \in {"open", "store"}
         /\ smtp[x].user \in Users \cup {None}
         /\ smtp[x].key \in Keys \cup {None}
         /\ smtp[x].user = None <=> smtp[x].key = None
<1>1. smtp[x] \in OpenType \cup StoreType
  BY DEF TypeOK, SmtpType, OpenType, StoreType
<1> QED
  BY <1>1 DEF TypeOK, OpenType, StoreType

-----------------------------------------------------------------------------
(***************************************************************************)
(* Types.                                                                  *)
(***************************************************************************)

LEMMA IdleOK == Idle \in CallType
BY DEF CallType

LEMMA OpenOK == Open \in OpenType
BY TenantsAssumption DEF Open, OpenType

CallsOK == call' \in [Callers -> CallType]
SmtpOK == /\ smtp' \in [Clients -> SmtpType]
          /\ \A x \in Clients : smtp'[x].user = None <=> smtp'[x].key = None

\* A goroutine goes on.
LEMMA BecomeOK ==
  ASSUME TypeOK, NEW c \in Callers, NEW to \in CallType, Become(c, to)
  PROVE  CallsOK
BY DEF TypeOK, Become, CallsOK

\* A session goes on.
LEMMA SessionOK ==
  ASSUME TypeOK, NEW x \in Clients, NEW to \in OpenType \cup StoreType,
         to.user = None <=> to.key = None, Session(x, to)
  PROVE  SmtpOK
BY DEF TypeOK, Session, SmtpOK, SmtpType, OpenType, StoreType

LEMMA InitTypes == Init => TypeOK
BY IdleOK, OpenOK
   DEF Init, TypeOK, KeyType, DomainType, SmtpType, OpenType, Open

LEMMA StartOK ==
  ASSUME TypeOK, NEW c \in Callers, NEW u \in Users, NEW login \in BOOLEAN,
         NEW pc \in Handlers, Start(c, u, login, pc)
  PROVE  CallsOK
<1>1. ASSUME NEW d \in Callers PROVE call'[d] \in CallType
  <2>1. CASE d = c
    BY <2>1 DEF Start, CallType
  <2>2. CASE d # c /\ d \in AtWork(u)
    <3>1. ~At(d, "idle")
      BY <2>2 DEF AtWork
    <3>2. call'[d] = [call[d] EXCEPT !.alone = FALSE]
      BY <2>2 DEF Start
    <3> QED
      BY <3>1, <3>2, CallFields DEF CallType, Pcs, At
  <2>3. CASE d # c /\ d \notin AtWork(u)
    BY <2>3 DEF Start, TypeOK
  <2> QED
    BY <2>1, <2>2, <2>3
<1> QED
  BY <1>1 DEF Start, CallsOK

LEMMA AnswerOK ==
  ASSUME TypeOK, NEW c \in Callers, ~At(c, "idle"),
         NEW says \in BOOLEAN \cup {None}, Answer(c, says)
  PROVE  CallsOK /\ told' \in [Users -> BOOLEAN \cup {None}]
BY CallFields, BecomeOK, IdleOK DEF TypeOK, Answer

LEMMA HandlerTypes ==
  ASSUME TypeOK, NEW c \in Callers, HandlerNext(c)
  PROVE  TypeOK'
<1>1. ASSUME NEW pc \in Handlers, NEW u \in Users, ByLogin(c, u, pc)
      PROVE  TypeOK'
  BY <1>1, StartOK DEF ByLogin, Start, TypeOK, CallsOK
<1>2. ASSUME NEW pc \in Handlers, NEW k \in Keys, APIKeyAuth(c, k, pc)
      PROVE  TypeOK'
  <2>1. key[k].user \in Users
    BY <1>2, KeyFields DEF APIKeyAuth, GoodKey, Made
  <2> QED
    BY <1>2, <2>1, StartOK DEF APIKeyAuth, Start, TypeOK, CallsOK
<1>3. ASSUME NEW pc \in {"default", "create", "unenroll"}, Fails(c, pc)
      PROVE  TypeOK'
  <2>1. CallsOK /\ told' \in [Users -> BOOLEAN \cup {None}]
    BY <1>3, AnswerOK DEF Fails, At
  <2> QED
    BY <1>3, <2>1 DEF Fails, TypeOK, CallsOK
<1>4. CASE Count(c)
  <2>1. ~At(c, "idle")
    BY <1>4 DEF Count, At
  <2>2. CASE Answer(c, TRUE)
    BY <1>4, <2>1, <2>2, AnswerOK DEF Count, TypeOK, CallsOK
  <2>3. ASSUME NEW solo \in BOOLEAN, UNCHANGED told,
               Become(c, [call[c] EXCEPT !.pc = "default", !.solo = solo])
        PROVE  TypeOK'
    <3>1. [call[c] EXCEPT !.pc = "default", !.solo = solo] \in CallType
      <4> DEFINE R == [pc : Pcs, user : Users, login : BOOLEAN,
                       alone : BOOLEAN, solo : BOOLEAN]
                 to == [call[c] EXCEPT !.pc = "default", !.solo = solo]
      <4>1. call[c] \in R
        BY <2>1, CallRecord
      <4>2. to \in R /\ to.pc = "default"
        BY <4>1 DEF Pcs
      <4>3. to \in [pc : {"default"}, user : Users, login : BOOLEAN,
                   alone : BOOLEAN, solo : BOOLEAN]
        BY <4>2
      <4> QED
        BY <4>3 DEF CallType
    <3>2. CallsOK
      BY <2>3, <3>1, BecomeOK
    <3> QED
      BY <1>4, <2>3, <3>2 DEF Count, TypeOK, CallsOK
  <2> QED
    BY <1>4, <2>2, <2>3 DEF Count, Proceed
<1>5. ASSUME NEW k \in Keys, NEW pc \in {"default", "create"}, Insert(c, k, pc)
      PROVE  TypeOK'
  <2>1. CallsOK /\ told' \in [Users -> BOOLEAN \cup {None}]
    BY <1>5, AnswerOK DEF Insert, At
  <2>2. call[c].user \in Users /\ call[c].solo \in BOOLEAN
    BY <1>5, CallFields DEF Insert, At
  <2>3. key' \in [Keys -> KeyType]
    BY <1>5, <2>2 DEF Insert, TypeOK, KeyType
  <2> QED
    BY <1>5, <2>1, <2>3 DEF Insert, TypeOK, CallsOK
<1>6. CASE UnenrollDelivery(c)
  <2>1. CallsOK /\ told' \in [Users -> BOOLEAN \cup {None}]
    BY <1>6, AnswerOK DEF UnenrollDelivery, At
  <2>2. ASSUME NEW k \in Keys PROVE key'[k] \in KeyType
    <3>1. CASE k \in KeysOf(call[c].user)
      BY <1>6, <3>1, KeyFields
         DEF UnenrollDelivery, Revoked, KeysOf, Made, KeyType
    <3>2. CASE k \notin KeysOf(call[c].user)
      BY <1>6, <3>2 DEF UnenrollDelivery, Revoked, TypeOK
    <3> QED
      BY <3>1, <3>2
  <2>3. key' \in [Keys -> KeyType]
    BY <1>6, <2>2 DEF UnenrollDelivery
  <2> QED
    BY <1>6, <2>1, <2>3 DEF UnenrollDelivery, TypeOK, CallsOK
<1> QED
  BY <1>1, <1>2, <1>3, <1>4, <1>5, <1>6
     DEF HandlerNext, EnrollDelivery, CreateAPIKey

LEMMA ClearedOK ==
  ASSUME TypeOK, NEW x \in Clients
  PROVE  /\ Cleared(x) \in OpenType
         /\ Cleared(x).user = smtp[x].user /\ Cleared(x).key = smtp[x].key
<1>1. Open \in OpenType
  BY OpenOK
<1> QED
  BY <1>1, SmtpFields DEF Cleared, OpenType

LEMMA SessionTypes ==
  ASSUME TypeOK, NEW x \in Clients, SessionNext(x)
  PROVE  TypeOK'
<1>1. ASSUME Session(x, Cleared(x)) PROVE SmtpOK
  BY <1>1, ClearedOK, SmtpFields, SessionOK
<1>2. CASE SmtpOK /\ UNCHANGED <<tables, call, told>>
  BY <1>2 DEF TypeOK, SmtpOK
<1>3. ASSUME NEW k \in Keys, Auth(x, k) PROVE SmtpOK
  <2>1. key[k].user \in Users
    BY <1>3, KeyFields DEF Auth, GoodKey, Made
  <2> DEFINE to == [smtp[x] EXCEPT !.user = key[k].user, !.key = k]
  <2>2. to \in OpenType /\ to.user # None /\ to.key # None
    BY <1>3, <2>1, SmtpFields, TenantsAssumption DEF Auth, OpenType
  <2> QED
    BY <1>3, <2>2, SessionOK DEF Auth
<1>4. CASE Mail(x)
  <2> DEFINE to == [smtp[x] EXCEPT !.from = TRUE]
  <2>1. to \in OpenType /\ to.user = smtp[x].user /\ to.key = smtp[x].key
    BY <1>4, SmtpFields DEF Mail, Talking, OpenType
  <2>2. SmtpOK
    BY <1>4, <2>1, SmtpFields, SessionOK DEF Mail
  <2> QED
    BY <1>2, <1>4, <2>2 DEF Mail
<1>5. CASE Rcpt(x)
  <2> DEFINE to == [smtp[x] EXCEPT !.to = @ + 1]
  <2>1. to \in OpenType /\ to.user = smtp[x].user /\ to.key = smtp[x].key
    BY <1>5, SmtpFields, TenantsAssumption DEF Rcpt, Talking, OpenType
  <2>2. SmtpOK
    BY <1>5, <2>1, SmtpFields, SessionOK DEF Rcpt
  <2> QED
    BY <1>2, <1>5, <2>2 DEF Rcpt
<1>6. ASSUME NEW i \in Rows, Data(x, i) PROVE SmtpOK
  <2> DEFINE to == [pc |-> "store", user |-> smtp[x].user, key |-> smtp[x].key,
                    to |-> smtp[x].to, row |-> i]
  <2>1. to \in StoreType /\ to.user # None /\ to.key # None
    BY <1>6, SmtpFields, TenantsAssumption
       DEF Data, Talking, OpenType, StoreType
  <2> QED
    BY <1>6, <2>1, SessionOK DEF Data
<1>7. CASE StoreOne(x)
  <2>1. smtp[x] \in StoreType
    BY <1>7, SmtpFields DEF StoreOne
  <2>2. messages' \subseteq [user : Users, key : Keys, row : Rows]
    BY <1>7, <2>1 DEF StoreOne, Stored, TypeOK, StoreType
  <2>3. CASE Session(x, [smtp[x] EXCEPT !.to = @ - 1]) /\ smtp[x].to > 1
    <3> DEFINE to == [smtp[x] EXCEPT !.to = @ - 1]
    <3>1. to \in StoreType /\ to.user = smtp[x].user /\ to.key = smtp[x].key
      BY <2>1, <2>3, TenantsAssumption DEF StoreType
    <3>2. SmtpOK
      BY <2>3, <3>1, SmtpFields, SessionOK
    <3> QED
      BY <1>7, <2>2, <3>2 DEF StoreOne, TypeOK, SmtpOK
  <2>4. CASE Session(x, Cleared(x))
    BY <1>1, <1>7, <2>2, <2>4 DEF StoreOne, TypeOK, SmtpOK
  <2> QED
    BY <1>7, <2>3, <2>4 DEF StoreOne
<1>8. CASE Logout(x)
  <2>1. SmtpOK
    BY <1>8, OpenOK, SessionOK DEF Logout, Open
  <2> QED
    BY <1>2, <1>8, <2>1 DEF Logout
<1>9. CASE Reset(x) \/ DataRefused(x)
  BY <1>1, <1>2, <1>9 DEF Reset, DataRefused
<1> QED
  BY <1>2, <1>3, <1>4, <1>5, <1>6, <1>7, <1>8, <1>9 DEF SessionNext, Auth, Data

LEMMA NextTypes == TypeOK /\ [Next]_vars => TypeOK'
<1> SUFFICES ASSUME TypeOK, [Next]_vars PROVE TypeOK'
  OBVIOUS
<1>1. ASSUME NEW k \in Keys, Expire(k) PROVE TypeOK'
  <2>1. [key[k] EXCEPT !.st = "late"] \in KeyType
    <3> DEFINE R == [st : {"live", "late"}, user : Users, solo : BOOLEAN]
    <3>1. key[k] \in KeyType /\ key[k].st = "live"
      BY <1>1 DEF Expire, TypeOK
    <3>2. key[k] \in R
      BY <3>1 DEF KeyType
    <3>3. [key[k] EXCEPT !.st = "late"] \in R
      BY <3>2
    <3> QED
      BY <3>3 DEF KeyType
  <2> QED
    BY <1>1, <2>1 DEF Expire, TypeOK
<1>2. ASSUME NEW i \in Rows, NEW u \in Users, CreateDomain(i, u) PROVE TypeOK'
  BY <1>2 DEF CreateDomain, TypeOK, DomainType
<1>3. ASSUME NEW i \in Rows, NEW st \in {"pending", "verified", "gone"},
             ChangeDomain(i, st)
      PROVE  TypeOK'
  <2>1. [domain[i] EXCEPT !.st = st] \in DomainType
    <3>1. PICK old, u : domain[i] = [st |-> old, user |-> u]
      BY <1>3, DomainFields DEF ChangeDomain
    <3>2. u \in Users
      BY <1>3, <3>1, DomainFields DEF ChangeDomain
    <3>3. [domain[i] EXCEPT !.st = st] = [st |-> st, user |-> u]
      BY <3>1
    <3> QED
      BY <3>2, <3>3 DEF DomainType
  <2> QED
    BY <1>3, <2>1 DEF ChangeDomain, TypeOK
<1>4. CASE Restart
  <2>1. SmtpOK
    BY <1>4, OpenOK DEF Restart, SmtpOK, SmtpType, OpenType, Open
  <2> QED
    BY <1>4, <2>1, IdleOK DEF Restart, TypeOK, SmtpOK
<1>5. CASE UNCHANGED vars
  BY <1>5 DEF TypeOK
<1> QED
  BY <1>1, <1>2, <1>3, <1>4, <1>5, HandlerTypes, SessionTypes DEF Next

\* Every variable keeps its type, and a session has a user and a key or neither.
THEOREM TenantTypes == Spec => []TypeOK
BY InitTypes, NextTypes, PTL DEF Spec

-----------------------------------------------------------------------------
(***************************************************************************)
(* Mail.  A key and a row of the domain keep their user for good, so what  *)
(* AUTH pinned and DATA looked up still belongs together at the insert.    *)
(***************************************************************************)

Registered(i) == domain[i].st # "new"

LEMMA UsersLast ==
  ASSUME TypeOK, [Next]_vars
  PROVE  /\ \A k \in Keys : Made(k) => (Made(k))' /\ key'[k].user = key[k].user
         /\ \A i \in Rows : Registered(i) =>
              (Registered(i))' /\ domain'[i].user = domain[i].user
<1>1. ASSUME NEW k \in Keys, Made(k)
      PROVE  (Made(k))' /\ key'[k].user = key[k].user
  <2>1. CASE UNCHANGED key
    BY <1>1, <2>1 DEF Made
  <2>2. ASSUME NEW c \in Callers, NEW j \in Keys,
               NEW pc \in {"default", "create"}, Insert(c, j, pc)
        PROVE  (Made(k))' /\ key'[k].user = key[k].user
    BY <1>1, <2>2 DEF Insert, Made, TypeOK
  <2>3. ASSUME NEW c \in Callers, UnenrollDelivery(c)
        PROVE  (Made(k))' /\ key'[k].user = key[k].user
    BY <1>1, <2>3 DEF UnenrollDelivery, Made
  <2>4. ASSUME NEW j \in Keys, Expire(j)
        PROVE  (Made(k))' /\ key'[k].user = key[k].user
    BY <1>1, <2>4, KeyFields DEF Expire, Made, TypeOK
  <2> QED
    BY <2>1, <2>2, <2>3, <2>4
       DEF Next, HandlerNext, SessionNext, ByLogin, APIKeyAuth, Start, Fails,
           Count, Proceed, EnrollDelivery, CreateAPIKey, Auth, Mail, Rcpt,
           Reset, Data,
           DataRefused, StoreOne, Logout, CreateDomain, ChangeDomain, Restart
<1>2. ASSUME NEW i \in Rows, Registered(i)
      PROVE  (Registered(i))' /\ domain'[i].user = domain[i].user
  <2>1. CASE UNCHANGED domain
    BY <1>2, <2>1 DEF Registered
  <2>2. ASSUME NEW j \in Rows, NEW u \in Users, CreateDomain(j, u)
        PROVE  (Registered(i))' /\ domain'[i].user = domain[i].user
    BY <1>2, <2>2 DEF CreateDomain, Registered, TypeOK
  <2>3. ASSUME NEW j \in Rows, NEW st \in {"pending", "verified", "gone"},
               ChangeDomain(j, st)
        PROVE  (Registered(i))' /\ domain'[i].user = domain[i].user
    BY <1>2, <2>3, DomainFields DEF ChangeDomain, Registered, TypeOK
  <2> QED
    BY <2>1, <2>2, <2>3
       DEF Next, HandlerNext, SessionNext, ByLogin, APIKeyAuth, Start, Fails,
           Count, Proceed, EnrollDelivery, CreateAPIKey, Insert,
           UnenrollDelivery, Auth,
           Mail, Rcpt, Reset, Data, DataRefused, StoreOne, Logout, Expire,
           Restart
<1> QED
  BY <1>1, <1>2

\* A credential is that of one user, and so is a row of the domain.
Credential(k, u) == Made(k) /\ key[k].user = u
OwnRow(i, u)     == Registered(i) /\ domain[i].user = u

\* What a session holds belongs to its user.
Holds(x) ==
  /\ smtp[x].key # None => Credential(smtp[x].key, smtp[x].user)
  /\ smtp[x].pc = "store" => OwnRow(smtp[x].row, smtp[x].user)

MailInv ==
  /\ \A x \in Clients : Holds(x)
  /\ \A m \in messages : Credential(m.key, m.user) /\ OwnRow(m.row, m.user)

\* How a step may change a session.
Steps(x) ==
  \/ smtp'[x].key = None /\ smtp'[x].pc = "open"
  \/ /\ smtp'[x].key = smtp[x].key /\ smtp'[x].user = smtp[x].user
     /\ \/ smtp'[x].pc = "open"
        \/ /\ smtp'[x].pc = "store" /\ smtp[x].pc = "store"
           /\ smtp'[x].row = smtp[x].row
  \/ \E k \in Keys : Auth(x, k)
  \/ \E i \in Rows : Data(x, i)

LEMMA SessionSteps ==
  ASSUME TypeOK, [Next]_vars, NEW x \in Clients
  PROVE  Steps(x)
<1>1. CASE UNCHANGED smtp[x]
  BY <1>1, SmtpFields DEF Steps
<1>2. ASSUME Session(x, Cleared(x)) PROVE Steps(x)
  BY <1>2, ClearedOK DEF Session, Steps, TypeOK, OpenType
<1>3. CASE Mail(x)
  BY <1>3, SmtpFields DEF Mail, Talking, Session, Steps, TypeOK, OpenType
<1>4. CASE Rcpt(x)
  BY <1>4, SmtpFields DEF Rcpt, Talking, Session, Steps, TypeOK, OpenType
<1>5. CASE StoreOne(x)
  <2>1. CASE Session(x, [smtp[x] EXCEPT !.to = @ - 1])
    BY <1>5, <2>1, SmtpFields DEF StoreOne, Session, Steps, TypeOK, StoreType
  <2> QED
    BY <1>2, <1>5, <2>1 DEF StoreOne
<1>6. CASE Logout(x) \/ Restart
  BY <1>6 DEF Logout, Restart, Session, Steps, Open, TypeOK
<1>7. ASSUME NEW y \in Clients, y # x, SessionNext(y)
      PROVE  smtp'[x] = smtp[x]
  BY <1>7 DEF SessionNext, Auth, Mail, Rcpt, Reset, Data, DataRefused,
              StoreOne, Logout, Session, TypeOK
<1>8. CASE SessionNext(x)
  BY <1>2, <1>3, <1>4, <1>5, <1>6, <1>8
     DEF SessionNext, Reset, DataRefused, Steps
<1> QED
  BY <1>1, <1>6, <1>7, <1>8
     DEF Next, HandlerNext, ByLogin, APIKeyAuth, Start, Fails, Count, Proceed,
         EnrollDelivery, CreateAPIKey, Insert, UnenrollDelivery, Expire,
         CreateDomain, ChangeDomain

LEMMA NextMail ==
  ASSUME TypeOK, TypeOK', MailInv, [Next]_vars
  PROVE  MailInv'
<1>1. /\ \A k \in Keys, u \in Users : Credential(k, u) => Credential(k, u)'
      /\ \A i \in Rows, u \in Users : OwnRow(i, u) => OwnRow(i, u)'
  BY UsersLast DEF Credential, OwnRow
<1>2. ASSUME NEW x \in Clients
      PROVE  Holds(x)'
  <2>1. \/ smtp'[x].key = None
        \/ smtp'[x].key \in Keys /\ smtp'[x].user \in Users
    <3>1. /\ smtp'[x].user \in Users \cup {None}
          /\ smtp'[x].key \in Keys \cup {None}
          /\ smtp'[x].user = None <=> smtp'[x].key = None
      <4>1. smtp'[x] \in OpenType \cup StoreType
        BY DEF TypeOK, SmtpType, OpenType, StoreType
      <4> QED
        BY <4>1 DEF TypeOK, OpenType, StoreType
    <3> QED
      BY <3>1
  <2>2. CASE smtp'[x].key = None /\ smtp'[x].pc = "open"
    BY <2>2 DEF Holds
  <2>3. CASE /\ smtp'[x].key = smtp[x].key /\ smtp'[x].user = smtp[x].user
             /\ \/ smtp'[x].pc = "open"
                \/ /\ smtp'[x].pc = "store" /\ smtp[x].pc = "store"
                   /\ smtp'[x].row = smtp[x].row
    <3>1. (smtp[x].key # None => Credential(smtp[x].key, smtp[x].user))'
      BY <2>1, <2>3, UsersLast DEF MailInv, Holds, Credential, Made
    <3>2. smtp[x].pc = "store" => smtp[x].row \in Rows /\ smtp[x].user \in Users
      BY SmtpFields DEF StoreType
    <3>3. (smtp[x].pc = "store" => OwnRow(smtp[x].row, smtp[x].user))'
      BY <2>3, <3>2, UsersLast DEF MailInv, Holds, OwnRow, Registered
    <3> QED
      BY <3>1, <3>3 DEF Holds
  <2>4. ASSUME NEW k \in Keys, Auth(x, k)
        PROVE  Holds(x)'
    <3>1. /\ smtp'[x].key = k /\ smtp'[x].user = key[k].user
          /\ smtp'[x].pc = "open"
      BY <2>4, SmtpFields DEF Auth, Session, TypeOK, OpenType
    <3> QED
      BY <2>4, <3>1 DEF Holds, Auth, GoodKey, Credential, Made
  <2>5. ASSUME NEW i \in Rows, Data(x, i)
        PROVE  Holds(x)'
    <3>1. /\ smtp'[x].key = smtp[x].key /\ smtp'[x].user = smtp[x].user
          /\ smtp'[x].pc = "store" /\ smtp'[x].row = i
      BY <2>5 DEF Data, Session, TypeOK
    <3>2. (OwnRow(smtp[x].row, smtp[x].user))'
      BY <2>5, <3>1 DEF Data, Sendable, OwnRow, Registered
    <3>3. (smtp[x].key # None => Credential(smtp[x].key, smtp[x].user))'
      BY <2>1, <3>1, UsersLast DEF MailInv, Holds, Credential, Made
    <3> QED
      BY <3>2, <3>3 DEF Holds
  <2> QED
    BY <2>2, <2>3, <2>4, <2>5, SessionSteps DEF Steps
<1>3. ASSUME NEW m \in messages'
      PROVE  /\ Credential(m.key, m.user)' /\ OwnRow(m.row, m.user)'
  <2>1. m.user \in Users /\ m.key \in Keys /\ m.row \in Rows
    BY <1>3 DEF TypeOK
  <2>2. CASE m \in messages
    BY <1>1, <2>1, <2>2 DEF MailInv
  <2>3. ASSUME NEW x \in Clients, m \notin messages, StoreOne(x)
        PROVE  Credential(m.key, m.user) /\ OwnRow(m.row, m.user)
    <3>1. m = [user |-> smtp[x].user, key |-> smtp[x].key, row |-> smtp[x].row]
      BY <1>3, <2>3 DEF StoreOne, Stored
    <3>2. smtp[x].key \in Keys /\ smtp[x].key # None
      BY <2>3, SmtpFields, TenantsAssumption DEF StoreOne, StoreType
    <3> QED
      BY <2>3, <3>1, <3>2 DEF MailInv, Holds, StoreOne
  <2>4. m \in messages \/ \E x \in Clients : StoreOne(x)
    BY <1>3
       DEF Next, HandlerNext, SessionNext, ByLogin, APIKeyAuth, Start, Fails,
           Count, Proceed, EnrollDelivery, CreateAPIKey, Insert,
           UnenrollDelivery, Auth,
           Mail, Rcpt, Reset, Data, DataRefused, Logout, Expire, CreateDomain,
           ChangeDomain, Restart
  <2> QED
    BY <1>1, <2>1, <2>2, <2>3, <2>4
<1> QED
  BY <1>2, <1>3 DEF MailInv

\* Whatever happens to keys and domains between AUTH, DATA and the inserts, the
\* key, the domain and the message of a relayed mail belong to one user.
THEOREM MailStaysInTheTenancy == Spec => []MailIsItsTenants
<1>1. Init => MailInv
  BY DEF Init, MailInv, Holds, Open
<1>2. MailInv => MailIsItsTenants
  BY DEF MailInv, MailIsItsTenants, Credential, OwnRow
<1>3. TypeOK /\ TypeOK' /\ MailInv /\ [Next]_vars => MailInv'
  BY NextMail
<1> QED
  BY <1>1, <1>2, <1>3, TenantTypes, PTL DEF Spec

-----------------------------------------------------------------------------
(***************************************************************************)
(* Enrolment.  One that counted no key while no other was about to insert  *)
(* one excludes every other such enrolment, and every key one has made:    *)
(* the count would have shown it.                                          *)
(***************************************************************************)

Solo(c, u) == At(c, "default") /\ call[c].solo /\ call[c].user = u

OneSolo ==
  \A u \in Users :
    /\ \A j, k \in SoloKeys(u) : j = k
    /\ \A c, d \in Callers : Solo(c, u) /\ Solo(d, u) => c = d
    /\ (\E c \in Callers : Solo(c, u)) => SoloKeys(u) = {}

\* Steps that make neither a key nor a solo enrolment.
LEMMA NoneMade ==
  ASSUME OneSolo,
         \A u \in Users : SoloKeys(u)' \subseteq SoloKeys(u),
         \A u \in Users, c \in Callers : Solo(c, u)' => Solo(c, u)
  PROVE  OneSolo'
BY DEF OneSolo

LEMMA NextSolo ==
  ASSUME TypeOK, TypeOK', OneSolo, [Next]_vars
  PROVE  OneSolo'
<1>1. ASSUME UNCHANGED key
      PROVE  \A u \in Users : SoloKeys(u)' \subseteq SoloKeys(u)
  BY <1>1 DEF SoloKeys, KeysOf
<1>2. ASSUME UNCHANGED call
      PROVE  \A u \in Users, c \in Callers : Solo(c, u)' => Solo(c, u)
  BY <1>2 DEF Solo, At
<1>3. ASSUME NEW c \in Callers, NEW says, ~At(c, "idle"), Answer(c, says)
      PROVE  /\ \A u \in Users, d \in Callers : Solo(d, u)' => Solo(d, u)
             /\ \A u \in Users : ~(Solo(c, u))'
  BY <1>3 DEF Answer, Become, Solo, At, Idle, TypeOK
<1>4. ASSUME NEW c \in Callers, NEW u \in Users, NEW login \in BOOLEAN,
             NEW pc \in Handlers, Start(c, u, login, pc)
      PROVE  OneSolo'
  <2>1. ASSUME NEW v \in Users, NEW d \in Callers, (Solo(d, v))'
        PROVE  Solo(d, v)
    <3>1. CASE d = c
      BY <1>4, <2>1, <3>1 DEF Start, Solo, At, Handlers
    <3>2. CASE d # c /\ d \in AtWork(u)
      <4>1. call'[d] = [call[d] EXCEPT !.alone = FALSE]
        BY <1>4, <3>2 DEF Start
      <4>2. PICK R : R = call[d]
        OBVIOUS
      <4>3. R \in [pc : Pcs, user : Users, login : BOOLEAN, alone : BOOLEAN,
                  solo : BOOLEAN]
        BY <3>2, <4>2, CallRecord DEF AtWork
      <4> QED
        BY <2>1, <4>1, <4>2, <4>3 DEF Solo, At
    <3>3. CASE d # c /\ d \notin AtWork(u)
      BY <1>4, <2>1, <3>3 DEF Start, Solo, At
    <3> QED
      BY <3>1, <3>2, <3>3
  <2> QED
    BY <1>1, <1>4, <2>1, NoneMade DEF Start
<1>5. ASSUME NEW pc \in Handlers, NEW c \in Callers,
             \/ \E u \in Users : ByLogin(c, u, pc)
             \/ \E k \in Keys : APIKeyAuth(c, k, pc)
      PROVE  OneSolo'
  BY <1>4, <1>5, KeyFields DEF ByLogin, APIKeyAuth, GoodKey, Made
<1>6. ASSUME NEW c \in Callers, NEW pc, Fails(c, pc), pc # "idle"
      PROVE  OneSolo'
  <2>1. ~At(c, "idle")
    BY <1>6 DEF Fails, At
  <2> QED
    BY <1>1, <1>3, <1>6, <2>1, NoneMade DEF Fails
<1>7. ASSUME NEW c \in Callers, Count(c)
      PROVE  OneSolo'
  <2>1. ~At(c, "idle") /\ UNCHANGED key
    BY <1>7 DEF Count, At
  <2>2. CASE Answer(c, TRUE)
    BY <1>1, <1>3, <2>1, <2>2, NoneMade
  <2> DEFINE v == call[c].user
             others == { d \in AtWork(v) : At(d, "default") }
  <2>3. ASSUME NEW solo \in BOOLEAN,
               Become(c, [call[c] EXCEPT !.pc = "default", !.solo = solo]),
               solo => KeysOf(v) = {} /\ others = {}
        PROVE  OneSolo'
    <3> DEFINE to == [call[c] EXCEPT !.pc = "default", !.solo = solo]
    <3>1. /\ call'[c] = to
          /\ \A d \in Callers \ {c} : call'[d] = call[d]
      BY <2>3 DEF Become, TypeOK
    <3>2. call[c] \in [pc : Pcs, user : Users, login : BOOLEAN,
                      alone : BOOLEAN, solo : BOOLEAN]
      BY <2>1, CallRecord
    <3>3. to.user = v /\ to.solo = solo
      BY <3>2
    <3>4. CASE ~solo
      <4>1. \A u \in Users, d \in Callers : Solo(d, u)' => Solo(d, u)
        BY <3>1, <3>3, <3>4 DEF Solo, At
      <4> QED
        BY <1>1, <2>1, <4>1, NoneMade
    <3>5. CASE solo
      <4>1. KeysOf(v) = {} /\ others = {}
        BY <2>3, <3>5
      <4>2. \A d \in Callers : ~Solo(d, v)
        BY <4>1 DEF Solo, AtWork, At
      <4>3. \A u \in Users, d \in Callers :
              Solo(d, u)' <=> Solo(d, u) \/ (d = c /\ u = v)
        <5>1. \A u \in Users, d \in Callers \ {c} : Solo(d, u)' <=> Solo(d, u)
          BY <3>1 DEF Solo, At
        <5>2. ~At(c, "default")
          BY <1>7 DEF Count, At
        <5>3. to.pc = "default"
          BY <3>2
        <5>4. \A u \in Users : (Solo(c, u))' <=> u = v
          BY <3>1, <3>3, <3>5, <5>3 DEF Solo, At
        <5> QED
          BY <5>1, <5>2, <5>4 DEF Solo
      <4>4. \A u \in Users : SoloKeys(u)' = SoloKeys(u)
        BY <2>1 DEF SoloKeys, KeysOf
      <4>5. SoloKeys(v) = {}
        BY <4>1 DEF SoloKeys
      <4> QED
        BY <4>2, <4>3, <4>4, <4>5 DEF OneSolo
    <3> QED
      BY <3>4, <3>5
  <2>4. CASE KeysOf(v) = {} /\ Proceed(c, TRUE)
    BY <2>3, <2>4 DEF Proceed
  <2>5. CASE Proceed(c, FALSE)
    BY <2>3, <2>5 DEF Proceed
  <2> QED
    BY <1>7, <2>2, <2>4, <2>5 DEF Count
<1>8. ASSUME NEW c \in Callers, NEW k \in Keys,
             NEW pc \in {"default", "create"}, Insert(c, k, pc)
      PROVE  OneSolo'
  <2> DEFINE v == call[c].user
             s == call[c].solo
  <2>1. ~At(c, "idle") /\ (At(c, "default") \/ call[c].solo = FALSE)
    BY <1>8, CallFields DEF Insert, At
  <2>2. /\ \A u \in Users, d \in Callers : Solo(d, u)' => Solo(d, u)
        /\ \A u \in Users : ~(Solo(c, u))'
    BY <1>3, <1>8, <2>1 DEF Insert
  <2>3. /\ key'[k].user = v /\ key'[k].solo = s
        /\ \A j \in Keys \ {k} : key'[j] = key[j]
    BY <1>8 DEF Insert, TypeOK
  <2>4. CASE s = FALSE
    <3>1. \A u \in Users : SoloKeys(u)' \subseteq SoloKeys(u)
      BY <2>3, <2>4 DEF SoloKeys, KeysOf
    <3> QED
      BY <2>2, <3>1, NoneMade
  <2>5. CASE s # FALSE
    <3>1. Solo(c, v) /\ v \in Users
      BY <2>1, <2>5, CallFields DEF Solo
    <3>2. \A u \in Users : SoloKeys(u)' \subseteq
                           SoloKeys(u) \cup (IF u = v THEN {k} ELSE {})
      BY <2>3 DEF SoloKeys, KeysOf
    <3>3. SoloKeys(v) = {} /\ \A d \in Callers : Solo(d, v) => d = c
      BY <3>1 DEF OneSolo
    <3>4. ASSUME NEW u \in Users, u = v, NEW d \in Callers, (Solo(d, u))'
          PROVE  FALSE
      BY <2>2, <3>3, <3>4
    <3> QED
      BY <2>2, <3>2, <3>3, <3>4 DEF OneSolo
  <2> QED
    BY <2>4, <2>5
<1>9. ASSUME NEW c \in Callers, UnenrollDelivery(c)
      PROVE  OneSolo'
  <2>1. ~At(c, "idle")
    BY <1>9 DEF UnenrollDelivery, At
  <2>2. \A u \in Users : SoloKeys(u)' \subseteq SoloKeys(u)
    BY <1>9 DEF UnenrollDelivery, SoloKeys, KeysOf
  <2> QED
    BY <1>3, <1>9, <2>1, <2>2, NoneMade DEF UnenrollDelivery
<1>10. ASSUME NEW k \in Keys, Expire(k)
       PROVE  OneSolo'
  <2>1. \A u \in Users : SoloKeys(u)' \subseteq SoloKeys(u)
    <3>1. key[k].st = "live" /\ key' = [key EXCEPT ![k].st = "late"]
      BY <1>10 DEF Expire
    <3>2. PICK r : r = key[k]
      OBVIOUS
    <3>3. r \in [st : {"live", "late"}, user : Users, solo : BOOLEAN]
      <4>1. r \in KeyType
        BY <3>2 DEF TypeOK
      <4> QED
        BY <3>1, <3>2, <4>1 DEF KeyType
    <3>4. /\ key'[k].user = key[k].user /\ key'[k].solo = key[k].solo
          /\ \A j \in Keys \ {k} : key'[j] = key[j]
      BY <3>1, <3>2, <3>3 DEF TypeOK
    <3> QED
      BY <3>1, <3>4 DEF SoloKeys, KeysOf
  <2> QED
    BY <1>2, <1>10, <2>1, NoneMade DEF Expire
<1>11. CASE Restart
  <2>1. \A u \in Users, c \in Callers : ~(Solo(c, u))'
    BY <1>11 DEF Restart, Solo, At, Idle
  <2> QED
    BY <1>1, <1>11, <2>1, NoneMade DEF Restart
<1>12. CASE UNCHANGED <<key, call>>
  BY <1>1, <1>2, <1>12, NoneMade
<1> QED
  BY <1>5, <1>6, <1>7, <1>8, <1>9, <1>10, <1>11, <1>12
     DEF Next, HandlerNext, SessionNext, EnrollDelivery, CreateAPIKey, Auth,
         Mail, Rcpt, Reset, Data, DataRefused, StoreOne, Logout, CreateDomain,
         ChangeDomain

\* An enrolment whose count works while no other is about to insert a key finds
\* every key an earlier such enrolment made: a user never has two of these.
THEOREM OneDefaultKey == Spec => []EnrolledOnce
<1>1. Init => OneSolo
  BY DEF Init, OneSolo, SoloKeys, KeysOf, Solo, At, Idle
<1>2. OneSolo => EnrolledOnce
  BY DEF OneSolo, EnrolledOnce
<1>3. TypeOK /\ TypeOK' /\ OneSolo /\ [Next]_vars => OneSolo'
  BY NextSolo
<1> QED
  BY <1>1, <1>2, <1>3, TenantTypes, PTL DEF Spec

-----------------------------------------------------------------------------
(***************************************************************************)
(* Answers.  A handler that still counts as alone is the only one of its   *)
(* user, so nobody changes the keys between its work and its answer.       *)
(***************************************************************************)

AloneIsAlone ==
  \A c \in Callers : ~At(c, "idle") /\ call[c].alone =>
    AtWork(call[c].user) = {c}

\* A handler answers, having changed no keys but those of its user, and says
\* nothing false of them.
LEMMA AnswerAgrees ==
  ASSUME TypeOK, AloneIsAlone, EnabledAgrees,
         NEW c \in Callers, ~At(c, "idle"), NEW says, Answer(c, says),
         \A w \in Users \ {call[c].user} : KeysOf(w)' = KeysOf(w),
         \A w \in Users : w = call[c].user /\ says # None =>
           (says <=> KeysOf(w)' # {})
  PROVE  (AloneIsAlone /\ EnabledAgrees)'
<1>1. PICK v \in Users : v = call[c].user
  BY CallFields
<1>2. /\ call'[c] = Idle
      /\ \A d \in Callers \ {c} : call'[d] = call[d]
  BY DEF Answer, Become, TypeOK
<1>3. \A w \in Users : AtWork(w)' = AtWork(w) \ {c}
  BY <1>2 DEF AtWork, At, Idle
<1>4. c \in AtWork(v) /\ \A w \in Users \ {v} : c \notin AtWork(w)
  BY <1>1 DEF AtWork
<1>5. ASSUME NEW d \in Callers, (~At(d, "idle") /\ call[d].alone)'
      PROVE  (AtWork(call[d].user) = {d})'
  <2>1. d # c /\ call'[d] = call[d]
    BY <1>2, <1>5 DEF At, Idle
  <2>2. PICK w \in Users : w = call[d].user
    BY <1>5, <2>1, CallFields DEF At
  <2>3. AtWork(w) = {d}
    BY <1>5, <2>1, <2>2 DEF AloneIsAlone, At
  <2>4. AtWork(w)' = {d}
    BY <1>3, <2>1, <2>3
  <2> QED
    BY <2>1, <2>2, <2>4
<1>6. ASSUME NEW w \in Users, (AtWork(w) = {} /\ told[w] # None)'
      PROVE  (told[w] <=> KeysOf(w) # {})'
  <2>1. CASE w = v
    <3>1. told'[w] = IF call[c].alone THEN says ELSE None
      BY <1>1, <2>1 DEF Answer, TypeOK
    <3>2. told'[w] = says /\ says # None
      BY <1>6, <3>1
    <3> QED
      BY <1>1, <2>1, <3>2
  <2>2. CASE w # v
    <3>1. told'[w] = told[w]
      BY <1>1, <2>2 DEF Answer, TypeOK
    <3>2. KeysOf(w)' = KeysOf(w)
      BY <1>1, <2>2
    <3>3. AtWork(w)' = AtWork(w)
      <4>1. AtWork(w)' = AtWork(w) \ {c} /\ c \notin AtWork(w)
        BY <1>3, <1>4, <2>2
      <4> QED
        BY <4>1
    <3> QED
      BY <1>6, <3>1, <3>2, <3>3 DEF EnabledAgrees
  <2> QED
    BY <2>1, <2>2
<1> QED
  BY <1>5, <1>6 DEF AloneIsAlone, EnabledAgrees

\* A request that comes in does not work alone, and nobody beside it does.
LEMMA StartAgrees ==
  ASSUME TypeOK, AloneIsAlone, EnabledAgrees,
         NEW c \in Callers, NEW u \in Users, NEW login \in BOOLEAN,
         NEW pc \in Handlers, Start(c, u, login, pc)
  PROVE  (AloneIsAlone /\ EnabledAgrees)'
<1> DEFINE others == AtWork(u)
<1>1. At(c, "idle") /\ c \notin others
  BY DEF Start, AtWork
<1>2. /\ call'[c] = [pc |-> pc, user |-> u, login |-> login,
                     alone |-> others = {}, solo |-> FALSE]
      /\ \A d \in others : call'[d] = [call[d] EXCEPT !.alone = FALSE]
      /\ \A d \in Callers \ (others \cup {c}) : call'[d] = call[d]
  BY <1>1 DEF Start, AtWork
<1>3. ASSUME NEW d \in others
      PROVE  /\ call'[d].pc = call[d].pc /\ call'[d].user = u
             /\ call'[d].alone = FALSE
             /\ call[d].user = u /\ ~At(d, "idle")
  <2>1. d \in Callers /\ ~At(d, "idle") /\ call[d].user = u
    BY DEF AtWork
  <2>2. call[d] \in [pc : Pcs, user : Users, login : BOOLEAN,
                    alone : BOOLEAN, solo : BOOLEAN]
    BY <2>1, CallRecord
  <2> QED
    BY <1>2, <2>1, <2>2
<1>4. call'[c].pc # "idle" /\ call'[c].user = u
  BY <1>2 DEF Handlers
<1>5. AtWork(u)' = others \cup {c}
  BY <1>2, <1>3, <1>4 DEF AtWork, At
<1>6. \A w \in Users \ {u} : AtWork(w)' = AtWork(w)
  <2>1. ASSUME NEW w \in Users \ {u}, NEW d \in Callers
        PROVE  d \in AtWork(w)' <=> d \in AtWork(w)
    <3>1. CASE d = c
      BY <1>1, <1>4, <3>1 DEF AtWork, At
    <3>2. CASE d \in others
      BY <1>3, <3>2 DEF AtWork
    <3>3. CASE d \in Callers \ (others \cup {c})
      <4>1. call'[d] = call[d]
        BY <1>2, <3>3
      <4> QED
        BY <4>1 DEF AtWork, At
    <3> QED
      BY <3>1, <3>2, <3>3
  <2>2. \A w : AtWork(w) \subseteq Callers /\ AtWork(w)' \subseteq Callers
    BY DEF AtWork
  <2> QED
    BY <2>1, <2>2
<1>7. ASSUME NEW d \in Callers, (~At(d, "idle") /\ call[d].alone)'
      PROVE  (AtWork(call[d].user) = {d})'
  <2>1. CASE d = c
    <3>1. call'[c].alone => others = {}
      <4>1. CASE others = {}
        BY <4>1
      <4>2. CASE others # {}
        <5>1. (others = {}) = FALSE
          BY <4>2
        <5>2. call'[c] = [pc |-> pc, user |-> u, login |-> login,
                          alone |-> FALSE, solo |-> FALSE]
          BY <1>2, <5>1
        <5> QED
          BY <5>2
      <4> QED
        BY <4>1, <4>2
    <3>2. AtWork(u)' = {c}
      BY <1>5, <1>7, <2>1, <3>1
    <3> QED
      BY <1>4, <2>1, <3>2
  <2>2. CASE d \in others
    BY <1>3, <1>7, <2>2
  <2>3. CASE d \notin others \cup {c}
    <3>1. call'[d] = call[d] /\ ~At(d, "idle")
      BY <1>2, <1>7, <2>3 DEF At
    <3>2. PICK w \in Users : w = call[d].user
      BY <3>1, CallFields
    <3>3. AtWork(w) = {d} /\ w # u
      BY <1>7, <2>3, <3>1, <3>2 DEF AloneIsAlone, AtWork
    <3> QED
      BY <1>6, <3>1, <3>2, <3>3
  <2> QED
    BY <2>1, <2>2, <2>3
<1>8. \A w \in Users : KeysOf(w)' = KeysOf(w) /\ told'[w] = told[w]
  BY DEF Start, KeysOf
<1> QED
  BY <1>5, <1>6, <1>7, <1>8 DEF AloneIsAlone, EnabledAgrees

LEMMA ExpireKeeps ==
  ASSUME TypeOK, NEW k \in Keys, Expire(k)
  PROVE  /\ key'[k].st = "late" /\ key'[k].user = key[k].user
         /\ \A j \in Keys \ {k} : key'[j] = key[j]
         /\ \A w \in Users : KeysOf(w)' = KeysOf(w)
<1>1. key[k].st = "live" /\ key' = [key EXCEPT ![k].st = "late"]
  BY DEF Expire
<1>2. key[k] \in [st : {"live", "late"}, user : Users, solo : BOOLEAN]
  <2>1. key[k] \in KeyType
    BY DEF TypeOK
  <2> QED
    BY <1>1, <2>1 DEF KeyType
<1>3. /\ key'[k].st = "late" /\ key'[k].user = key[k].user
      /\ \A j \in Keys \ {k} : key'[j] = key[j]
  BY <1>1, <1>2 DEF TypeOK
<1> QED
  BY <1>1, <1>3 DEF KeysOf

LEMMA InsertKeys ==
  ASSUME TypeOK, NEW c \in Callers, NEW k \in Keys, NEW pc, Insert(c, k, pc)
  PROVE  /\ key'[k].st = "live" /\ key'[k].user = call[c].user
         /\ \A j \in Keys \ {k} : key'[j] = key[j]
         /\ \A w \in Users : KeysOf(w)' =
              IF w = call[c].user THEN KeysOf(w) \cup {k} ELSE KeysOf(w)
<1>1. /\ key'[k].st = "live" /\ key'[k].user = call[c].user
      /\ \A j \in Keys \ {k} : key'[j] = key[j]
      /\ key[k].st = "new"
  BY DEF Insert, TypeOK
<1> QED
  BY <1>1 DEF KeysOf

LEMMA UnenrollKeys ==
  ASSUME TypeOK, NEW c \in Callers, UnenrollDelivery(c)
  PROVE  \A w \in Users : KeysOf(w)' =
           IF w = call[c].user THEN {} ELSE KeysOf(w)
<1>1. /\ \A k \in KeysOf(call[c].user) : key'[k].st = "gone"
      /\ \A k \in Keys \ KeysOf(call[c].user) : key'[k] = key[k]
  BY DEF UnenrollDelivery, Revoked, KeysOf
<1> QED
  BY <1>1 DEF KeysOf

LEMMA NextEnabled ==
  ASSUME TypeOK, AloneIsAlone, EnabledAgrees, [Next]_vars
  PROVE  (AloneIsAlone /\ EnabledAgrees)'
<1>1. ASSUME NEW c \in Callers, NEW pc \in Handlers,
             \/ \E u \in Users : ByLogin(c, u, pc)
             \/ \E k \in Keys : APIKeyAuth(c, k, pc)
      PROVE  (AloneIsAlone /\ EnabledAgrees)'
  BY <1>1, StartAgrees, KeyFields DEF ByLogin, APIKeyAuth, GoodKey, Made
<1>2. ASSUME NEW c \in Callers, NEW pc, pc # "idle", Fails(c, pc)
      PROVE  (AloneIsAlone /\ EnabledAgrees)'
  <2>1. ~At(c, "idle") /\ Answer(c, None)
    BY <1>2 DEF Fails, At
  <2>2. \A w \in Users : KeysOf(w)' = KeysOf(w)
    BY <1>2 DEF Fails, KeysOf
  <2> QED
    BY <2>1, <2>2, AnswerAgrees
<1>3. ASSUME NEW c \in Callers, Count(c)
      PROVE  (AloneIsAlone /\ EnabledAgrees)'
  <2>1. ~At(c, "idle") /\ UNCHANGED key
    BY <1>3 DEF Count, At
  <2>2. \A w \in Users : KeysOf(w)' = KeysOf(w)
    BY <2>1 DEF KeysOf
  <2>3. CASE KeysOf(call[c].user) # {} /\ Answer(c, TRUE)
    BY <2>1, <2>2, <2>3, AnswerAgrees
  <2>4. ASSUME NEW solo, UNCHANGED told,
               Become(c, [call[c] EXCEPT !.pc = "default", !.solo = solo])
        PROVE  (AloneIsAlone /\ EnabledAgrees)'
    <3>1. call[c] \in [pc : Pcs, user : Users, login : BOOLEAN,
                      alone : BOOLEAN, solo : BOOLEAN]
      BY <2>1, CallRecord
    <3>2. /\ call'[c].user = call[c].user /\ call'[c].alone = call[c].alone
          /\ call'[c].pc # "idle"
          /\ \A d \in Callers \ {c} : call'[d] = call[d]
      BY <2>4, <3>1 DEF Become, TypeOK
    <3>3. \A w \in Users : AtWork(w)' = AtWork(w)
      BY <2>1, <3>2 DEF AtWork, At
    <3>4. ASSUME NEW d \in Callers, (~At(d, "idle") /\ call[d].alone)'
          PROVE  (AtWork(call[d].user) = {d})'
      <4>1. /\ ~At(d, "idle") /\ call[d].alone
            /\ call'[d].user = call[d].user
        BY <2>1, <3>2, <3>4 DEF At
      <4>2. PICK w \in Users : w = call[d].user
        BY <4>1, CallFields
      <4>3. AtWork(w) = {d}
        BY <4>1, <4>2 DEF AloneIsAlone
      <4> QED
        BY <3>3, <4>1, <4>2, <4>3
    <3> QED
      BY <2>2, <2>4, <3>3, <3>4 DEF AloneIsAlone, EnabledAgrees
  <2> QED
    BY <1>3, <2>3, <2>4 DEF Count, Proceed
<1>4. ASSUME NEW c \in Callers, NEW k \in Keys,
             NEW pc \in {"default", "create"}, Insert(c, k, pc)
      PROVE  (AloneIsAlone /\ EnabledAgrees)'
  <2>1. ~At(c, "idle") /\ Answer(c, TRUE)
    BY <1>4 DEF Insert, At
  <2>2. \A w \in Users : KeysOf(w)' =
          IF w = call[c].user THEN KeysOf(w) \cup {k} ELSE KeysOf(w)
    BY <1>4, InsertKeys
  <2>3. /\ \A w \in Users \ {call[c].user} : KeysOf(w)' = KeysOf(w)
        /\ \A w \in Users : w = call[c].user => KeysOf(w)' # {}
    BY <2>2
  <2> QED
    BY <2>1, <2>3, AnswerAgrees
<1>5. ASSUME NEW c \in Callers, UnenrollDelivery(c)
      PROVE  (AloneIsAlone /\ EnabledAgrees)'
  <2>1. ~At(c, "idle") /\ Answer(c, FALSE)
    BY <1>5 DEF UnenrollDelivery, At
  <2>2. \A w \in Users :
          KeysOf(w)' = IF w = call[c].user THEN {} ELSE KeysOf(w)
    BY <1>5, UnenrollKeys
  <2>3. /\ \A w \in Users \ {call[c].user} : KeysOf(w)' = KeysOf(w)
        /\ \A w \in Users : w = call[c].user => KeysOf(w)' = {}
    BY <2>2
  <2> QED
    BY <2>1, <2>3, AnswerAgrees
<1>6. CASE UNCHANGED <<call, told>> /\ \A w \in Users : KeysOf(w)' = KeysOf(w)
  BY <1>6 DEF AloneIsAlone, EnabledAgrees, AtWork, At
<1>7. ASSUME NEW k \in Keys, Expire(k)
      PROVE  UNCHANGED <<call, told>> /\ \A w \in Users : KeysOf(w)' = KeysOf(w)
  BY <1>7, ExpireKeeps DEF Expire
<1>8. CASE UNCHANGED <<key, call, told>>
  BY <1>6, <1>8 DEF KeysOf
<1>9. CASE Restart
  BY <1>9 DEF Restart, AloneIsAlone, EnabledAgrees, At, Idle
<1> QED
  BY <1>1, <1>2, <1>3, <1>4, <1>5, <1>6, <1>7, <1>8, <1>9
     DEF Next, HandlerNext, SessionNext, EnrollDelivery, CreateAPIKey, Auth,
         Mail, Rcpt, Reset, Data, DataRefused, StoreOne, Logout, CreateDomain,
         ChangeDomain

\* When the handlers of a user are done, the answer of one that worked alone is
\* what accounts is told of the user.
THEOREM AnswersAgree == Spec => []EnabledAgrees
<1>1. Init => AloneIsAlone /\ EnabledAgrees
  BY DEF Init, AloneIsAlone, EnabledAgrees, At, Idle
<1>2. TypeOK /\ AloneIsAlone /\ EnabledAgrees /\ [Next]_vars
        => AloneIsAlone' /\ EnabledAgrees'
  BY NextEnabled
<1> QED
  BY <1>1, <1>2, TenantTypes, PTL DEF Spec

-----------------------------------------------------------------------------
(***************************************************************************)
(* Revocation.                                                             *)
(***************************************************************************)

\* A login of the user.
LogsIn(u) == \E c \in Callers : call'[c].pc # "idle" /\ call'[c].user = u
                               /\ call'[c].login

LEMMA OutUnless ==
  ASSUME TypeOK, [Next]_vars, NEW u \in Users, Out(u), ~LogsIn(u)
  PROVE  Out(u)' /\ MailOf(u)' = MailOf(u)
<1>1. (\A k \in KeysOf(u) : key[k].st = "late")'
  <2>1. CASE UNCHANGED key
    BY <2>1 DEF Out, KeysOf
  <2>2. ASSUME NEW c \in Callers, NEW k \in Keys,
               NEW pc \in {"default", "create"}, Insert(c, k, pc)
        PROVE  (\A j \in KeysOf(u) : key[j].st = "late")'
    <3>1. call[c].user # u
      BY <2>2 DEF Insert, Out, AtWork, At
    <3> QED
      BY <2>2, <3>1, InsertKeys DEF Out, KeysOf
  <2>3. ASSUME NEW c \in Callers, UnenrollDelivery(c)
        PROVE  (\A j \in KeysOf(u) : key[j].st = "late")'
    BY <2>3 DEF UnenrollDelivery, Revoked, Out, KeysOf
  <2>4. ASSUME NEW k \in Keys, Expire(k)
        PROVE  (\A j \in KeysOf(u) : key[j].st = "late")'
    BY <2>4, ExpireKeeps DEF Out, KeysOf
  <2> QED
    BY <2>1, <2>2, <2>3, <2>4
       DEF Next, HandlerNext, SessionNext, ByLogin, APIKeyAuth, Start, Fails,
           Count, Proceed, EnrollDelivery, CreateAPIKey, Auth, Mail, Rcpt,
           Reset, Data,
           DataRefused, StoreOne, Logout, CreateDomain, ChangeDomain, Restart
<1>2. AtWork(u)' = {}
  <2>1. ASSUME NEW c \in Callers, c \in AtWork(u)'
        PROVE  FALSE
    <3>1. At(c, "idle") \/ call[c].user # u
      BY DEF Out, AtWork
    <3>2. call'[c].pc # "idle" /\ call'[c].user = u /\ ~call'[c].login
      BY <2>1 DEF AtWork, At, LogsIn
    <3>3. ASSUME NEW d \in Callers, NEW v \in Users, NEW login \in BOOLEAN,
                 NEW pc \in Handlers, Start(d, v, login, pc),
                 v = u => login = TRUE
          PROVE  FALSE
      <4>1. CASE d = c
        BY <3>2, <3>3, <4>1 DEF Start
      <4>2. CASE d # c /\ c \in AtWork(v)
        <5>1. call'[c] = [call[c] EXCEPT !.alone = FALSE]
          BY <3>3, <4>2 DEF Start
        <5>2. call[c] \in [pc : Pcs, user : Users, login : BOOLEAN,
                          alone : BOOLEAN, solo : BOOLEAN]
          BY <4>2, CallRecord DEF AtWork
        <5> QED
          BY <3>1, <3>2, <4>2, <5>1, <5>2 DEF AtWork, At
      <4>3. CASE d # c /\ c \notin AtWork(v)
        BY <3>1, <3>2, <3>3, <4>3 DEF Start, At
      <4> QED
        BY <4>1, <4>2, <4>3
    <3>4. ASSUME NEW d \in Callers, NEW pc \in Handlers,
                 \/ \E v \in Users : ByLogin(d, v, pc)
                 \/ \E k \in Keys : APIKeyAuth(d, k, pc)
          PROVE  FALSE
      <4>1. ASSUME NEW k \in Keys, APIKeyAuth(d, k, pc)
            PROVE  FALSE
        <5>1. key[k].user \in Users /\ key[k].user # u
          BY <4>1, KeyFields DEF APIKeyAuth, GoodKey, Made, Out, KeysOf
        <5> QED
          BY <3>3, <4>1, <5>1 DEF APIKeyAuth
      <4> QED
        BY <3>3, <3>4, <4>1 DEF ByLogin
    <3>5. ASSUME NEW d \in Callers, NEW says, Answer(d, says)
          PROVE  FALSE
      BY <3>1, <3>2, <3>5 DEF Answer, Become, Idle, At, TypeOK
    <3>6. ASSUME NEW d \in Callers, Count(d)
          PROVE  FALSE
      <4>1. d \in Callers /\ At(d, "enroll") /\ call[d].user # u
        BY <3>6 DEF Count, Out, AtWork, At
      <4>2. call[d] \in [pc : Pcs, user : Users, login : BOOLEAN,
                        alone : BOOLEAN, solo : BOOLEAN]
        BY <4>1, CallRecord DEF At
      <4>3. ASSUME NEW solo,
                   Become(d, [call[d] EXCEPT !.pc = "default", !.solo = solo])
            PROVE  FALSE
        BY <3>1, <3>2, <4>1, <4>2, <4>3 DEF Become, At, TypeOK
      <4> QED
        BY <3>5, <3>6, <4>3 DEF Count, Proceed
    <3>7. call' # call
      BY <3>1, <3>2 DEF At
    <3>8. CASE Restart
      BY <3>2, <3>8 DEF Restart, Idle
    <3> QED
      BY <3>4, <3>5, <3>6, <3>7, <3>8
         DEF Next, HandlerNext, SessionNext, Fails, EnrollDelivery,
             CreateAPIKey, Insert, UnenrollDelivery, Auth, Mail, Rcpt, Reset,
             Data, DataRefused, StoreOne, Logout, Expire, CreateDomain,
             ChangeDomain
  <2> QED
    BY <2>1 DEF AtWork
<1>3. ASSUME NEW x \in Clients PROVE smtp'[x].user # u
  <2>1. smtp[x].user # u /\ u # None
    BY TenantsAssumption DEF Out
  <2>2. CASE UNCHANGED smtp[x]
    BY <2>1, <2>2
  <2>3. ASSUME NEW k \in Keys, Auth(x, k)
        PROVE  smtp'[x].user # u
    <3>1. key[k].user # u
      BY <2>3 DEF Auth, GoodKey, Out, KeysOf
    <3> QED
      BY <2>3, <3>1, SmtpFields DEF Auth, Session, TypeOK, OpenType
  <2>4. ASSUME Session(x, Cleared(x)) PROVE smtp'[x].user # u
    BY <2>1, <2>4, ClearedOK DEF Session, TypeOK
  <2>5. CASE Mail(x) \/ Rcpt(x)
    BY <2>1, <2>5, SmtpFields
       DEF Mail, Rcpt, Talking, Session, TypeOK, OpenType
  <2>6. ASSUME NEW i \in Rows, Data(x, i)
        PROVE  smtp'[x].user # u
    BY <2>1, <2>6 DEF Data, Session, TypeOK
  <2>7. CASE StoreOne(x)
    <3>1. CASE Session(x, [smtp[x] EXCEPT !.to = @ - 1])
      BY <2>1, <2>7, <3>1, SmtpFields
         DEF StoreOne, Session, TypeOK, StoreType
    <3> QED
      BY <2>4, <2>7, <3>1 DEF StoreOne
  <2>8. CASE Logout(x) \/ Restart
    BY <2>1, <2>8 DEF Logout, Restart, Session, Open, TypeOK
  <2>9. ASSUME NEW y \in Clients \ {x}, SessionNext(y)
        PROVE  smtp'[x] = smtp[x]
    BY <2>9 DEF SessionNext, Auth, Mail, Rcpt, Reset, Data, DataRefused,
                StoreOne, Logout, Session, TypeOK
  <2>10. CASE SessionNext(x)
    BY <2>3, <2>4, <2>5, <2>6, <2>7, <2>8, <2>10
       DEF SessionNext, Reset, DataRefused
  <2> QED
    BY <2>2, <2>8, <2>9, <2>10
       DEF Next, HandlerNext, ByLogin, APIKeyAuth, Start, Fails, Count, Proceed,
           EnrollDelivery, CreateAPIKey, Insert, UnenrollDelivery, Expire,
           CreateDomain, ChangeDomain
<1>4. MailOf(u)' = MailOf(u)
  <2>1. CASE UNCHANGED messages
    BY <2>1 DEF MailOf
  <2>2. ASSUME NEW x \in Clients, StoreOne(x)
        PROVE  MailOf(u)' = MailOf(u)
    BY <2>2 DEF StoreOne, Stored, MailOf, Out
  <2> QED
    BY <2>1, <2>2
       DEF Next, HandlerNext, SessionNext, ByLogin, APIKeyAuth, Start, Fails,
           Count, Proceed, EnrollDelivery, CreateAPIKey, Insert,
           UnenrollDelivery, Auth,
           Mail, Rcpt, Reset, Data, DataRefused, Logout, Expire, CreateDomain,
           ChangeDomain, Restart
<1> QED
  BY <1>1, <1>2, <1>3, <1>4 DEF Out

\* A tenant without a good key, a request or a session stays out until a login.
THEOREM RevokedStaysRevoked == Spec => OutStaysOut
<1>1. TypeOK /\ [Next]_vars =>
        [ \A u \in Users :
            Out(u) => \/ Out(u)' /\ MailOf(u)' = MailOf(u)
                      \/ \E c \in Callers :
                           call'[c].pc # "idle" /\ call'[c].user = u
                             /\ call'[c].login ]_vars
  BY OutUnless DEF LogsIn
<1> QED
  BY <1>1, TenantTypes, PTL DEF Spec, OutStaysOut

-----------------------------------------------------------------------------
(***************************************************************************)
(* Tenants implements Tenancy: types are all it takes, since every action  *)
(* tests what it relies on.                                                *)
(***************************************************************************)

LEMMA SameViews ==
  /\ key' = key => Tenancy!keys' = Tenancy!keys
  /\ call' = call => Tenancy!guests' = Tenancy!guests
  /\ smtp' = smtp => Tenancy!sessions' = Tenancy!sessions
  /\ domain' = domain => Tenancy!domains' = Tenancy!domains
<1>1. key' = key => Tenancy!keys' = Tenancy!keys
  BY DEF Tenancy!keys, Standing, Holder
<1>2. call' = call => Tenancy!guests' = Tenancy!guests
  BY DEF Tenancy!guests, Guest, Came, At
<1>3. smtp' = smtp => Tenancy!sessions' = Tenancy!sessions
  BY DEF Tenancy!sessions, Account, Badge, SendsFor
<1>4. domain' = domain => Tenancy!domains' = Tenancy!domains
  BY DEF Tenancy!domains, Owner, Verified
<1> QED
  BY <1>1, <1>2, <1>3, <1>4

\* A request comes in, for whatever its handler.
LEMMA ComesInStep ==
  ASSUME TypeOK, NEW c \in Callers, NEW u \in Users, NEW login \in BOOLEAN,
         NEW pc \in Handlers, Start(c, u, login, pc)
  PROVE  /\ Tenancy!ComesIn(c, u, IF login THEN "login" ELSE "key")
         /\ UNCHANGED <<Tenancy!sessions, Tenancy!domains, messages>>
<1>1. /\ Came[c] = "out" /\ pc # "idle"
      /\ call' = [d \in Callers |-> call'[d]]
      /\ call'[c].pc = pc /\ call'[c].user = u /\ call'[c].login = login
  BY DEF Start, Came, At, Handlers
<1>2. ASSUME NEW d \in Callers, d # c
      PROVE  /\ call'[d].pc = call[d].pc /\ call'[d].user = call[d].user
             /\ call'[d].login = call[d].login
  <2>1. CASE d \in AtWork(u)
    <3>1. ~At(d, "idle") /\ call'[d] = [call[d] EXCEPT !.alone = FALSE]
      BY <1>2, <2>1 DEF Start, AtWork
    <3> QED
      BY <3>1, CallRecord
  <2>2. CASE d \notin AtWork(u)
    BY <1>2, <2>2 DEF Start
  <2> QED
    BY <2>1, <2>2
<1>3. Came' = [Came EXCEPT ![c] = IF login THEN "login" ELSE "key"]
  BY <1>1, <1>2 DEF Came, At
<1>4. Guest' = [Guest EXCEPT ![c] = u]
  BY <1>1, <1>2 DEF Guest, At
<1>5. UNCHANGED <<Tenancy!keys, Tenancy!sessions, Tenancy!domains, messages>>
  BY SameViews DEF Start
<1> QED
  BY <1>1, <1>3, <1>4, <1>5 DEF Tenancy!ComesIn

LEMMA LeavesStep ==
  ASSUME TypeOK, NEW c \in Callers, ~At(c, "idle"), Become(c, Idle)
  PROVE  Tenancy!Leaves(c)
<1>1. /\ call'[c].pc = "idle"
      /\ \A d \in Callers : d # c => call'[d] = call[d]
  BY DEF TypeOK, Become, Idle
<1>2. Came[c] # "out"
  BY DEF Came
<1>3. Came' = [Came EXCEPT ![c] = "out"]
  BY <1>1 DEF Came, At
<1>4. Guest' = [Guest EXCEPT ![c] = None]
  BY <1>1 DEF Guest, At
<1> QED
  BY <1>2, <1>3, <1>4 DEF Tenancy!Leaves

\* A session goes on: for its user, key and row it is what it becomes.
LEMMA SessionViews ==
  ASSUME TypeOK, NEW x \in Clients, NEW to, Session(x, to)
  PROVE  /\ Account' = [Account EXCEPT ![x] = to.user]
         /\ Badge' = [Badge EXCEPT ![x] = to.key]
         /\ SendsFor' = [SendsFor EXCEPT ![x] = IF to.pc = "store" THEN to.row
                                               ELSE None]
<1>1. smtp'[x] = to /\ \A y \in Clients : y # x => smtp'[y] = smtp[y]
  BY DEF Session, TypeOK
<1> QED
  BY <1>1 DEF Account, Badge, SendsFor

LEMMA SessionSame ==
  ASSUME TypeOK, NEW x \in Clients, NEW to, Session(x, to),
         to.user = smtp[x].user, to.key = smtp[x].key,
         to.pc = "open", smtp[x].pc = "open"
  PROVE  UNCHANGED Tenancy!sessions
<1>1. /\ to.user = Account[x] /\ to.key = Badge[x]
      /\ to.pc # "store" /\ SendsFor[x] = None
  BY DEF Account, Badge, SendsFor
<1>2. /\ Account' = [Account EXCEPT ![x] = Account[x]]
      /\ Badge' = [Badge EXCEPT ![x] = Badge[x]]
      /\ SendsFor' = [SendsFor EXCEPT ![x] = SendsFor[x]]
  BY <1>1, SessionViews
<1>3. UNCHANGED Account
  BY <1>2 DEF Account
<1>4. UNCHANGED Badge
  BY <1>2 DEF Badge
<1>5. UNCHANGED SendsFor
  BY <1>2 DEF SendsFor
<1> QED
  BY <1>3, <1>4, <1>5 DEF Tenancy!sessions

LEMMA CallerSteps ==
  ASSUME TypeOK, NEW c \in Callers, HandlerNext(c)
  PROVE  Tenancy!CallerSteps \/ UNCHANGED Tenancy!tenancy
<1> DEFINE Rest == UNCHANGED <<Tenancy!sessions, Tenancy!domains, messages>>
<1>1. ASSUME NEW pc \in Handlers, NEW u \in Users, ByLogin(c, u, pc)
      PROVE  Tenancy!CallerSteps
  <2>1. Tenancy!LogIn(c, u) /\ Rest
    BY <1>1, ComesInStep DEF ByLogin, Tenancy!LogIn
  <2> QED
    BY <2>1 DEF Tenancy!CallerSteps
<1>2. ASSUME NEW pc \in Handlers, NEW k \in Keys, APIKeyAuth(c, k, pc)
      PROVE  Tenancy!CallerSteps
  <2>1. key[k].st = "live" /\ key[k].user \in Users
    BY <1>2, KeyFields DEF APIKeyAuth, GoodKey, Made
  <2>2. Standing[k] = "good" /\ Holder[k] = key[k].user
    BY <2>1 DEF Standing, Holder
  <2>3. Tenancy!ComesIn(c, key[k].user, "key") /\ Rest
    BY <1>2, <2>1, ComesInStep DEF APIKeyAuth
  <2>4. Tenancy!ShowKey(c, k)
    BY <2>2, <2>3 DEF Tenancy!ShowKey
  <2> QED
    BY <2>3, <2>4 DEF Tenancy!CallerSteps
<1>3. ASSUME NEW says, Answer(c, says), ~At(c, "idle"),
             UNCHANGED <<key, domain, messages, smtp>>
      PROVE  Tenancy!CallerSteps
  <2>1. Tenancy!Leaves(c)
    BY <1>3, LeavesStep DEF Answer
  <2>2. Tenancy!GoAway(c) /\ Rest
    BY <1>3, <2>1, SameViews DEF Tenancy!GoAway
  <2> QED
    BY <2>2 DEF Tenancy!CallerSteps
<1>4. ASSUME NEW pc \in {"default", "create", "unenroll"}, Fails(c, pc)
      PROVE  Tenancy!CallerSteps
  <2>1. ~At(c, "idle")
    BY <1>4 DEF Fails, At
  <2> QED
    BY <1>3, <1>4, <2>1 DEF Fails
<1>5. CASE Count(c)
  <2>1. ~At(c, "idle")
    BY <1>5 DEF Count, At
  <2>2. CASE Answer(c, TRUE)
    BY <1>3, <1>5, <2>1, <2>2 DEF Count
  <2>3. ASSUME NEW solo,
               Become(c, [call[c] EXCEPT !.pc = "default", !.solo = solo])
        PROVE  UNCHANGED Tenancy!tenancy
    <3>1. /\ call'[c].pc = "default" /\ call'[c].user = call[c].user
          /\ call'[c].login = call[c].login
          /\ \A d \in Callers : d # c => call'[d] = call[d]
      BY <2>1, <2>3, CallRecord DEF Become, TypeOK
    <3>2. \A d \in Callers : /\ At(d, "idle")' <=> At(d, "idle")
                             /\ call'[d].user = call[d].user
                             /\ call'[d].login = call[d].login
      BY <2>1, <3>1 DEF At
    <3>3. UNCHANGED <<Guest, Came>>
      BY <3>2 DEF Guest, Came
    <3> QED
      BY <1>5, <3>3, SameViews DEF Count, Tenancy!tenancy, Tenancy!guests
  <2> QED
    BY <1>5, <2>2, <2>3 DEF Count, Proceed
<1>6. ASSUME NEW k \in Keys, NEW pc \in {"default", "create"}, Insert(c, k, pc)
      PROVE  Tenancy!CallerSteps
  <2>1. ~At(c, "idle") /\ key[k].st = "new"
    BY <1>6 DEF Insert, At
  <2>2. /\ key'[k].st = "live" /\ key'[k].user = call[c].user
        /\ \A j \in Keys : j # k => key'[j] = key[j]
    BY <1>6 DEF Insert, TypeOK
  <2>3. Tenancy!Leaves(c)
    BY <1>6, <2>1, LeavesStep DEF Insert, Answer
  <2>4. Standing[k] = "unmade" /\ Guest[c] = call[c].user
    BY <2>1 DEF Standing, Guest
  <2>5. Standing' = [Standing EXCEPT ![k] = "good"]
    BY <2>2 DEF Standing
  <2>6. Holder' = [Holder EXCEPT ![k] = Guest[c]]
    BY <2>2, <2>4 DEF Holder
  <2>7. Tenancy!Grant(c, k)
    BY <2>3, <2>4, <2>5, <2>6 DEF Tenancy!Grant
  <2>8. Rest
    BY <1>6, SameViews DEF Insert
  <2> QED
    BY <2>7, <2>8 DEF Tenancy!CallerSteps
<1>7. CASE UnenrollDelivery(c)
  <2>1. ~At(c, "idle") /\ call[c].user \in Users /\ call[c].user # None
    BY <1>7, CallFields, TenantsAssumption DEF UnenrollDelivery, At
  <2>2. Guest[c] = call[c].user
    BY <2>1 DEF Guest
  <2>3. Tenancy!Leaves(c)
    BY <1>7, <2>1, LeavesStep DEF UnenrollDelivery, Answer
  <2>4. ASSUME NEW k \in Keys
        PROVE  /\ Holder'[k] = Holder[k]
               /\ Standing'[k] = IF Holder[k] = Guest[c] THEN "dead"
                                 ELSE Standing[k]
    <3>1. /\ k \in KeysOf(call[c].user) =>
                key'[k] = [st |-> "gone", user |-> key[k].user]
          /\ k \notin KeysOf(call[c].user) => key'[k] = key[k]
      BY <1>7 DEF UnenrollDelivery, Revoked
    <3>2. key[k].st \in {"new", "live", "late", "gone"}
      BY KeyFields
    <3>3. CASE k \in KeysOf(call[c].user)
      BY <2>2, <3>1, <3>3 DEF KeysOf, Standing, Holder
    <3>4. CASE k \notin KeysOf(call[c].user)
      BY <2>1, <2>2, <3>1, <3>2, <3>4 DEF KeysOf, Standing, Holder
    <3> QED
      BY <3>3, <3>4
  <2>5. Holder' = Holder
    BY <2>4 DEF Holder
  <2>6. Standing' = [k \in Keys |-> IF Holder[k] = Guest[c] THEN "dead"
                                   ELSE Standing[k]]
    BY <2>4 DEF Standing
  <2>7. Tenancy!Withdraw(c)
    BY <2>3, <2>5, <2>6 DEF Tenancy!Withdraw
  <2>8. Rest
    BY <1>7, SameViews DEF UnenrollDelivery
  <2> QED
    BY <2>7, <2>8 DEF Tenancy!CallerSteps
<1> QED
  BY <1>1, <1>2, <1>4, <1>5, <1>6, <1>7
     DEF HandlerNext, EnrollDelivery, CreateAPIKey

LEMMA SessionMoves ==
  ASSUME TypeOK, NEW x \in Clients, SessionNext(x)
  PROVE  Tenancy!SessionSteps \/ UNCHANGED Tenancy!tenancy
<1> DEFINE Rest == UNCHANGED <<Tenancy!keys, Tenancy!guests, Tenancy!domains>>
<1>0. Rest
  BY SameViews DEF SessionNext, Auth, Mail, Rcpt, Reset, Data, DataRefused,
                   StoreOne, Logout
<1>a. /\ smtp[x].pc = "open" => smtp[x] \in OpenType
      /\ smtp[x].pc = "store" => smtp[x] \in StoreType
      /\ smtp[x].pc \in {"open", "store"}
      /\ smtp[x].user = None <=> smtp[x].key = None
  BY SmtpFields
<1>b. /\ Account[x] = smtp[x].user /\ Badge[x] = smtp[x].key
      /\ smtp[x].pc = "store" => SendsFor[x] = smtp[x].row
  BY DEF Account, Badge, SendsFor
<1>c. /\ Cleared(x).pc = "open" /\ Cleared(x).user = smtp[x].user
      /\ Cleared(x).key = smtp[x].key
  BY DEF Cleared, Open
<1>1. ASSUME NEW to, Session(x, to), smtp[x].pc = "open", to.pc = "open",
             to.user = smtp[x].user, to.key = smtp[x].key, UNCHANGED messages
      PROVE  UNCHANGED Tenancy!tenancy
  BY <1>0, <1>1, SessionSame DEF Tenancy!tenancy
<1>2. ASSUME NEW k \in Keys, Auth(x, k) PROVE Tenancy!SessionSteps
  <2> DEFINE to == [smtp[x] EXCEPT !.user = key[k].user, !.key = k]
  <2>1. /\ Standing[k] = "good" /\ Holder[k] = key[k].user
        /\ Account[x] = None
    BY <1>2, <1>a, <1>b DEF Auth, GoodKey, Standing, Holder
  <2>2. to.pc = "open" /\ to.user = Holder[k] /\ to.key = k
    BY <1>2, <1>a, <2>1 DEF Auth, OpenType
  <2>3. SendsFor[x] = None
    BY <1>2 DEF Auth, SendsFor
  <2>4. /\ Account' = [Account EXCEPT ![x] = to.user]
        /\ Badge' = [Badge EXCEPT ![x] = to.key]
        /\ SendsFor' = [SendsFor EXCEPT ![x] = IF to.pc = "store" THEN to.row
                                              ELSE None]
    BY <1>2, SessionViews DEF Auth
  <2> HIDE DEF to
  <2>5. SendsFor' = SendsFor
    BY <2>2, <2>3, <2>4 DEF SendsFor
  <2>6. Tenancy!OpenSession(x, k)
    BY <1>2, <2>1, <2>2, <2>4, <2>5 DEF Auth, Tenancy!OpenSession
  <2> QED
    BY <1>0, <2>6 DEF Tenancy!SessionSteps
<1>3. CASE Mail(x) \/ Rcpt(x) \/ Reset(x) \/ DataRefused(x)
  <2>1. smtp[x].pc = "open" /\ smtp[x] \in OpenType /\ UNCHANGED messages
    BY <1>3, <1>a DEF Mail, Rcpt, Reset, DataRefused, Talking
  <2>2. CASE Session(x, [smtp[x] EXCEPT !.from = TRUE])
    BY <1>1, <2>1, <2>2 DEF OpenType
  <2>3. CASE Session(x, [smtp[x] EXCEPT !.to = @ + 1])
    BY <1>1, <2>1, <2>3 DEF OpenType
  <2>4. CASE Session(x, Cleared(x))
    BY <1>1, <1>c, <2>1, <2>4
  <2> QED
    BY <1>3, <2>2, <2>3, <2>4 DEF Mail, Rcpt, Reset, DataRefused
<1>4. ASSUME NEW i \in Rows, Data(x, i) PROVE Tenancy!SessionSteps
  <2>1. /\ smtp[x].pc = "open" /\ smtp[x].user # None
        /\ domain[i].st = "verified" /\ domain[i].user = smtp[x].user
    BY <1>4, <1>a DEF Data, Talking, Sendable
  <2>2. /\ Account[x] # None /\ i \in Verified /\ Owner[i] = Account[x]
    BY <1>b, <2>1 DEF Verified, Owner
  <2>3. /\ Account' = [Account EXCEPT ![x] = Account[x]]
        /\ Badge' = [Badge EXCEPT ![x] = Badge[x]]
        /\ SendsFor' = [SendsFor EXCEPT ![x] = i]
    BY <1>4, <1>b, SessionViews DEF Data
  <2>4. Account' = Account /\ Badge' = Badge
    BY <2>3 DEF Account, Badge
  <2>5. Tenancy!TakeRow(x, i)
    BY <1>4, <2>2, <2>3, <2>4 DEF Data, Tenancy!TakeRow
  <2> QED
    BY <1>0, <2>5 DEF Tenancy!SessionSteps
<1>5. CASE StoreOne(x)
  <2>1. /\ smtp[x].pc = "store" /\ smtp[x] \in StoreType
        /\ SendsFor[x] = smtp[x].row /\ SendsFor[x] # None
    BY <1>5, <1>a, <1>b, TenantsAssumption DEF StoreOne, StoreType
  <2>2. ASSUME Session(x, Cleared(x))
        PROVE  /\ UNCHANGED <<Account, Badge>>
               /\ SendsFor' = [SendsFor EXCEPT ![x] = None]
    <3>1. /\ Account' = [Account EXCEPT ![x] = Account[x]]
          /\ Badge' = [Badge EXCEPT ![x] = Badge[x]]
          /\ SendsFor' = [SendsFor EXCEPT ![x] = None]
      BY <1>b, <1>c, <2>2, SessionViews
    <3> QED
      BY <3>1 DEF Account, Badge
  <2>3. ASSUME Session(x, [smtp[x] EXCEPT !.to = @ - 1])
        PROVE  UNCHANGED <<Account, Badge, SendsFor>>
    <3> DEFINE to == [smtp[x] EXCEPT !.to = @ - 1]
    <3>1. /\ to.pc = "store" /\ to.user = Account[x] /\ to.key = Badge[x]
          /\ to.row = SendsFor[x]
      BY <1>b, <2>1 DEF StoreType
    <3>2. /\ Account' = [Account EXCEPT ![x] = to.user]
          /\ Badge' = [Badge EXCEPT ![x] = to.key]
          /\ SendsFor' = [SendsFor EXCEPT ![x] = IF to.pc = "store" THEN to.row
                                                ELSE None]
      BY <2>3, SessionViews
    <3> HIDE DEF to
    <3>3. /\ Account' = [Account EXCEPT ![x] = Account[x]]
          /\ Badge' = [Badge EXCEPT ![x] = Badge[x]]
          /\ SendsFor' = [SendsFor EXCEPT ![x] = SendsFor[x]]
      BY <3>1, <3>2
    <3>4. UNCHANGED <<Account, Badge>>
      BY <3>3 DEF Account, Badge
    <3>5. UNCHANGED SendsFor
      BY <3>3 DEF SendsFor
    <3> QED
      BY <3>4, <3>5
  <2>4. /\ UNCHANGED <<Account, Badge>>
        /\ \/ SendsFor' = [SendsFor EXCEPT ![x] = None]
           \/ SendsFor' = SendsFor
    BY <1>5, <2>2, <2>3 DEF StoreOne
  <2>5. CASE Stored(smtp[x].user, smtp[x].key, smtp[x].row)
    <3>1. Tenancy!Send(x)
      BY <1>b, <2>1, <2>4, <2>5 DEF Stored, Tenancy!Send
    <3> QED
      BY <1>0, <3>1 DEF Tenancy!SessionSteps
  <2>6. CASE Session(x, Cleared(x)) /\ UNCHANGED messages
    <3>1. Tenancy!DropRow(x)
      BY <2>2, <2>6 DEF Tenancy!DropRow
    <3> QED
      BY <1>0, <3>1 DEF Tenancy!SessionSteps
  <2> QED
    BY <1>5, <2>5, <2>6 DEF StoreOne
<1>6. CASE Logout(x)
  <2>1. Tenancy!CloseSession(x)
    BY <1>6, SessionViews DEF Logout, Open, Tenancy!CloseSession
  <2> QED
    BY <1>0, <2>1 DEF Tenancy!SessionSteps
<1> QED
  BY <1>2, <1>3, <1>4, <1>5, <1>6 DEF SessionNext

LEMMA DomainMoves ==
  ASSUME TypeOK, NEW i \in Rows,
         \/ \E u \in Users : CreateDomain(i, u)
         \/ \E st \in {"pending", "verified", "gone"} : ChangeDomain(i, st)
  PROVE  Tenancy!DomainSteps
<1>0. UNCHANGED <<Tenancy!keys, Tenancy!guests, Tenancy!sessions, messages>>
  BY SameViews DEF CreateDomain, ChangeDomain
<1>1. ASSUME NEW u \in Users, CreateDomain(i, u) PROVE Tenancy!DomainSteps
  <2>1. /\ domain[i].st = "new"
        /\ domain'[i].st = "pending" /\ domain'[i].user = u
        /\ \A j \in Rows : j # i => domain'[j] = domain[j]
    BY <1>1 DEF CreateDomain, TypeOK
  <2>2. Owner[i] = None /\ Owner' = [Owner EXCEPT ![i] = u]
    BY <2>1 DEF Owner
  <2>3. Verified' = Verified
    BY <2>1 DEF Verified
  <2>4. Tenancy!Register(i, u)
    BY <2>2, <2>3 DEF Tenancy!Register
  <2> QED
    BY <1>0, <2>4 DEF Tenancy!DomainSteps
<1>2. ASSUME NEW st \in {"pending", "verified", "gone"}, ChangeDomain(i, st)
      PROVE  Tenancy!DomainSteps
  <2>1. /\ domain[i].st # "new" /\ domain[i].user \in Users
        /\ domain'[i].st = st /\ domain'[i].user = domain[i].user
        /\ \A j \in Rows : j # i => domain'[j] = domain[j]
    BY <1>2, DomainFields DEF ChangeDomain, TypeOK
  <2>2. Owner[i] # None
    BY <2>1, TenantsAssumption DEF Owner
  <2>3. \A j \in Rows : /\ domain'[j].st = "new" <=> domain[j].st = "new"
                        /\ domain'[j].user = domain[j].user
    BY <2>1
  <2>4. Owner' = Owner
    BY <2>3 DEF Owner
  <2>5. CASE st = "verified"
    <3>1. Verified \subseteq {i}
      BY <1>2, <2>5 DEF ChangeDomain, Present, Verified
    <3>2. Verified' = {i}
      BY <2>1, <2>5, <3>1 DEF Verified
    <3>3. Tenancy!Verify(i)
      BY <2>2, <2>4, <3>1, <3>2 DEF Tenancy!Verify
    <3> QED
      BY <1>0, <3>3 DEF Tenancy!DomainSteps
  <2>6. CASE st # "verified"
    <3>1. Verified' = Verified \ {i}
      BY <2>1, <2>6 DEF Verified
    <3>2. Tenancy!Lose(i)
      BY <2>4, <3>1 DEF Tenancy!Lose
    <3> QED
      BY <1>0, <3>2 DEF Tenancy!DomainSteps
  <2> QED
    BY <2>5, <2>6
<1> QED
  BY <1>1, <1>2

LEMMA ExpireMoves ==
  ASSUME TypeOK, NEW k \in Keys, Expire(k)
  PROVE  Tenancy!Expire(k)
<1>1. /\ key[k].st = "live" /\ key'[k].st = "late" /\ key'[k].user = key[k].user
      /\ \A j \in Keys : j # k => key'[j] = key[j]
  BY KeyFields DEF Expire, TypeOK
<1>2. Standing[k] = "good" /\ Standing' = [Standing EXCEPT ![k] = "dead"]
  BY <1>1 DEF Standing
<1>3. Holder' = Holder
  BY <1>1 DEF Holder
<1> QED
  BY <1>2, <1>3, SameViews DEF Expire, Tenancy!Expire

LEMMA RestartMoves ==
  ASSUME Restart
  PROVE  Tenancy!Restart
<1>1. UNCHANGED <<Tenancy!keys, Tenancy!domains, messages>>
  BY SameViews DEF Restart
<1>2. Guest' = [c \in Callers |-> None] /\ Came' = [c \in Callers |-> "out"]
  BY DEF Restart, Guest, Came, At, Idle
<1>3. /\ Account' = [x \in Clients |-> None]
      /\ Badge' = [x \in Clients |-> None]
      /\ SendsFor' = [x \in Clients |-> None]
  BY DEF Restart, Account, Badge, SendsFor, Open
<1> QED
  BY <1>1, <1>2, <1>3 DEF Tenancy!Restart

LEMMA TenancyNext ==
  ASSUME TypeOK, [Next]_vars
  PROVE  [Tenancy!Next]_(Tenancy!tenancy)
<1>1. ASSUME NEW c \in Callers, HandlerNext(c)
      PROVE  [Tenancy!Next]_(Tenancy!tenancy)
  BY <1>1, CallerSteps DEF Tenancy!Next
<1>2. ASSUME NEW x \in Clients, SessionNext(x)
      PROVE  [Tenancy!Next]_(Tenancy!tenancy)
  BY <1>2, SessionMoves DEF Tenancy!Next
<1>3. ASSUME NEW k \in Keys, Expire(k) PROVE Tenancy!Next
  BY <1>3, ExpireMoves DEF Tenancy!Next
<1>4. ASSUME NEW i \in Rows,
             \/ \E u \in Users : CreateDomain(i, u)
             \/ \E st \in {"pending", "verified", "gone"} : ChangeDomain(i, st)
      PROVE  Tenancy!Next
  BY <1>4, DomainMoves DEF Tenancy!Next
<1>5. CASE Restart
  BY <1>5, RestartMoves DEF Tenancy!Next
<1>6. CASE UNCHANGED vars
  BY <1>6, SameViews DEF Tenancy!tenancy
<1> QED
  BY <1>1, <1>2, <1>3, <1>4, <1>5, <1>6 DEF Next

LEMMA TenancyInit == Init => Tenancy!Init
<1> SUFFICES ASSUME Init PROVE Tenancy!Init
  OBVIOUS
<1>1. /\ Standing = [k \in Keys |-> "unmade"]
      /\ Holder = [k \in Keys |-> None]
  BY DEF Init, Standing, Holder
<1>2. /\ Guest = [c \in Callers |-> None]
      /\ Came = [c \in Callers |-> "out"]
  BY DEF Init, Guest, Came, At, Idle
<1>3. /\ Account = [x \in Clients |-> None]
      /\ Badge = [x \in Clients |-> None]
      /\ SendsFor = [x \in Clients |-> None]
  BY DEF Init, Account, Badge, SendsFor, Open
<1>4. Owner = [i \in Rows |-> None] /\ Verified = {} /\ messages = {}
  BY DEF Init, Owner, Verified
<1> QED
  BY <1>1, <1>2, <1>3, <1>4 DEF Tenancy!Init

\* Whoever acts for a tenant came in with its login or with a key that was
\* good then, its keys go all at once, and its mail is for a row it owned,
\* verified, when the session asked.
THEOREM TenancyKept == Spec => ImplementsTenancy
<1>1. Init => Tenancy!Init
  BY TenancyInit
<1>2. TypeOK /\ [Next]_vars => [Tenancy!Next]_(Tenancy!tenancy)
  BY TenancyNext
<1> QED
  BY <1>1, <1>2, TenantTypes, PTL DEF Spec, ImplementsTenancy, Tenancy!Spec
=============================================================================
