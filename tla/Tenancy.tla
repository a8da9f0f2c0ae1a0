------------------------------ MODULE Tenancy ------------------------------
(***************************************************************************)
(* What tenants are promised, with no tables, requests and SMTP commands.  *)
(*                                                                         *)
(* A key has one holder for good, and is good until it expires or its      *)
(* holder's keys are withdrawn, all of them at once.  Only a guest of a    *)
(* tenant gives it a key or withdraws its keys, and a guest came in with a *)
(* login or with a good key.  Mail is sent in a session that a good key    *)
(* opened, for a row its tenant owned, verified, when the session took it. *)
(***************************************************************************)
CONSTANTS Users, Keys, Rows, Callers, Clients, None

VARIABLES
  standing,  \* of a key: "unmade", "good" or "dead"
  holder,    \* of a key: its user, or None
  guest,     \* of a caller: the user it acts for, or None
  came,      \* of a caller: "out", or how it came in: "login" or "key"
  account,   \* of a session: its user, or None
  badge,     \* of a session: the key that opened it, or None
  sender,    \* of a session: the row its mail is sent for, or None
  owner,     \* of a row of the domain: its user, or None
  verified,  \* rows that are verified
  mail       \* messages sent: user, key and row

keys     == <<standing, holder>>
guests   == <<guest, came>>
sessions == <<account, badge, sender>>
domains  == <<owner, verified>>
tenancy  == <<keys, guests, sessions, domains, mail>>

Init ==
  /\ standing = [k \in Keys |-> "unmade"]
  /\ holder = [k \in Keys |-> None]
  /\ guest = [c \in Callers |-> None]
  /\ came = [c \in Callers |-> "out"]
  /\ account = [x \in Clients |-> None]
  /\ badge = [x \in Clients |-> None]
  /\ sender = [x \in Clients |-> None]
  /\ owner = [i \in Rows |-> None]
  /\ verified = {}
  /\ mail = {}

-----------------------------------------------------------------------------
\* A caller: a guest of its user for one request.

ComesIn(c, u, how) ==
  /\ came[c] = "out"
  /\ came' = [came EXCEPT ![c] = how]
  /\ guest' = [guest EXCEPT ![c] = u]
  /\ UNCHANGED keys

LogIn(c, u)   == ComesIn(c, u, "login")
ShowKey(c, k) == standing[k] = "good" /\ ComesIn(c, holder[k], "key")

Leaves(c) ==
  /\ came[c] # "out"
  /\ came' = [came EXCEPT ![c] = "out"]
  /\ guest' = [guest EXCEPT ![c] = None]

GoAway(c) == Leaves(c) /\ UNCHANGED keys

Grant(c, k) ==
  /\ Leaves(c)
  /\ standing[k] = "unmade"
  /\ standing' = [standing EXCEPT ![k] = "good"]
  /\ holder' = [holder EXCEPT ![k] = guest[c]]

Withdraw(c) ==
  /\ Leaves(c)
  /\ standing' = [k \in Keys |-> IF holder[k] = guest[c] THEN "dead"
                                 ELSE standing[k]]
  /\ UNCHANGED holder

CallerSteps ==
  /\ UNCHANGED <<sessions, domains, mail>>
  /\ \E c \in Callers :
       \/ \E u \in Users : LogIn(c, u)
       \/ \E k \in Keys : ShowKey(c, k) \/ Grant(c, k)
       \/ GoAway(c) \/ Withdraw(c)

-----------------------------------------------------------------------------
\* A session: one user and key, and mail for one row after the other.

OpenSession(x, k) ==
  /\ account[x] = None
  /\ standing[k] = "good"
  /\ account' = [account EXCEPT ![x] = holder[k]]
  /\ badge' = [badge EXCEPT ![x] = k]
  /\ UNCHANGED <<sender, mail>>

TakeRow(x, i) ==
  /\ account[x] # None
  /\ i \in verified /\ owner[i] = account[x]
  /\ sender' = [sender EXCEPT ![x] = i]
  /\ UNCHANGED <<account, badge, mail>>

DropRow(x) ==
  /\ sender' = [sender EXCEPT ![x] = None]
  /\ UNCHANGED <<account, badge, mail>>

Send(x) ==
  /\ sender[x] # None
  /\ mail' = mail \cup {[user |-> account[x], key |-> badge[x], row |-> sender[x]]}
  /\ sender' \in {sender, [sender EXCEPT ![x] = None]}
  /\ UNCHANGED <<account, badge>>

CloseSession(x) ==
  /\ account' = [account EXCEPT ![x] = None]
  /\ badge' = [badge EXCEPT ![x] = None]
  /\ sender' = [sender EXCEPT ![x] = None]
  /\ UNCHANGED mail

SessionSteps ==
  /\ UNCHANGED <<keys, guests, domains>>
  /\ \E x \in Clients :
       \/ \E k \in Keys : OpenSession(x, k)
       \/ \E i \in Rows : TakeRow(x, i)
       \/ DropRow(x) \/ Send(x) \/ CloseSession(x)

-----------------------------------------------------------------------------
\* Keys end, rows change, and a restart ends what is going on.

Expire(k) ==
  /\ standing[k] = "good"
  /\ standing' = [standing EXCEPT ![k] = "dead"]
  /\ UNCHANGED <<holder, guests, sessions, domains, mail>>

Register(i, u) ==
  /\ owner[i] = None
  /\ owner' = [owner EXCEPT ![i] = u]
  /\ UNCHANGED verified

Verify(i) ==
  /\ owner[i] # None
  /\ verified \subseteq {i}
  /\ verified' = {i}
  /\ UNCHANGED owner

Lose(i) ==
  /\ verified' = verified \ {i}
  /\ UNCHANGED owner

DomainSteps ==
  /\ UNCHANGED <<keys, guests, sessions, mail>>
  /\ \E i \in Rows :
       \/ \E u \in Users : Register(i, u)
       \/ Verify(i) \/ Lose(i)

Restart ==
  /\ UNCHANGED <<keys, domains, mail>>
  /\ guest' = [c \in Callers |-> None]
  /\ came' = [c \in Callers |-> "out"]
  /\ account' = [x \in Clients |-> None]
  /\ badge' = [x \in Clients |-> None]
  /\ sender' = [x \in Clients |-> None]

Next == CallerSteps \/ SessionSteps \/ DomainSteps \/ Restart
          \/ \E k \in Keys : Expire(k)

Spec == Init /\ [][Next]_tenancy
=============================================================================
