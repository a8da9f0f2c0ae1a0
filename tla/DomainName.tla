----------------------------- MODULE DomainName -----------------------------
(***************************************************************************)
(* What the service promises about one domain name, with no requests, no   *)
(* lookups and no DNS provider.                                            *)
(*                                                                         *)
(* At any time the name has one holder or none.  A new holder is one the   *)
(* name never had, or one that a request took up before it lost the name.  *)
(* A holder is verified only after its own records were confirmed, mail is *)
(* taken only while it is, and only a holder that was verified at the last *)
(* start of the process signs.                                             *)
(***************************************************************************)
EXTENDS Naturals

CONSTANTS None, Mails

VARIABLES
  holder,     \* the row that has the name, or None
  verdict,    \* its status: "pending" or "verified"
  last,       \* the id given out last
  inHand,     \* rows that requests work on
  confirmed,  \* rows whose records were confirmed
  signer,     \* the row whose key signs, or None
  takenFor,   \* the row a message was taken for, or None
  signature   \* the row whose key signed a message, or None

name == <<holder, verdict, last, inHand, confirmed, signer, takenFor,
          signature>>
mail == <<takenFor, signature>>

Init ==
  /\ holder = None /\ verdict = "pending" /\ last = 0
  /\ inHand = {} /\ confirmed = {}
  /\ signer = None
  /\ takenFor = [m \in Mails |-> None]
  /\ signature = [m \in Mails |-> None]

Register ==
  /\ holder = None
  /\ last' = last + 1
  /\ holder' = last + 1
  /\ verdict' = "pending"
  /\ UNCHANGED <<inHand, confirmed, signer, mail>>

TakeUp ==
  /\ holder # None
  /\ inHand' = inHand \cup {holder}
  /\ UNCHANGED <<holder, verdict, last, confirmed, signer, mail>>

Confirm(i) ==
  /\ i \in inHand
  /\ confirmed' = confirmed \cup {i}
  /\ UNCHANGED <<holder, verdict, last, inHand, signer, mail>>

\* The request that has row i may be the last one that has it.
LaysDown(i) == inHand' \in {inHand, inHand \ {i}}

LayDown(i) ==
  /\ i \in inHand
  /\ LaysDown(i)
  /\ UNCHANGED <<holder, verdict, last, confirmed, signer, mail>>

\* A row that was deleted while a request had it gets the name back, unless
\* another has taken it.
Judge(i) ==
  /\ i \in inHand
  /\ holder \in {None, i}
  /\ holder' = i
  /\ verdict' \in {"pending", "verified"}
  /\ verdict' = "verified" => i \in confirmed
  /\ LaysDown(i)
  /\ UNCHANGED <<last, confirmed, signer, mail>>

Release ==
  /\ holder \in inHand
  /\ holder' = None
  /\ verdict' = "pending"
  /\ LaysDown(holder)
  /\ UNCHANGED <<last, confirmed, signer, mail>>

Restart ==
  /\ inHand' = {}
  /\ signer' \in {None} \cup (IF verdict = "verified" THEN {holder} ELSE {})
  /\ UNCHANGED <<holder, verdict, last, confirmed, mail>>

TakeMail(m) ==
  /\ verdict = "verified"
  /\ takenFor[m] = None
  /\ takenFor' = [takenFor EXCEPT ![m] = holder]
  /\ UNCHANGED <<holder, verdict, last, inHand, confirmed, signer, signature>>

Sign(m) ==
  /\ takenFor[m] # None
  /\ signature[m] = None
  /\ signature' = [signature EXCEPT ![m] = signer]
  /\ UNCHANGED <<holder, verdict, last, inHand, confirmed, signer, takenFor>>

Next ==
  \/ Register \/ TakeUp \/ Release \/ Restart
  \/ \E i \in inHand : Confirm(i) \/ LayDown(i) \/ Judge(i)
  \/ \E m \in Mails : TakeMail(m) \/ Sign(m)

Spec == Init /\ [][Next]_name
=============================================================================
