--------------------------- MODULE SendingDomains ---------------------------
(***************************************************************************)
(* One sending domain: its row in sending_domains, the handlers that       *)
(* create, verify, set up and delete it (internal/handlers/domains.go,     *)
(* AdminVerifyDomain), its DNS zone, and the key the DKIM signer           *)
(* (internal/smtp/dkim.go) holds for it.  Domains share nothing, so one    *)
(* name is enough; it may be registered, deleted and registered again, and *)
(* every row has an id and a key pair of its own.                          *)
(*                                                                         *)
(* Of the three flags of a row only what the handlers derive from them is  *)
(* kept: the status.  DMARC is looked at and published, and decides nothing *)
(* but whether the automatic set-up had an error.                          *)
(***************************************************************************)
EXTENDS Naturals, FiniteSets

CONSTANTS
  MaxRows,    \* bound: rows inserted for the name
  Clients,    \* request goroutines
  Mails,      \* messages sent from the domain
  DBMayFail   \* whether a query may return an error

ASSUME DomainsAssumption == MaxRows \in Nat /\ DBMayFail \in BOOLEAN

Rows == 1 .. MaxRows
None == 0

VARIABLES
  row,      \* status per id, "absent" when there is no such row
  born,     \* ids given out
  zone,     \* the id whose key the zone publishes, and whether it has our SPF
  signer,   \* the id whose key the signer holds
  client,   \* request goroutines: pc, and the row they have loaded
  mail,     \* messages: pc, the row they belong to, the key that signed them
  seen      \* history: what lookups or the API have shown for an id

vars == <<row, born, zone, signer, client, mail, seen>>

Idle   == [pc |-> "idle", id |-> None, dkim |-> FALSE, spf |-> FALSE]
Unsent == [pc |-> "new", id |-> None, key |-> None]

Present == { i \in Rows : row[i] # "absent" }

Init ==
  /\ row = [i \in Rows |-> "absent"]
  /\ born = 0
  /\ zone = [dkim |-> None, spf |-> FALSE]
  /\ signer = None
  /\ client = [c \in Clients |-> Idle]
  /\ mail = [m \in Mails |-> Unsent]
  /\ seen = [i \in Rows |-> {}]

At(c, pc)       == client[c].pc = pc
Become(c, new)  == client' = [client EXCEPT ![c] = new]
Show(i, recs)   == seen' = [seen EXCEPT ![i] = @ \cup recs]

Record == {"dkim", "spf"}   \* the records that decide the status

\* The unique index on the domain column lets a row i in.
CanHold(i) == Present \subseteq {i}

-----------------------------------------------------------------------------
\* CreateDomain: the name is looked up, and inserted with a new key.

CheckName(c) ==
  /\ At(c, "idle")
  /\ Present = {} \/ DBMayFail
  /\ born < MaxRows
  /\ Become(c, [Idle EXCEPT !.pc = "insert"])
  /\ UNCHANGED <<row, born, zone, signer, mail, seen>>

\* Mutant: the new row takes an id that is given out again.
InsertReusingId(c) ==
  /\ At(c, "insert")
  /\ born < MaxRows
  /\ CanHold(born + 1)
  /\ row' = [row EXCEPT ![born + 1] = "pending"]
  /\ Become(c, Idle)
  /\ UNCHANGED <<born, zone, signer, mail, seen>>

Insert(c) ==
  /\ At(c, "insert")
  /\ \/ /\ born < MaxRows
        /\ CanHold(born + 1)
        /\ born' = born + 1
        /\ row' = [row EXCEPT ![born + 1] = "pending"]
     \/ /\ DBMayFail \/ Present # {} \/ born = MaxRows
        /\ UNCHANGED <<row, born>>
  /\ Become(c, Idle)
  /\ UNCHANGED <<zone, signer, mail, seen>>

-----------------------------------------------------------------------------
(***************************************************************************)
(* VerifyDomain, AdminVerifyDomain, AutoSetupDNS and DeleteDomain load the *)
(* row and work on their copy.                                             *)
(***************************************************************************)

Find(c, i, pc) ==
  /\ At(c, "idle")
  /\ i \in Present
  /\ Become(c, [Idle EXCEPT !.pc = pc, !.id = i])
  /\ UNCHANGED <<row, born, zone, signer, mail, seen>>

\* A lookup that fails counts as one that finds nothing.  The record is
\* compared with the first 40 characters of the row's public key.  They are
\* the DER header (22 bytes of SubjectPublicKeyInfo and 8 of RSAPublicKey),
\* the same in every 2048-bit key that GenerateDKIMKeyPair makes.
LookUpDKIM(c) ==
  /\ At(c, "lookDKIM")
  /\ \E answered \in BOOLEAN :
       LET found == answered /\ zone.dkim # None IN
         /\ Become(c, [client[c] EXCEPT !.pc = "lookSPF", !.dkim = found])
         /\ IF found THEN Show(client[c].id, {"dkim"}) ELSE UNCHANGED seen
  /\ UNCHANGED <<row, born, zone, signer, mail>>

LookUpSPF(c) ==
  /\ At(c, "lookSPF")
  /\ \E answered \in BOOLEAN :
       LET found == answered /\ zone.spf IN
         /\ Become(c, [client[c] EXCEPT !.pc = "save", !.spf = found])
         /\ IF found THEN Show(client[c].id, {"spf"}) ELSE UNCHANGED seen
  /\ UNCHANGED <<row, born, zone, signer, mail>>

\* SetupDomainRecords: an error of one record does not stop the others, and
\* a call that returned an error may have had its effect.
SetDKIM(c) ==
  /\ At(c, "setDKIM")
  /\ \E ok \in BOOLEAN :
       /\ Become(c, [client[c] EXCEPT !.pc = "setSPF", !.dkim = ok])
       /\ IF ok THEN Show(client[c].id, {"dkim"}) ELSE UNCHANGED seen
       /\ \/ zone' = [zone EXCEPT !.dkim = client[c].id]
          \/ ~ok /\ UNCHANGED zone
  /\ UNCHANGED <<row, born, signer, mail>>

SetSPF(c) ==
  /\ At(c, "setSPF")
  /\ \E ok \in BOOLEAN :
       /\ Become(c, [client[c] EXCEPT !.pc = "setDMARC", !.spf = ok])
       /\ IF ok THEN Show(client[c].id, {"spf"}) ELSE UNCHANGED seen
       /\ \/ zone' = [zone EXCEPT !.spf = TRUE]
          \/ ~ok /\ UNCHANGED zone
  /\ UNCHANGED <<row, born, signer, mail>>

\* Only without an error does the set-up save.
SetDMARC(c) ==
  /\ At(c, "setDMARC")
  /\ \E ok \in BOOLEAN :
       Become(c, IF ok /\ client[c].dkim /\ client[c].spf
                 THEN [client[c] EXCEPT !.pc = "save"] ELSE Idle)
  /\ UNCHANGED <<row, born, zone, signer, mail, seen>>

\* Mutant: either record is enough.
VerdictOfEither(c) ==
  IF client[c].dkim \/ client[c].spf THEN "verified" ELSE "pending"

\* Save updates the row with this id, or inserts it again when it is gone.
Verdict(c) == IF client[c].dkim /\ client[c].spf THEN "verified" ELSE "pending"
Save(c) ==
  /\ At(c, "save")
  /\ \/ /\ CanHold(client[c].id)
        /\ row' = [row EXCEPT ![client[c].id] = Verdict(c)]
     \/ (DBMayFail \/ ~CanHold(client[c].id)) /\ UNCHANGED row
  /\ Become(c, Idle)
  /\ UNCHANGED <<born, zone, signer, mail, seen>>

Delete(c) ==
  /\ At(c, "delete")
  /\ \/ row' = [row EXCEPT ![client[c].id] = "absent"]
     \/ DBMayFail /\ UNCHANGED row
  /\ Become(c, Idle)
  /\ UNCHANGED <<born, zone, signer, mail, seen>>

-----------------------------------------------------------------------------
\* SendEmail and ServiceSend take mail for a verified row only; Sender.Send
\* signs it with the key the signer has for the name, or not at all.

Accept(m) ==
  /\ mail[m].pc = "new"
  /\ \E i \in Rows :
       /\ row[i] = "verified"
       /\ mail' = [mail EXCEPT ![m] = [pc |-> "queued", id |-> i, key |-> None]]
  /\ UNCHANGED <<row, born, zone, signer, client, seen>>

Sign(m) ==
  /\ mail[m].pc = "queued"
  /\ mail' = [mail EXCEPT ![m].pc = "sent", ![m].key = signer]
  /\ UNCHANGED <<row, born, zone, signer, client, seen>>

\* Mutant: the keys of all rows are loaded.
RestartWithAllKeys ==
  /\ client' = [c \in Clients |-> Idle]
  /\ signer' \in Present \cup {None}
  /\ UNCHANGED <<row, born, zone, mail, seen>>

\* A new process: loadDKIMKeys is the only caller of LoadKey.
Restart ==
  /\ client' = [c \in Clients |-> Idle]
  /\ LET verified == { i \in Rows : row[i] = "verified" }
     IN  \/ verified = {} /\ signer' = None
         \/ signer' \in verified
         \/ DBMayFail /\ signer' = None
  /\ UNCHANGED <<row, born, zone, mail, seen>>

\* The owner edits the zone.
EditZone ==
  /\ zone' \in [dkim : 0 .. born, spf : BOOLEAN]
  /\ UNCHANGED <<row, born, signer, client, mail, seen>>

Next ==
  \/ \E c \in Clients :
       \/ CheckName(c) \/ Insert(c)
       \/ \E i \in Rows, pc \in {"lookDKIM", "setDKIM", "delete"} :
            Find(c, i, pc)
       \/ LookUpDKIM(c) \/ LookUpSPF(c) \/ SetDKIM(c) \/ SetSPF(c)
       \/ SetDMARC(c) \/ Save(c) \/ Delete(c)
  \/ \E m \in Mails : Accept(m) \/ Sign(m)
  \/ Restart \/ EditZone

Spec == Init /\ [][Next]_vars

-----------------------------------------------------------------------------
ClientPc == {"idle", "insert", "lookDKIM", "lookSPF", "setDKIM", "setSPF",
             "setDMARC", "save", "delete"}

TypeOK ==
  /\ row \in [Rows -> {"absent", "pending", "verified"}]
  /\ born \in 0 .. MaxRows
  /\ Present \subseteq 1 .. born
  /\ zone \in [dkim : 0 .. born, spf : BOOLEAN]
  /\ signer \in 0 .. born
  /\ client \in [Clients -> [pc : ClientPc, id : 0 .. born, dkim : BOOLEAN,
                             spf : BOOLEAN]]
  /\ mail \in [Mails -> [pc : {"new", "queued", "sent"}, id : 0 .. born,
                         key : 0 .. born]]
  /\ seen \in [Rows -> SUBSET Record]

\* A row says "verified", and mail carries a signature, only when a lookup or
\* the DNS provider has shown a DKIM and an SPF record for this very row: a
\* verdict is never written to the successor of the row it was made about.
Proven(i) == i = None \/ {"dkim", "spf"} \subseteq seen[i]
VerifiedWasProven ==
  /\ \A i \in Rows : row[i] = "verified" => Proven(i)
  /\ Proven(signer)
  /\ \A m \in Mails : Proven(mail[m].key)

\* A row that is deleted, and that no request has loaded, stays deleted.
\* (One that a verification has loaded comes back when it is saved.)
Gone(i) == /\ i <= born
           /\ row[i] = "absent"
           /\ \A c \in Clients : client[c].id # i
GoneForGood == [][ \A i \in Rows : Gone(i) => Gone(i)' ]_vars

-----------------------------------------------------------------------------
\* The promise to the owner of the name: module DomainName.

Holder    == IF Present = {} THEN None ELSE CHOOSE i \in Present : TRUE
Standing  == IF \E i \in Rows : row[i] = "verified" THEN "verified"
             ELSE "pending"
InHand    == { client[c].id : c \in Clients } \ {None}
Confirmed == { i \in Rows : Record \subseteq seen[i] }
TakenFor  == [m \in Mails |-> mail[m].id]
Signature == [m \in Mails |-> mail[m].key]

Name == INSTANCE DomainName WITH
          holder    <- Holder,    verdict  <- Standing, last      <- born,
          inHand    <- InHand,    confirmed <- Confirmed,
          takenFor  <- TakenFor,  signature <- Signature

\* Every step of the handlers, of the zone's owner and of the process is a
\* step of the promise, or none that it shows.
ImplementsDomainName == Name!Spec

-----------------------------------------------------------------------------
\* "Transactional email with per-domain DKIM signing" (README.md:3): mail of
\* a verified domain carries a signature with the key of its row.
SignedByItsDomain ==
  \A m \in Mails : mail[m].pc = "sent" => mail[m].key = mail[m].id
=============================================================================
