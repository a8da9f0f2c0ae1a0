------------------------ MODULE SendingDomainsProofs ------------------------
(***************************************************************************)
(* What holds of a sending domain for any number of rows, requests and     *)
(* messages.  VerifiedWasProven needs to know that what a request believes *)
(* to have seen was confirmed for the row it has loaded.                   *)
(***************************************************************************)
EXTENDS SendingDomains, TLAPS

USE DEF vars

\* What a request has noted was confirmed for the row it has loaded.
Grounded(r) ==
  /\ r.pc \notin {"idle", "insert"} => r.id \in Rows
  /\ r.dkim => r.id \in Rows /\ "dkim" \in seen[r.id]
  /\ r.spf  => r.id \in Rows /\ "spf" \in seen[r.id]

Belief == \A c \in Clients : Grounded(client[c])

(***************************************************************************)
(* Types.                                                                  *)
(***************************************************************************)

LEMMA InitTypes == Init => TypeOK
BY DomainsAssumption
   DEF Init, TypeOK, Present, Idle, Unsent, ClientPc, None, Rows

LEMMA RecordTypes ==
  ASSUME TypeOK
  PROVE  /\ born \in 0 .. MaxRows /\ MaxRows \in Nat /\ None \in 0 .. born
         /\ Idle \in [pc : ClientPc, id : 0 .. born, dkim : BOOLEAN,
                      spf : BOOLEAN]
         /\ \A c \in Clients :
              client[c] \in [pc : ClientPc, id : 0 .. born, dkim : BOOLEAN,
                             spf : BOOLEAN]
BY DomainsAssumption DEF TypeOK, Idle, ClientPc, None

\* What one lookup, or one answer of the DNS provider, can show.
Showings == { {"dkim"}, {"spf"} }

ClientType == [pc : ClientPc, id : 0 .. born, dkim : BOOLEAN, spf : BOOLEAN]

LEMMA BecomeOK ==
  ASSUME TypeOK, NEW c \in Clients, NEW new \in ClientType, Become(c, new)
  PROVE  client' \in [Clients -> ClientType]
BY DEF TypeOK, Become, ClientType

\* A request goes on, with what a lookup or a call told it.
LEMMA GoesOn ==
  ASSUME NEW r \in ClientType, NEW pc \in ClientPc, NEW flag \in BOOLEAN
  PROVE  /\ [r EXCEPT !.pc = pc] \in ClientType
         /\ [r EXCEPT !.pc = pc, !.dkim = flag] \in ClientType
         /\ [r EXCEPT !.pc = pc, !.spf = flag] \in ClientType
BY DEF ClientType

LEMMA NextTypes == TypeOK /\ [Next]_vars => TypeOK'
<1> SUFFICES ASSUME TypeOK, [Next]_vars PROVE TypeOK'
  OBVIOUS
<1>0. /\ born \in 0 .. MaxRows /\ MaxRows \in Nat
      /\ Idle \in ClientType
      /\ \A c \in Clients : client[c] \in ClientType
  BY RecordTypes DEF ClientType
<1>1. CASE UNCHANGED vars
  BY <1>1 DEF TypeOK, Present
<1>2. ASSUME NEW c \in Clients, CheckName(c) PROVE TypeOK'
  <2>1. [Idle EXCEPT !.pc = "insert"] \in ClientType
    BY <1>0, GoesOn DEF ClientPc
  <2> QED
    BY <1>2, <2>1 DEF CheckName, Become, TypeOK, Present, ClientType
<1>3. ASSUME NEW c \in Clients, Insert(c) PROVE TypeOK'
  <2>1. born' \in born .. MaxRows
    BY <1>0, <1>3 DEF Insert
  <2>2. row' \in [Rows -> {"absent", "pending", "verified"}]
    BY <1>3 DEF Insert, TypeOK
  <2>3. Present' \subseteq 1 .. born'
    BY <1>0, <1>3 DEF Insert, TypeOK, Present, Rows
  <2>4. /\ client' \in [Clients -> ClientType']
        /\ mail' \in [Mails -> [pc : {"new", "queued", "sent"}, id : 0 .. born',
                                key : 0 .. born']]
        /\ zone' \in [dkim : 0 .. born', spf : BOOLEAN]
        /\ signer' \in 0 .. born'
    <3>1. 0 .. born \subseteq 0 .. born'
      BY <1>0, <2>1
    <3>2. client' \in [Clients -> ClientType]
      BY <1>0, <1>3, BecomeOK DEF Insert
    <3>3. ClientType \subseteq ClientType'
      BY <3>1 DEF ClientType
    <3>4. client' \in [Clients -> ClientType']
      BY <3>2, <3>3
    <3> QED
      BY <1>3, <3>1, <3>4 DEF Insert, TypeOK
  <2> QED
    BY <1>0, <1>3, <2>1, <2>2, <2>3, <2>4 DEF Insert, TypeOK, ClientType
<1>4. ASSUME NEW c \in Clients, NEW i \in Rows,
             NEW pc \in {"lookDKIM", "setDKIM", "delete"}, Find(c, i, pc)
      PROVE  TypeOK'
  <2>1. i \in 0 .. born
    BY <1>0, <1>4 DEF Find, TypeOK
  <2>2. [Idle EXCEPT !.pc = pc, !.id = i] \in ClientType
    BY <1>0, <2>1 DEF ClientPc, ClientType
  <2> QED
    BY <1>4, <2>2 DEF Find, Become, TypeOK, Present, ClientType
<1>5. ASSUME NEW c \in Clients, LookUpDKIM(c) \/ LookUpSPF(c)
      PROVE  TypeOK'
  <2>1. client' \in [Clients -> ClientType]
    <3>1. \E flag \in BOOLEAN :
            \/ Become(c, [client[c] EXCEPT !.pc = "lookSPF", !.dkim = flag])
            \/ Become(c, [client[c] EXCEPT !.pc = "save", !.spf = flag])
      BY <1>5 DEF LookUpDKIM, LookUpSPF
    <3> QED
      BY <1>0, <3>1, BecomeOK, GoesOn DEF ClientPc
  <2>2. seen' \in [Rows -> SUBSET Record]
    <3>1. \/ UNCHANGED seen
          \/ \E recs \in Showings : Show(client[c].id, recs)
      BY <1>5 DEF LookUpDKIM, LookUpSPF, Showings
    <3> QED
      BY <3>1 DEF Showings, Record, Show, TypeOK
  <2> QED
    BY <1>5, <2>1, <2>2 DEF LookUpDKIM, LookUpSPF, TypeOK, Present, ClientType
<1>6. ASSUME NEW c \in Clients, SetDKIM(c) \/ SetSPF(c) PROVE TypeOK'
  <2>1. client' \in [Clients -> ClientType]
    <3>1. \E flag \in BOOLEAN :
            \/ Become(c, [client[c] EXCEPT !.pc = "setSPF", !.dkim = flag])
            \/ Become(c, [client[c] EXCEPT !.pc = "setDMARC", !.spf = flag])
      BY <1>6 DEF SetDKIM, SetSPF
    <3> QED
      BY <1>0, <3>1, BecomeOK, GoesOn DEF ClientPc
  <2>2. seen' \in [Rows -> SUBSET Record]
    <3>1. \/ UNCHANGED seen
          \/ \E recs \in Showings : Show(client[c].id, recs)
      BY <1>6 DEF SetDKIM, SetSPF, Showings
    <3> QED
      BY <3>1 DEF Showings, Record, Show, TypeOK
  <2>3. zone' \in [dkim : 0 .. born, spf : BOOLEAN]
    <3>1. \/ UNCHANGED zone
          \/ zone' = [zone EXCEPT !.dkim = client[c].id]
          \/ zone' = [zone EXCEPT !.spf = TRUE]
      BY <1>6 DEF SetDKIM, SetSPF
    <3> QED
      BY <1>0, <3>1 DEF TypeOK
  <2> QED
    BY <1>6, <2>1, <2>2, <2>3 DEF SetDKIM, SetSPF, TypeOK, Present, ClientType
<1>7. ASSUME NEW c \in Clients, SetDMARC(c) \/ Save(c) \/ Delete(c)
      PROVE  TypeOK'
  <2>1. client' \in [Clients -> ClientType]
    <3>1. \/ Become(c, [client[c] EXCEPT !.pc = "save"])
          \/ Become(c, Idle)
      BY <1>7 DEF SetDMARC, Save, Delete
    <3> QED
      BY <1>0, <3>1, BecomeOK, GoesOn DEF ClientPc
  <2>2. row' \in [Rows -> {"absent", "pending", "verified"}]
    BY <1>7 DEF SetDMARC, Save, Delete, Verdict, TypeOK
  <2>3. Present' \subseteq 1 .. born
    <3>1. client[c].id \in 0 .. born
      BY <1>0 DEF ClientType
    <3> QED
      BY <1>0, <1>7, <3>1 DEF SetDMARC, Save, Delete, TypeOK, Present, Rows
  <2> QED
    BY <1>7, <2>1, <2>2, <2>3 DEF SetDMARC, Save, Delete, TypeOK, ClientType
<1>8. ASSUME NEW m \in Mails, Accept(m) \/ Sign(m) PROVE TypeOK'
  <2>1. mail' \in [Mails -> [pc : {"new", "queued", "sent"}, id : 0 .. born,
                             key : 0 .. born]]
    <3>1. CASE Accept(m)
      <4>1. PICK i \in Rows :
              /\ row[i] = "verified"
              /\ mail' = [mail EXCEPT
                            ![m] = [pc |-> "queued", id |-> i, key |-> None]]
        BY <3>1 DEF Accept
      <4>2. i \in 0 .. born
        BY <1>0, <4>1 DEF TypeOK, Present
      <4> QED
        <5>1. [pc |-> "queued", id |-> i, key |-> None]
                \in [pc : {"new", "queued", "sent"}, id : 0 .. born,
                    key : 0 .. born]
          BY <1>0, <4>2, RecordTypes
        <5> QED
          BY <4>1, <5>1 DEF TypeOK
    <3>2. CASE Sign(m)
      BY <3>2 DEF Sign, TypeOK
    <3> QED
      BY <1>8, <3>1, <3>2
  <2> QED
    BY <1>8, <2>1 DEF Accept, Sign, TypeOK, Present
<1>9. CASE Restart
  <2>1. signer' \in 0 .. born
    BY <1>0, <1>9, RecordTypes DEF Restart, TypeOK, Present
  <2>2. client' \in [Clients -> ClientType]
    BY <1>0, <1>9 DEF Restart
  <2> QED
    BY <1>9, <2>1, <2>2 DEF Restart, TypeOK, Present, ClientType
<1>10. CASE EditZone
  BY <1>10 DEF EditZone, TypeOK, Present
<1> QED
  BY <1>1, <1>2, <1>3, <1>4, <1>5, <1>6, <1>7, <1>8, <1>9, <1>10 DEF Next

THEOREM DomainTypes == Spec => []TypeOK
<1> QED
  BY InitTypes, NextTypes, PTL DEF Spec

(***************************************************************************)
(* One row per name, which the unique index sees to, and no row from the   *)
(* dead.                                                                   *)
(***************************************************************************)

OneRow == \A i, j \in Present : i = j

LEMMA NextOneRow == TypeOK /\ OneRow /\ [Next]_vars => OneRow'
<1> SUFFICES ASSUME TypeOK, OneRow, [Next]_vars PROVE OneRow'
  OBVIOUS
<1>1. \/ Present' \subseteq Present
      \/ \E i \in Rows : Present \subseteq {i} /\ Present' \subseteq {i}
  <2>1. ASSUME NEW c \in Clients, Insert(c)
        PROVE  \/ Present' \subseteq Present
               \/ \E i \in Rows : Present \subseteq {i} /\ Present' \subseteq {i}
    <3>1. CASE UNCHANGED row
      BY <3>1 DEF Present
    <3>2. CASE /\ CanHold(born + 1)
               /\ row' = [row EXCEPT ![born + 1] = "pending"]
      BY <3>2 DEF CanHold, Present, TypeOK
    <3> QED
      BY <2>1, <3>1, <3>2 DEF Insert
  <2>2. ASSUME NEW c \in Clients, Save(c)
        PROVE  \/ Present' \subseteq Present
               \/ \E i \in Rows : Present \subseteq {i} /\ Present' \subseteq {i}
    <3>1. CASE UNCHANGED row
      BY <3>1 DEF Present
    <3>2. CASE /\ CanHold(client[c].id)
               /\ row' = [row EXCEPT ![client[c].id] = Verdict(c)]
      BY <3>2 DEF CanHold, Present, TypeOK
    <3> QED
      BY <2>2, <3>1, <3>2 DEF Save
  <2>3. ASSUME NEW c \in Clients, Delete(c) PROVE Present' \subseteq Present
    BY <2>3 DEF Delete, Present, TypeOK
  <2>4. CASE UNCHANGED row
    BY <2>4 DEF Present
  <2>5. ASSUME NEW c \in Clients,
               \/ CheckName(c)
               \/ \E i \in Rows, pc \in {"lookDKIM", "setDKIM", "delete"} :
                    Find(c, i, pc)
               \/ LookUpDKIM(c) \/ LookUpSPF(c) \/ SetDKIM(c) \/ SetSPF(c)
               \/ SetDMARC(c)
        PROVE  UNCHANGED row
    BY <2>5 DEF CheckName, Find, LookUpDKIM, LookUpSPF, SetDKIM, SetSPF,
                SetDMARC
  <2> QED
    BY <2>1, <2>2, <2>3, <2>4, <2>5 DEF Next, Accept, Sign, Restart, EditZone
<1> QED
  BY <1>1 DEF OneRow

\* A row that is deleted and that no request has loaded stays deleted.
LEMMA NextGone ==
  ASSUME TypeOK, [Next]_vars, NEW i \in Rows, Gone(i)
  PROVE  Gone(i)'
<1>1. /\ i \in Nat /\ born \in Nat /\ i <= born /\ row[i] = "absent"
      /\ \A c \in Clients : client[c].id # i
      /\ i # None
  BY DEF TypeOK, Gone, Rows, None
<1>2. born' \in Nat /\ i <= born'
  <2>1. born' = born \/ born' = born + 1
    BY DEF Next, CheckName, Insert, Find, LookUpDKIM, LookUpSPF, SetDKIM,
           SetSPF, SetDMARC, Save, Delete, Accept, Sign, Restart, EditZone
  <2> QED
    BY <1>1, <2>1
<1>3. row'[i] = "absent"
  <2>1. ASSUME NEW c \in Clients, Insert(c) PROVE row'[i] = "absent"
    BY <1>1, <2>1 DEF Insert, TypeOK
  <2>2. ASSUME NEW c \in Clients, Save(c) \/ Delete(c) PROVE row'[i] = "absent"
    BY <1>1, <2>2 DEF Save, Delete, TypeOK
  <2>3. CASE UNCHANGED row
    BY <1>1, <2>3
  <2> QED
    BY <2>1, <2>2, <2>3
       DEF Next, CheckName, Find, LookUpDKIM, LookUpSPF, SetDKIM, SetSPF,
           SetDMARC, Accept, Sign, Restart, EditZone
<1>4. ASSUME NEW d \in Clients PROVE client'[d].id # i
  <2>1. ASSUME NEW c \in Clients,
               NEW new, Become(c, new), new.id # i
        PROVE  client'[d].id # i
    BY <1>1, <2>1 DEF Become, TypeOK
  <2>2. Idle.id # i /\ [Idle EXCEPT !.pc = "insert"].id # i
    BY <1>1 DEF Idle
  <2>3. ASSUME NEW c \in Clients, CheckName(c) \/ Insert(c)
        PROVE  client'[d].id # i
    BY <2>1, <2>2, <2>3 DEF CheckName, Insert
  <2>4. ASSUME NEW c \in Clients, NEW j \in Rows,
               NEW pc \in {"lookDKIM", "setDKIM", "delete"}, Find(c, j, pc)
        PROVE  client'[d].id # i
    <3>1. j # i
      BY <1>1, <2>4 DEF Find, Present
    <3>2. [Idle EXCEPT !.pc = pc, !.id = j].id # i
      BY <3>1 DEF Idle
    <3> QED
      BY <2>1, <2>4, <3>2 DEF Find
  <2>5. ASSUME NEW c \in Clients,
               \/ LookUpDKIM(c) \/ LookUpSPF(c) \/ SetDKIM(c) \/ SetSPF(c)
               \/ SetDMARC(c) \/ Save(c) \/ Delete(c)
        PROVE  client'[d].id # i
    <3>1. client[c].id # i /\ client[c] \in ClientType
      BY <1>1 DEF TypeOK, ClientType
    <3>2. \E new : Become(c, new) /\ new.id \in {client[c].id, Idle.id}
      <4>1. CASE LookUpDKIM(c) \/ SetDKIM(c)
        <5>1. PICK flag \in BOOLEAN :
                \/ Become(c, [client[c] EXCEPT !.pc = "lookSPF", !.dkim = flag])
                \/ Become(c, [client[c] EXCEPT !.pc = "setSPF", !.dkim = flag])
          BY <4>1 DEF LookUpDKIM, SetDKIM
        <5>2. \A pc : [client[c] EXCEPT !.pc = pc, !.dkim = flag].id = client[c].id
          BY <3>1 DEF ClientType
        <5> QED
          BY <5>1, <5>2
      <4>2. CASE LookUpSPF(c) \/ SetSPF(c)
        <5>1. PICK flag \in BOOLEAN :
                \/ Become(c, [client[c] EXCEPT !.pc = "save", !.spf = flag])
                \/ Become(c, [client[c] EXCEPT !.pc = "setDMARC", !.spf = flag])
          BY <4>2 DEF LookUpSPF, SetSPF
        <5>2. \A pc : [client[c] EXCEPT !.pc = pc, !.spf = flag].id = client[c].id
          BY <3>1 DEF ClientType
        <5> QED
          BY <5>1, <5>2
      <4>3. CASE SetDMARC(c)
        <5>1. \/ Become(c, [client[c] EXCEPT !.pc = "save"])
              \/ Become(c, Idle)
          BY <4>3 DEF SetDMARC
        <5> QED
          BY <3>1, <5>1 DEF ClientType
      <4>4. CASE Save(c) \/ Delete(c)
        BY <4>4 DEF Save, Delete
      <4> QED
        BY <2>5, <4>1, <4>2, <4>3, <4>4
    <3> QED
      BY <2>1, <2>2, <3>1, <3>2
  <2>6. CASE Restart
    BY <2>2, <2>6 DEF Restart
  <2>7. CASE UNCHANGED client
    BY <1>1, <2>7
  <2> QED
    BY <2>3, <2>4, <2>5, <2>6, <2>7 DEF Next, Accept, Sign, EditZone
<1> QED
  BY <1>2, <1>3, <1>4 DEF Gone

THEOREM DeletedStaysDeleted == Spec => GoneForGood
<1>1. ASSUME TypeOK, [Next]_vars
      PROVE  [\A i \in Rows : Gone(i) => Gone(i)']_vars
  BY <1>1, NextGone
<1> QED
  BY <1>1, DomainTypes, PTL DEF Spec, GoneForGood

(***************************************************************************)
(* No verdict about one row reaches another.                               *)
(***************************************************************************)

\* Nothing that was confirmed is forgotten.
LEMMA SeenGrows ==
  ASSUME TypeOK, [Next]_vars
  PROVE  \A i \in Rows : seen[i] \subseteq seen'[i]
<1>1. \/ UNCHANGED seen
      \/ \E c \in Clients, recs \in Showings : Show(client[c].id, recs)
  BY DEF Next, CheckName, Insert, Find, LookUpDKIM, LookUpSPF, SetDKIM, SetSPF,
         SetDMARC, Save, Delete, Accept, Sign, Restart, EditZone, Showings
<1> QED
  BY <1>1 DEF Show, TypeOK

LEMMA NextBelief ==
  ASSUME TypeOK, Belief, [Next]_vars
  PROVE  Belief'
<1>0. /\ \A i \in Rows : seen[i] \subseteq seen'[i]
      /\ \A d \in Clients : client[d] \in ClientType
  BY SeenGrows DEF TypeOK, ClientType
<1>1. ASSUME NEW r, Grounded(r)
      PROVE  /\ r.pc \notin {"idle", "insert"} => r.id \in Rows
             /\ r.dkim => r.id \in Rows /\ "dkim" \in seen'[r.id]
             /\ r.spf  => r.id \in Rows /\ "spf" \in seen'[r.id]
  BY <1>0, <1>1 DEF Grounded
<1>2. CASE UNCHANGED client
  BY <1>0, <1>2 DEF Belief, Grounded
<1>3. CASE Restart
  BY <1>3 DEF Restart, Belief, Grounded, Idle
<1>4. ASSUME NEW c \in Clients, NEW new, Become(c, new),
             new.pc \notin {"idle", "insert"} => new.id \in Rows,
             new.dkim => new.id \in Rows /\ "dkim" \in seen'[new.id],
             new.spf  => new.id \in Rows /\ "spf" \in seen'[new.id]
      PROVE  Belief'
  <2>1. \A d \in Clients : client'[d] = IF d = c THEN new ELSE client[d]
    BY <1>4 DEF Become, TypeOK
  <2> QED
    BY <1>0, <1>4, <2>1 DEF Belief, Grounded
<1>5. ASSUME NEW c \in Clients, CheckName(c) \/ Insert(c) PROVE Belief'
  <2>1. \/ Become(c, Idle)
        \/ Become(c, [Idle EXCEPT !.pc = "insert"])
    BY <1>5 DEF CheckName, Insert
  <2> QED
    BY <1>4, <2>1 DEF Idle
<1>6. ASSUME NEW c \in Clients, NEW i \in Rows,
             NEW pc \in {"lookDKIM", "setDKIM", "delete"}, Find(c, i, pc)
      PROVE  Belief'
  BY <1>4, <1>6 DEF Find, Idle
<1>7. ASSUME NEW c \in Clients, LookUpDKIM(c) \/ SetDKIM(c) PROVE Belief'
  <2>1. PICK flag \in BOOLEAN, pc \in {"lookSPF", "setSPF"} :
          /\ Become(c, [client[c] EXCEPT !.pc = pc, !.dkim = flag])
          /\ flag => \E recs \in Showings :
                      "dkim" \in recs /\ Show(client[c].id, recs)
    BY <1>7 DEF LookUpDKIM, SetDKIM, Showings
  <2> DEFINE new == [client[c] EXCEPT !.pc = pc, !.dkim = flag]
  <2>2. /\ new.id = client[c].id /\ new.spf = client[c].spf /\ new.dkim = flag
    BY <1>0 DEF ClientType
  <2>3. client[c].id \in Rows /\ Grounded(client[c])
    BY <1>7 DEF LookUpDKIM, SetDKIM, At, Belief, Grounded
  <2>4. flag => "dkim" \in seen'[client[c].id]
    BY <2>1, <2>3 DEF Show, TypeOK
  <2> HIDE DEF new
  <2>5. Become(c, new)
    BY <2>1 DEF new
  <2> QED
    BY <1>1, <1>4, <2>2, <2>3, <2>4, <2>5
<1>8. ASSUME NEW c \in Clients, LookUpSPF(c) \/ SetSPF(c) PROVE Belief'
  <2>1. PICK flag \in BOOLEAN, pc \in {"save", "setDMARC"} :
          /\ Become(c, [client[c] EXCEPT !.pc = pc, !.spf = flag])
          /\ flag => \E recs \in Showings :
                      "spf" \in recs /\ Show(client[c].id, recs)
    BY <1>8 DEF LookUpSPF, SetSPF, Showings
  <2> DEFINE new == [client[c] EXCEPT !.pc = pc, !.spf = flag]
  <2>2. /\ new.id = client[c].id /\ new.dkim = client[c].dkim /\ new.spf = flag
    BY <1>0 DEF ClientType
  <2>3. client[c].id \in Rows /\ Grounded(client[c])
    BY <1>8 DEF LookUpSPF, SetSPF, At, Belief, Grounded
  <2>4. flag => "spf" \in seen'[client[c].id]
    BY <2>1, <2>3 DEF Show, TypeOK
  <2> HIDE DEF new
  <2>5. Become(c, new)
    BY <2>1 DEF new
  <2> QED
    BY <1>1, <1>4, <2>2, <2>3, <2>4, <2>5
<1>9. ASSUME NEW c \in Clients, SetDMARC(c) PROVE Belief'
  <2>1. CASE Become(c, Idle)
    BY <1>4, <2>1 DEF Idle
  <2>2. CASE Become(c, [client[c] EXCEPT !.pc = "save"])
    <3> DEFINE new == [client[c] EXCEPT !.pc = "save"]
    <3>1. /\ new.id = client[c].id /\ new.dkim = client[c].dkim
          /\ new.spf = client[c].spf
      BY <1>0 DEF ClientType
    <3>2. client[c].id \in Rows /\ Grounded(client[c])
      BY <1>9 DEF SetDMARC, At, Belief, Grounded
    <3> HIDE DEF new
    <3>3. Become(c, new)
      BY <2>2 DEF new
    <3> QED
      BY <1>1, <1>4, <3>1, <3>2, <3>3
  <2>3. Become(c, Idle) \/ Become(c, [client[c] EXCEPT !.pc = "save"])
    BY <1>9 DEF SetDMARC
  <2> QED
    BY <2>1, <2>2, <2>3
<1>10. ASSUME NEW c \in Clients, Save(c) \/ Delete(c) PROVE Belief'
  <2>1. Become(c, Idle)
    BY <1>10 DEF Save, Delete
  <2> QED
    BY <1>4, <2>1 DEF Idle
<1> QED
  BY <1>2, <1>3, <1>5, <1>6, <1>7, <1>8, <1>9, <1>10
     DEF Next, Accept, Sign, EditZone

LEMMA NextProven ==
  ASSUME TypeOK, TypeOK', Belief, VerifiedWasProven, [Next]_vars
  PROVE  VerifiedWasProven'
<1>1. \A i \in 0 .. born : Proven(i) => Proven(i)'
  <2>1. \A i \in Rows : seen[i] \subseteq seen'[i]
    BY SeenGrows
  <2>2. 0 .. born \subseteq Rows \cup {None}
    BY DomainsAssumption DEF TypeOK, Rows, None
  <2> QED
    BY <2>1, <2>2 DEF Proven
<1>2. ASSUME NEW i \in Rows, row'[i] = "verified" PROVE Proven(i)'
  <2>1. row[i] = "verified" => Proven(i)'
    <3>1. row[i] = "verified" => i \in 0 .. born
      BY DEF TypeOK, Present
    <3> QED
      BY <1>1, <3>1 DEF VerifiedWasProven
  <2>2. ASSUME NEW c \in Clients, Save(c), row[i] # "verified"
        PROVE  Proven(i)'
    <3>1. i = client[c].id /\ client[c].dkim /\ client[c].spf
      BY <1>2, <2>2 DEF Save, Verdict, TypeOK
    <3>2. {"dkim", "spf"} \subseteq seen[i] /\ i \in 0 .. born
      BY <3>1 DEF Belief, Grounded, TypeOK
    <3> QED
      BY <1>1, <3>2 DEF Proven
  <2>3. ASSUME NEW c \in Clients, Insert(c) \/ Delete(c)
        PROVE  row[i] = "verified"
    BY <1>2, <2>3 DEF Insert, Delete, TypeOK
  <2>4. CASE UNCHANGED row
    BY <1>2, <2>1, <2>4
  <2> QED
    BY <2>1, <2>2, <2>3, <2>4
       DEF Next, CheckName, Find, LookUpDKIM, LookUpSPF, SetDKIM, SetSPF,
           SetDMARC, Accept, Sign, Restart, EditZone
<1>3. Proven(signer)'
  <2>1. CASE UNCHANGED signer
    BY <1>1, <2>1 DEF VerifiedWasProven, TypeOK, Proven
  <2>2. CASE Restart
    <3>1. signer' = None \/ (signer' \in Rows /\ row[signer'] = "verified")
      BY <2>2 DEF Restart
    <3> QED
      BY <2>2, <3>1 DEF Restart, VerifiedWasProven, Proven
  <2> QED
    BY <2>1, <2>2
       DEF Next, CheckName, Insert, Find, LookUpDKIM, LookUpSPF, SetDKIM,
           SetSPF, SetDMARC, Save, Delete, Accept, Sign, EditZone
<1>4. ASSUME NEW m \in Mails PROVE Proven(mail[m].key)'
  <2>1. mail'[m].key \in {mail[m].key, None, signer}
    <3>1. CASE UNCHANGED mail
      BY <3>1
    <3>2. ASSUME NEW n \in Mails, Accept(n)
          PROVE  mail'[m].key \in {mail[m].key, None, signer}
      BY <3>2 DEF Accept, TypeOK
    <3>3. ASSUME NEW n \in Mails, Sign(n)
          PROVE  mail'[m].key \in {mail[m].key, None, signer}
      BY <3>3 DEF Sign, TypeOK
    <3> QED
      BY <3>1, <3>2, <3>3
         DEF Next, CheckName, Insert, Find, LookUpDKIM, LookUpSPF, SetDKIM,
             SetSPF, SetDMARC, Save, Delete, Restart, EditZone
  <2>2. mail[m].key \in 0 .. born /\ signer \in 0 .. born /\ None \in 0 .. born
    BY RecordTypes DEF TypeOK
  <2>3. Proven(mail[m].key) /\ Proven(None) /\ Proven(signer)
    BY DEF VerifiedWasProven, Proven
  <2>4. PICK k : k = mail'[m].key
    OBVIOUS
  <2>5. (k = None \/ {"dkim", "spf"} \subseteq seen[k])'
    BY <1>1, <2>1, <2>2, <2>3, <2>4 DEF Proven
  <2> QED
    BY <2>4, <2>5 DEF Proven
<1> QED
  BY <1>2, <1>3, <1>4 DEF VerifiedWasProven

\* However verifications, deletions, new registrations and restarts overlap,
\* only a row that records were shown for is verified or signs mail.
THEOREM VerdictsAreProven == Spec => []VerifiedWasProven
<1>1. Init => Belief /\ VerifiedWasProven
  BY DEF Init, Belief, Grounded, VerifiedWasProven, Proven, Idle, Unsent
<1>2. TypeOK /\ Belief /\ [Next]_vars => Belief'
  BY NextBelief
<1>3. TypeOK /\ TypeOK' /\ Belief /\ VerifiedWasProven /\ [Next]_vars
        => VerifiedWasProven'
  BY NextProven
<1> QED
  BY <1>1, <1>2, <1>3, DomainTypes, PTL DEF Spec

(***************************************************************************)
(* The handlers implement DomainName.  A request that has loaded no row    *)
(* has none in hand, so what a request takes up or lays down is what its   *)
(* one record shows.                                                       *)
(***************************************************************************)

EmptyHands ==
  \A c \in Clients : client[c].pc \in {"idle", "insert"} => client[c].id = None

\* A message is new until it is taken, and unsigned until it is sent.
NewMail ==
  \A m \in Mails :
    /\ mail[m].pc = "new" <=> mail[m].id = None
    /\ mail[m].pc # "sent" => mail[m].key = None

NameInv == TypeOK /\ OneRow /\ Belief /\ EmptyHands /\ NewMail

LEMMA NextEmptyHands ==
  ASSUME TypeOK, EmptyHands, [Next]_vars
  PROVE  EmptyHands'
<1>0. \A c \in Clients : client[c] \in ClientType
  BY DEF TypeOK, ClientType
<1>1. ASSUME NEW c \in Clients, NEW new, Become(c, new),
             new.pc \in {"idle", "insert"} => new.id = None
      PROVE  EmptyHands'
  BY <1>1 DEF Become, EmptyHands, TypeOK
<1>2. CASE UNCHANGED client
  BY <1>2 DEF EmptyHands
<1>3. CASE Restart
  BY <1>3 DEF Restart, EmptyHands, Idle
<1>4. ASSUME NEW c \in Clients,
             CheckName(c) \/ Insert(c) \/ Save(c) \/ Delete(c)
      PROVE  EmptyHands'
  BY <1>1, <1>4 DEF CheckName, Insert, Save, Delete, Idle
<1>5. ASSUME NEW c \in Clients, NEW i \in Rows,
             NEW pc \in {"lookDKIM", "setDKIM", "delete"}, Find(c, i, pc)
      PROVE  EmptyHands'
  BY <1>1, <1>5 DEF Find, Idle
<1>6. ASSUME NEW c \in Clients, LookUpDKIM(c) \/ SetDKIM(c) PROVE EmptyHands'
  <2>1. PICK flag \in BOOLEAN, pc \in {"lookSPF", "setSPF"} :
          Become(c, [client[c] EXCEPT !.pc = pc, !.dkim = flag])
    BY <1>6 DEF LookUpDKIM, SetDKIM
  <2>2. [client[c] EXCEPT !.pc = pc, !.dkim = flag].pc = pc
    BY <1>0 DEF ClientType
  <2> QED
    BY <1>1, <2>1, <2>2
<1>7. ASSUME NEW c \in Clients, LookUpSPF(c) \/ SetSPF(c) PROVE EmptyHands'
  <2>1. PICK flag \in BOOLEAN, pc \in {"save", "setDMARC"} :
          Become(c, [client[c] EXCEPT !.pc = pc, !.spf = flag])
    BY <1>7 DEF LookUpSPF, SetSPF
  <2>2. [client[c] EXCEPT !.pc = pc, !.spf = flag].pc = pc
    BY <1>0 DEF ClientType
  <2> QED
    BY <1>1, <2>1, <2>2
<1>8. ASSUME NEW c \in Clients, SetDMARC(c) PROVE EmptyHands'
  <2>1. \/ Become(c, [client[c] EXCEPT !.pc = "save"])
        \/ Become(c, Idle)
    BY <1>8 DEF SetDMARC
  <2>2. [client[c] EXCEPT !.pc = "save"].pc = "save"
    BY <1>0 DEF ClientType
  <2> QED
    BY <1>1, <2>1, <2>2 DEF Idle
<1> QED
  BY <1>2, <1>3, <1>4, <1>5, <1>6, <1>7, <1>8 DEF Next, Accept, Sign, EditZone

LEMMA NextNewMail ==
  ASSUME TypeOK, NewMail, [Next]_vars
  PROVE  NewMail'
<1>1. CASE UNCHANGED mail
  BY <1>1 DEF NewMail
<1>2. ASSUME NEW m \in Mails, Accept(m) PROVE NewMail'
  BY <1>2 DEF Accept, NewMail, TypeOK, Rows, None
<1>3. ASSUME NEW m \in Mails, Sign(m) PROVE NewMail'
  BY <1>3 DEF Sign, NewMail, TypeOK
<1> QED
  BY <1>1, <1>2, <1>3
  DEF Next, CheckName, Insert, Find, LookUpDKIM, LookUpSPF, SetDKIM, SetSPF,
      SetDMARC, Save, Delete, Restart, EditZone

\* Who has the name, and with which verdict, is read off the one row there is.
NameReads ==
  /\ Present = {} => Holder = None /\ Standing = "pending"
  /\ \A i \in Present : Holder = i /\ Standing = row[i]
  /\ Holder \in Present \cup {None}
  /\ None \notin Present /\ None \notin Rows

LEMMA HolderIs == TypeOK /\ OneRow => NameReads
<1> SUFFICES ASSUME TypeOK, OneRow PROVE NameReads
  OBVIOUS
<1>1. None \notin Rows /\ Present \subseteq Rows
  BY DEF None, Rows, Present
<1>2. \A i \in Rows : row[i] = "verified" => i \in Present
  BY DEF Present
<1>3. \A i \in Present : row[i] \in {"pending", "verified"}
  BY DEF Present, TypeOK
<1>4. Present = {} => Holder = None /\ Standing = "pending"
  BY <1>2 DEF Holder, Standing
<1>5. ASSUME NEW i \in Present PROVE Holder = i /\ Standing = row[i]
  <2>1. Holder \in Present
    BY <1>5 DEF Holder
  <2>2. \A j \in Present : j = i
    BY DEF OneRow
  <2>3. row[i] = "verified" <=> \E j \in Rows : row[j] = "verified"
    BY <1>1, <1>2, <2>2
  <2> QED
    BY <1>3, <2>1, <2>2, <2>3 DEF Standing
<1> QED
  BY <1>1, <1>4, <1>5 DEF NameReads

LEMMA HolderNext == TypeOK' /\ OneRow' => NameReads'
BY HolderIs, PTL

\* The effect of a step on the row, as the owner of the name sees it.
LEMMA NameStays ==
  ASSUME UNCHANGED row
  PROVE  Holder' = Holder /\ Standing' = Standing
BY DEF Holder, Standing, Present

LEMMA NameIsTaken ==
  ASSUME NameInv, NameInv', NEW i \in Rows, CanHold(i),
         NEW v \in {"pending", "verified"}, row' = [row EXCEPT ![i] = v]
  PROVE  Holder \in {None, i} /\ Holder' = i /\ Standing' = v
<1>1. Holder \in {None, i}
  BY HolderIs DEF CanHold, NameInv, NameReads
<1>2. i \in Present' /\ row'[i] = v
  BY DEF NameInv, TypeOK, Present
<1>3. Holder' = i /\ Standing' = row'[i]
  BY <1>2, HolderNext DEF NameInv, NameReads
<1> QED
  BY <1>1, <1>2, <1>3

LEMMA NameIsLeft ==
  ASSUME NameInv, NameInv', NEW i \in Rows,
         row' = [row EXCEPT ![i] = "absent"]
  PROVE  \/ Holder = i /\ Holder' = None /\ Standing' = "pending"
         \/ UNCHANGED row
<1>1. CASE i \in Present
  <2>1. Holder = i
    BY <1>1, HolderIs DEF NameInv, NameReads
  <2>2. Present' = {}
    BY <1>1 DEF NameInv, TypeOK, Present, OneRow
  <2>3. Holder' = None /\ Standing' = "pending"
    BY <2>2, HolderNext DEF NameInv, NameReads
  <2> QED
    BY <2>1, <2>3
<1>2. CASE i \notin Present
  BY <1>2 DEF NameInv, TypeOK, Present
<1> QED
  BY <1>1, <1>2

\* The effect of a step on what requests have in hand.
LEMMA HandsMove ==
  ASSUME TypeOK, NEW c \in Clients, NEW new \in ClientType, Become(c, new)
  PROVE  /\ new.id = client[c].id => InHand' = InHand
         /\ new.id = None => \/ InHand' = InHand
                             \/ InHand' = InHand \ {client[c].id}
         /\ client[c].id = None /\ new.id # None
              => InHand' = InHand \cup {new.id}
<1>1. \A d \in Clients : client'[d] = IF d = c THEN new ELSE client[d]
  BY DEF Become, TypeOK
<1>2. \A i : i \in InHand <=> i # None /\ \E d \in Clients : client[d].id = i
  BY DEF InHand
<1>3. \A i : i \in InHand' <=> i # None /\ \E d \in Clients : client'[d].id = i
  BY DEF InHand
<1>4. ASSUME new.id = client[c].id PROVE InHand' = InHand
  <2>1. \A d \in Clients : client'[d].id = client[d].id
    BY <1>1, <1>4
  <2> QED
    BY <1>2, <1>3, <2>1
<1>5. ASSUME new.id = None
      PROVE  InHand' = InHand \/ InHand' = InHand \ {client[c].id}
  <2>1. CASE \E d \in Clients : d # c /\ client[d].id = client[c].id
    <3>1. \A i : i \in InHand' <=> i \in InHand
      BY <1>1, <1>2, <1>3, <1>5, <2>1
    <3> QED
      BY <3>1
  <2>2. CASE ~ \E d \in Clients : d # c /\ client[d].id = client[c].id
    <3>1. \A i : i \in InHand' <=> i \in InHand \ {client[c].id}
      BY <1>1, <1>2, <1>3, <1>5, <2>2
    <3> QED
      BY <3>1
  <2> QED
    BY <2>1, <2>2
<1>6. ASSUME client[c].id = None, new.id # None
      PROVE  InHand' = InHand \cup {new.id}
  <2>1. \A i : i \in InHand' <=> i \in InHand \cup {new.id}
    BY <1>1, <1>2, <1>3, <1>6
  <2> QED
    BY <2>1
<1> QED
  BY <1>4, <1>5, <1>6

\* A request at work has its row in hand.
LEMMA HasInHand ==
  ASSUME NameInv, NEW c \in Clients, client[c].pc \notin {"idle", "insert"}
  PROVE  client[c].id \in InHand /\ client[c].id \in Rows
BY DEF NameInv, Belief, Grounded, InHand, Rows, None

LEMMA Confirms ==
  ASSUME TypeOK, NEW i \in Rows, NEW recs, Show(i, recs)
  PROVE  Confirmed' \in {Confirmed, Confirmed \cup {i}}
<1>1. \A j \in Rows \ {i} : seen'[j] = seen[j]
  BY DEF Show, TypeOK
<1>2. seen[i] \subseteq seen'[i]
  BY DEF Show, TypeOK
<1>3. CASE Record \subseteq seen'[i]
  <2>1. \A j : j \in Confirmed' <=> j \in Confirmed \cup {i}
    BY <1>1, <1>3 DEF Confirmed
  <2> QED
    BY <2>1
<1>4. CASE ~(Record \subseteq seen'[i])
  <2>1. \A j : j \in Confirmed' <=> j \in Confirmed
    BY <1>1, <1>2, <1>4 DEF Confirmed
  <2> QED
    BY <2>1
<1> QED
  BY <1>3, <1>4

LEMMA NameInit == Init => Name!Init
<1> SUFFICES ASSUME Init PROVE Name!Init
  OBVIOUS
<1>1. Present = {} /\ \A i \in Rows : row[i] # "verified"
  BY DEF Init, Present
<1>2. Holder = None /\ Standing = "pending"
  BY <1>1 DEF Holder, Standing
<1>3. InHand = {} /\ Confirmed = {}
  BY DEF Init, InHand, Confirmed, Idle, Record
<1>4. /\ TakenFor = [m \in Mails |-> None]
      /\ Signature = [m \in Mails |-> None]
  BY DEF Init, TakenFor, Signature, Unsent
<1>5. born = 0 /\ signer = None
  BY DEF Init
<1> QED
  BY <1>2, <1>3, <1>4, <1>5 DEF Name!Init

\* The steps of requests.  All leave the mail and the signer alone.
LEMMA RequestRefines ==
  ASSUME NameInv, NameInv', NEW c \in Clients,
         \/ CheckName(c) \/ Insert(c)
         \/ \E i \in Rows, pc \in {"lookDKIM", "setDKIM", "delete"} :
              Find(c, i, pc)
         \/ LookUpDKIM(c) \/ LookUpSPF(c) \/ SetDKIM(c) \/ SetSPF(c)
         \/ SetDMARC(c) \/ Save(c) \/ Delete(c)
  PROVE  [Name!Next]_(Name!name)
<1> DEFINE i == client[c].id
<1>0. /\ client[c] \in ClientType /\ Idle \in ClientType /\ Idle.id = None
      /\ TypeOK
      /\ client[c].pc \in {"idle", "insert"} => i = None
  BY RecordTypes DEF NameInv, TypeOK, ClientType, Idle, EmptyHands
<1>1. UNCHANGED <<signer, mail>> /\ TakenFor' = TakenFor
      /\ Signature' = Signature
  <2>1. UNCHANGED <<signer, mail>>
    BY DEF CheckName, Insert, Find, LookUpDKIM, LookUpSPF, SetDKIM, SetSPF,
           SetDMARC, Save, Delete
  <2> QED
    BY <2>1 DEF TakenFor, Signature
<1>2. UNCHANGED seen => Confirmed' = Confirmed
  BY DEF Confirmed
<1>3. ASSUME UNCHANGED <<Holder, Standing, born, InHand, Confirmed>>
      PROVE  UNCHANGED Name!name
  BY <1>1, <1>3 DEF Name!name
<1>4. CASE CheckName(c)
  <2>1. [Idle EXCEPT !.pc = "insert"] \in ClientType
        /\ [Idle EXCEPT !.pc = "insert"].id = None
    BY <1>0, GoesOn DEF ClientPc, Idle
  <2>2. InHand' = InHand
    BY <1>0, <1>4, <2>1, HandsMove DEF CheckName, At
  <2>3. Holder' = Holder /\ Standing' = Standing
    BY <1>4, NameStays DEF CheckName
  <2> QED
    BY <1>2, <1>3, <1>4, <2>2, <2>3 DEF CheckName
<1>5. CASE Insert(c)
  <2>1. InHand' = InHand
    BY <1>0, <1>5, HandsMove DEF Insert, At
  <2>2. CASE UNCHANGED <<row, born>>
    BY <1>2, <1>3, <1>5, <2>1, <2>2, NameStays DEF Insert
  <2>3. CASE /\ born < MaxRows /\ CanHold(born + 1) /\ born' = born + 1
             /\ row' = [row EXCEPT ![born + 1] = "pending"]
    <3>1. born + 1 \in Rows /\ born + 1 # None /\ born + 1 \notin Present
      BY <2>3, DomainsAssumption DEF NameInv, TypeOK, Rows, None
    <3>2. /\ Holder \in {None, born + 1}
          /\ Holder' = born + 1 /\ Standing' = "pending"
      BY <2>3, <3>1, NameIsTaken
    <3>3. Holder = None
      BY <3>1, <3>2, HolderIs DEF NameInv, NameReads
    <3>4. Name!Register
      BY <1>1, <1>2, <1>5, <2>1, <2>3, <3>2, <3>3
      DEF Name!Register, Name!mail, Insert
    <3> QED
      BY <3>4 DEF Name!Next
  <2> QED
    BY <1>5, <2>2, <2>3 DEF Insert
<1>6. ASSUME NEW j \in Rows, NEW pc \in {"lookDKIM", "setDKIM", "delete"},
             Find(c, j, pc)
      PROVE  [Name!Next]_(Name!name)
  <2> DEFINE new == [Idle EXCEPT !.pc = pc, !.id = j]
  <2>1. j \in Present /\ j # None /\ Holder = j /\ j \in 0 .. born
    <3>1. j \in Present
      BY <1>6 DEF Find
    <3>2. j \in 0 .. born
      BY <1>0, <3>1, RecordTypes DEF TypeOK
    <3> QED
      BY <3>1, <3>2, HolderIs DEF NameInv, NameReads
  <2>2. new \in ClientType /\ new.id = j
    BY <1>0, <2>1 DEF ClientType, ClientPc
  <2>3. InHand' = InHand \cup {j}
    BY <1>0, <1>6, <2>1, <2>2, HandsMove DEF Find, At
  <2>4. Holder' = Holder /\ Standing' = Standing
    BY <1>6, NameStays DEF Find
  <2>5. Name!TakeUp
    BY <1>1, <1>2, <1>6, <2>1, <2>3, <2>4 DEF Name!TakeUp, Name!mail, Find
  <2> QED
    BY <2>5 DEF Name!Next
<1>7. CASE LookUpDKIM(c) \/ LookUpSPF(c) \/ SetDKIM(c) \/ SetSPF(c)
  <2>1. i \in InHand /\ i \in Rows
    BY <1>7, HasInHand DEF LookUpDKIM, LookUpSPF, SetDKIM, SetSPF, At
  <2>2. UNCHANGED <<row, born>>
    BY <1>7 DEF LookUpDKIM, LookUpSPF, SetDKIM, SetSPF
  <2>3. InHand' = InHand
    <3>1. PICK flag \in BOOLEAN, pc \in ClientPc :
            \/ Become(c, [client[c] EXCEPT !.pc = pc, !.dkim = flag])
            \/ Become(c, [client[c] EXCEPT !.pc = pc, !.spf = flag])
      BY <1>7 DEF LookUpDKIM, LookUpSPF, SetDKIM, SetSPF, ClientPc
    <3>2. /\ [client[c] EXCEPT !.pc = pc, !.dkim = flag] \in ClientType
          /\ [client[c] EXCEPT !.pc = pc, !.spf = flag] \in ClientType
          /\ [client[c] EXCEPT !.pc = pc, !.dkim = flag].id = i
          /\ [client[c] EXCEPT !.pc = pc, !.spf = flag].id = i
      BY <1>0 DEF ClientType
    <3> QED
      BY <1>0, <3>1, <3>2, HandsMove
  <2>4. \/ Confirmed' = Confirmed
        \/ Confirmed' = Confirmed \cup {i}
    <3>1. \/ UNCHANGED seen
          \/ \E recs \in Showings : Show(i, recs)
      BY <1>7 DEF LookUpDKIM, LookUpSPF, SetDKIM, SetSPF, Showings
    <3> QED
      BY <1>0, <1>2, <2>1, <3>1, Confirms
  <2>5. Holder' = Holder /\ Standing' = Standing
    BY <2>2, NameStays
  <2>6. CASE Confirmed' = Confirmed
    BY <1>3, <2>2, <2>3, <2>5, <2>6
  <2>7. CASE Confirmed' = Confirmed \cup {i}
    <3>1. Name!Confirm(i)
      BY <1>1, <2>1, <2>2, <2>3, <2>5, <2>7 DEF Name!Confirm, Name!mail
    <3> QED
      BY <2>1, <3>1 DEF Name!Next
  <2> QED
    BY <2>4, <2>6, <2>7
<1>8. ASSUME client[c].pc \notin {"idle", "insert"}, Become(c, Idle),
             UNCHANGED <<born, seen>>
      PROVE  /\ i \in InHand /\ i \in Rows
             /\ InHand' = InHand \/ InHand' = InHand \ {i}
             /\ Name!LaysDown(i)
             /\ Confirmed' = Confirmed
             /\ UNCHANGED row => Name!LayDown(i)
  <2>1. i \in InHand /\ i \in Rows
    BY <1>8, HasInHand
  <2>2. InHand' = InHand \/ InHand' = InHand \ {i}
    BY <1>0, <1>8, HandsMove
  <2>3. Name!LaysDown(i)
    BY <2>2 DEF Name!LaysDown
  <2>4. UNCHANGED row => Name!LayDown(i)
    BY <1>1, <1>2, <1>8, <2>1, <2>3, NameStays DEF Name!LayDown, Name!mail
  <2> QED
    BY <1>2, <1>8, <2>1, <2>2, <2>3, <2>4
<1>9. CASE SetDMARC(c)
  <2>1. UNCHANGED <<row, born, seen>> /\ client[c].pc \notin {"idle", "insert"}
    BY <1>9 DEF SetDMARC, At
  <2>2. CASE Become(c, Idle)
    BY <1>8, <2>1, <2>2 DEF Name!Next
  <2>3. CASE Become(c, [client[c] EXCEPT !.pc = "save"])
    <3>1. /\ [client[c] EXCEPT !.pc = "save"] \in ClientType
          /\ [client[c] EXCEPT !.pc = "save"].id = i
      BY <1>0 DEF ClientType, ClientPc
    <3>2. InHand' = InHand
      BY <1>0, <2>3, <3>1, HandsMove
    <3> QED
      BY <1>2, <1>3, <2>1, <3>2, NameStays
  <2> QED
    BY <1>9, <2>2, <2>3 DEF SetDMARC
<1>10. CASE Save(c)
  <2>1. /\ client[c].pc \notin {"idle", "insert"} /\ Become(c, Idle)
        /\ UNCHANGED <<born, seen>>
    BY <1>10 DEF Save, At
  <2>2. CASE UNCHANGED row
    BY <1>8, <2>1, <2>2 DEF Name!Next
  <2>3. CASE CanHold(i) /\ row' = [row EXCEPT ![i] = Verdict(c)]
    <3>1. Verdict(c) \in {"pending", "verified"}
      BY DEF Verdict
    <3>2. Verdict(c) = "verified" => i \in Confirmed
      BY <1>8, <2>1
      DEF Verdict, NameInv, Belief, Grounded, Confirmed, Record
    <3>3. /\ Holder \in {None, i} /\ Holder' = i /\ Standing' = Verdict(c)
      BY <1>8, <2>1, <2>3, <3>1, NameIsTaken
    <3>4. Name!Judge(i)
      BY <1>1, <1>8, <2>1, <3>1, <3>2, <3>3 DEF Name!Judge, Name!mail
    <3> QED
      BY <1>8, <2>1, <3>4 DEF Name!Next
  <2> QED
    BY <1>10, <2>2, <2>3 DEF Save
<1>11. CASE Delete(c)
  <2>1. /\ client[c].pc \notin {"idle", "insert"} /\ Become(c, Idle)
        /\ UNCHANGED <<born, seen>>
    BY <1>11 DEF Delete, At
  <2>2. CASE UNCHANGED row
    BY <1>8, <2>1, <2>2 DEF Name!Next
  <2>3. CASE row' = [row EXCEPT ![i] = "absent"] /\ ~UNCHANGED row
    <3>1. Holder = i /\ Holder' = None /\ Standing' = "pending"
      BY <1>8, <2>1, <2>3, NameIsLeft
    <3>2. Name!Release
      BY <1>1, <1>8, <2>1, <3>1 DEF Name!Release, Name!mail
    <3> QED
      BY <3>2 DEF Name!Next
  <2> QED
    BY <1>11, <2>2, <2>3 DEF Delete
<1> QED
  BY <1>4, <1>5, <1>6, <1>7, <1>9, <1>10, <1>11

LEMMA MailRefines ==
  ASSUME NameInv, NEW m \in Mails, Accept(m) \/ Sign(m)
  PROVE  [Name!Next]_(Name!name)
<1>1. UNCHANGED <<row, born, signer, client, seen>>
  BY DEF Accept, Sign
<1>2. /\ Holder' = Holder /\ Standing' = Standing /\ InHand' = InHand
      /\ Confirmed' = Confirmed
  BY <1>1, NameStays DEF InHand, Confirmed
<1>3. mail \in [Mails -> [pc : {"new", "queued", "sent"}, id : 0 .. born,
                          key : 0 .. born]]
  BY DEF NameInv, TypeOK
<1>4. CASE Accept(m)
  <2>1. PICK i \in Rows :
          /\ row[i] = "verified"
          /\ mail' = [mail EXCEPT
                        ![m] = [pc |-> "queued", id |-> i, key |-> None]]
    BY <1>4 DEF Accept
  <2>2. Holder = i /\ Standing = "verified" /\ i # None
    BY <2>1, HolderIs DEF NameInv, NameReads, Present
  <2>3. mail[m].id = None /\ mail[m].key = None
    BY <1>4 DEF Accept, NameInv, NewMail
  <2>4. TakenFor' = [TakenFor EXCEPT ![m] = i] /\ TakenFor[m] = None
    BY <1>3, <2>1, <2>3 DEF TakenFor
  <2>5. Signature' = Signature
    BY <1>3, <2>1, <2>3 DEF Signature
  <2>6. Name!TakeMail(m)
    BY <1>1, <1>2, <2>2, <2>4, <2>5 DEF Name!TakeMail
  <2> QED
    BY <2>6 DEF Name!Next
<1>5. CASE Sign(m)
  <2>1. mail[m].id # None /\ mail[m].key = None
    BY <1>5 DEF Sign, NameInv, NewMail
  <2>2. mail' = [mail EXCEPT ![m].pc = "sent", ![m].key = signer]
    BY <1>5 DEF Sign
  <2>3. TakenFor' = TakenFor /\ TakenFor[m] # None
    BY <1>3, <2>1, <2>2 DEF TakenFor
  <2>4. /\ Signature' = [Signature EXCEPT ![m] = signer]
        /\ Signature[m] = None
    BY <1>3, <2>1, <2>2 DEF Signature
  <2>5. Name!Sign(m)
    BY <1>1, <1>2, <2>3, <2>4 DEF Name!Sign
  <2> QED
    BY <2>5 DEF Name!Next
<1> QED
  BY <1>4, <1>5

LEMMA RestartRefines ==
  ASSUME NameInv, Restart
  PROVE  [Name!Next]_(Name!name)
<1>1. UNCHANGED <<row, born, mail, seen>>
  BY DEF Restart
<1>2. /\ Holder' = Holder /\ Standing' = Standing /\ Confirmed' = Confirmed
      /\ TakenFor' = TakenFor /\ Signature' = Signature
  BY <1>1, NameStays DEF Confirmed, TakenFor, Signature
<1>3. InHand' = {}
  BY DEF Restart, InHand, Idle
<1>4. signer' \in {None} \cup (IF Standing = "verified" THEN {Holder} ELSE {})
  <2>1. signer' = None \/ (signer' \in Rows /\ row[signer'] = "verified")
    BY DEF Restart
  <2> QED
    BY <2>1, HolderIs DEF NameInv, NameReads, Present
<1>5. Name!Restart
  BY <1>1, <1>2, <1>3, <1>4 DEF Name!Restart, Name!mail
<1> QED
  BY <1>5 DEF Name!Next

LEMMA NameStep == NameInv /\ NameInv' /\ [Next]_vars => [Name!Next]_(Name!name)
<1> SUFFICES ASSUME NameInv, NameInv', [Next]_vars
             PROVE  [Name!Next]_(Name!name)
  OBVIOUS
<1>1. ASSUME UNCHANGED <<row, born, signer, client, mail, seen>>
      PROVE  UNCHANGED Name!name
  BY <1>1, NameStays DEF Name!name, InHand, Confirmed, TakenFor, Signature
<1>2. CASE EditZone \/ UNCHANGED vars
  BY <1>1, <1>2 DEF EditZone
<1> QED
  BY <1>2, RequestRefines, MailRefines, RestartRefines DEF Next

\* The handlers, the owner's edits and restarts implement the promise about
\* a name: it has one holder, which is verified only on its own records and
\* never succeeded by a row that nobody has in hand.
THEOREM NameIsKept == Spec => ImplementsDomainName
<1>1. Init => NameInv
  <2>1. Init => OneRow /\ Belief /\ EmptyHands /\ NewMail
    BY DEF Init, OneRow, Present, Belief, Grounded, EmptyHands, Idle,
           NewMail, Unsent
  <2> QED
    BY <2>1, InitTypes DEF NameInv
<1>2. NameInv /\ [Next]_vars => NameInv'
  BY NextTypes, NextOneRow, NextBelief, NextEmptyHands, NextNewMail
  DEF NameInv
<1> QED
  BY <1>1, <1>2, NameInit, NameStep, PTL
  DEF Spec, ImplementsDomainName, Name!Spec
=============================================================================
