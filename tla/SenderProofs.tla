---------------------------- MODULE SenderProofs ----------------------------
(***************************************************************************)
(* What a call of Send can return, for any number of mail exchangers and   *)
(* any replies of theirs.  AnswersAreDeployed is what the theorems about   *)
(* the queue assume of the sender (Deployed in DeliveryLedgerProofs).      *)
(***************************************************************************)
EXTENDS Sender, FiniteSetTheorems, TLAPS

Steps == {"dial", "hello", "mail", "rcpt", "data", "body", "dot", "quit"}

LEMMA StepsOf == { Commands[i] : i \in DOMAIN Commands } = Steps
<1>1. DOMAIN Commands = 1 .. 8
  BY DEF Commands
<1>2. /\ Commands[1] = "dial" /\ Commands[2] = "hello" /\ Commands[3] = "mail"
      /\ Commands[4] = "rcpt" /\ Commands[5] = "data" /\ Commands[6] = "body"
      /\ Commands[7] = "dot" /\ Commands[8] = "quit"
  BY DEF Commands
<1>3. \A i \in 1 .. 8 : Commands[i] \in Steps
  <2>1. \A i \in 1 .. 8 : \/ i = 1 \/ i = 2 \/ i = 3 \/ i = 4
                          \/ i = 5 \/ i = 6 \/ i = 7 \/ i = 8
    OBVIOUS
  <2> QED
    BY <1>2, <2>1 DEF Steps
<1>4. \A s \in Steps : \E i \in 1 .. 8 : Commands[i] = s
  BY <1>2 DEF Steps
<1> QED
  BY <1>1, <1>3, <1>4

\* The command after one that is not the last, and which is not "quit" unless
\* the final dot has been given.
LEMMA AfterIs ==
  ASSUME NEW cmd \in {"dial", "hello", "mail", "rcpt", "data", "body"}
  PROVE  After(cmd) \in Steps \ {"quit"}
<1>1. DOMAIN Commands = 1 .. 8
  BY DEF Commands
<1>2. /\ Commands[1] = "dial" /\ Commands[2] = "hello" /\ Commands[3] = "mail"
      /\ Commands[4] = "rcpt" /\ Commands[5] = "data" /\ Commands[6] = "body"
      /\ Commands[7] = "dot" /\ Commands[8] = "quit"
  BY DEF Commands
<1> DEFINE i == CHOOSE j \in DOMAIN Commands : Commands[j] = cmd
<1>3. \E j \in DOMAIN Commands : Commands[j] = cmd
  BY <1>1, <1>2
<1>4. i \in 1 .. 8 /\ Commands[i] = cmd
  BY <1>1, <1>3
<1>5. After(cmd) = Commands[i + 1]
  BY DEF After
<1> HIDE DEF i
<1>6. i = 1 \/ i = 2 \/ i = 3 \/ i = 4 \/ i = 5 \/ i = 6
  <2>1. \/ i = 1 \/ i = 2 \/ i = 3 \/ i = 4 \/ i = 5 \/ i = 6 \/ i = 7 \/ i = 8
    BY <1>4
  <2> QED
    BY <1>2, <1>4, <2>1
<1>7. \/ i + 1 = 2 \/ i + 1 = 3 \/ i + 1 = 4 \/ i + 1 = 5 \/ i + 1 = 6
      \/ i + 1 = 7
  BY <1>6
<1> QED
  BY <1>2, <1>5, <1>7 DEF Steps

(***************************************************************************)
(* Up to its reply to the final dot, the exchanger that is tried has no    *)
(* message and all that have it lapsed; from then on until QUIT it is the  *)
(* only one that has it and did not lapse.  An error that is returned has  *)
(* lost its type.                                                          *)
(***************************************************************************)
Taken == /\ pc = "parse" => mx = 1
         /\ pc \notin {"quit", "done"} =>
              mx \notin takers /\ takers \subseteq lapsed
         /\ pc = "quit" => takers \ lapsed = {mx}

Returned ==
  pc = "done" => \/ result = "other" /\ takers \subseteq lapsed
                 \/ result = "nil" /\ takers \ lapsed = {mx}

SenderInv == TypeOK /\ Taken /\ Returned

LEMMA FailStep ==
  ASSUME SenderInv, NEW err \in ErrKind, Fail(err), found' = found,
         takers' \subseteq 1 .. mx, lapsed' = takers'
  PROVE  SenderInv'
<1>1. /\ found \in 1 .. Exchangers /\ Exchangers \in Nat /\ mx \in 1 .. found
  BY ExchangersAssumption DEF SenderInv, TypeOK
<1>2. CASE mx < found
  <2>1. /\ mx' = mx + 1 /\ pc' = "dial" /\ result' = result /\ lastErr' = err
    BY <1>2 DEF Fail
  <2>2. mx' \in 1 .. found /\ 1 .. mx \subseteq 1 .. mx'
    BY <1>1, <1>2, <2>1
  <2>3. TypeOK'
    BY <2>1, <2>2, StepsOf DEF SenderInv, TypeOK, Steps
  <2>4. mx' \notin takers'
    BY <1>1, <2>1
  <2> QED
    BY <2>1, <2>3, <2>4 DEF SenderInv, Taken, Returned
<1>3. CASE ~(mx < found)
  <2>1. /\ mx' = mx /\ pc' = "done" /\ result' = "other" /\ lastErr' = err
    BY <1>3 DEF Fail, Return
  <2>2. TypeOK'
    BY <2>1 DEF SenderInv, TypeOK, ErrKind
  <2> QED
    BY <2>1, <2>2 DEF SenderInv, Taken, Returned
<1> QED
  BY <1>2, <1>3

LEMMA SenderInvariant == Spec => []SenderInv
<1>1. Init => SenderInv
  BY ExchangersAssumption
     DEF Init, SenderInv, TypeOK, Taken, Returned, ErrKind
<1>2. SenderInv /\ [Next]_vars => SenderInv'
  <2> SUFFICES ASSUME SenderInv, [Next]_vars PROVE SenderInv'
    OBVIOUS
  <2>1. CASE InvalidRecipient
    BY <2>1 DEF InvalidRecipient, Return, SenderInv, TypeOK, Taken, Returned,
                ErrKind
  <2>2. CASE LookUp
    <3>1. /\ pc' = "dial" /\ mx' = mx /\ found' \in 1 .. Exchangers
          /\ UNCHANGED <<lastErr, takers, lapsed, result>>
      BY <2>2 DEF LookUp
    <3>2. mx = 1 /\ mx \in 1 .. found'
      BY <2>2, <3>1, ExchangersAssumption DEF LookUp, SenderInv, Taken
    <3> QED
      <4>1. TypeOK'
        BY <3>1, <3>2, StepsOf DEF SenderInv, TypeOK, Steps
      <4>2. pc = "parse"
        BY <2>2 DEF LookUp
      <4> QED
        BY <3>1, <4>1, <4>2 DEF SenderInv, Taken, Returned
  <2>3. ASSUME NEW cmd \in {"dial", "hello", "mail", "rcpt", "data", "body"},
               Command(cmd)
        PROVE  SenderInv'
    <3>1. UNCHANGED <<found, takers, lapsed>>
      BY <2>3 DEF Command
    <3>2. ASSUME NEW err \in ErrKind, Fail(err) PROVE SenderInv'
      <4>1. pc \notin {"quit", "done"}
        BY <2>3 DEF Command
      <4>2. lapsed' = takers' /\ takers' \subseteq 1 .. mx
        BY <3>1, <4>1 DEF SenderInv, TypeOK, Taken
      <4> QED
        BY <3>1, <3>2, <4>2, FailStep
    <3>3. CASE pc' = After(cmd) /\ UNCHANGED <<mx, lastErr, result>>
      <4>1. pc = cmd /\ pc' \in Steps \ {"quit"}
        BY <2>3, <3>3, AfterIs DEF Command
      <4>2. TypeOK'
        BY <3>1, <3>3, <4>1, StepsOf DEF SenderInv, TypeOK
      <4> QED
        BY <3>1, <3>3, <4>1, <4>2 DEF SenderInv, Taken, Returned, Steps
    <3>4. \A reply : SMTPErr(reply) \in ErrKind
      BY DEF SMTPErr, ErrKind
    <3>5. "other" \in ErrKind
      BY DEF ErrKind
    <3> QED
      BY <2>3, <3>2, <3>3, <3>4, <3>5 DEF Command
  <2>4. CASE Dot
    <3>1. PICK reply \in Reply, taken \in BOOLEAN :
            /\ reply = "2xx" => taken
            /\ takers' = IF taken THEN takers \cup {mx} ELSE takers
            /\ lapsed' = IF taken /\ reply # "2xx" THEN lapsed \cup {mx}
                         ELSE lapsed
            /\ IF reply = "2xx"
               THEN pc' = "quit" /\ UNCHANGED <<mx, lastErr, result>>
               ELSE Fail(SMTPErr(reply))
      BY <2>4 DEF Dot
    <3>2. /\ found' = found /\ pc = "dot" /\ mx \in 1 .. mx
          /\ takers' \subseteq 1 .. mx /\ lapsed = takers /\ mx \notin takers
      BY <2>4, <3>1 DEF Dot, SenderInv, TypeOK, Taken
    <3>3. CASE reply = "2xx"
      <4>1. takers' = takers \cup {mx} /\ lapsed' = lapsed
        BY <3>1, <3>3
      <4>2. takers' \ lapsed' = {mx} /\ lapsed' \subseteq takers'
        BY <3>2, <4>1
      <4> QED
        BY <3>1, <3>2, <3>3, <4>2, StepsOf
           DEF SenderInv, TypeOK, Taken, Returned, Steps
    <3>4. CASE reply # "2xx"
      <4>1. SMTPErr(reply) \in ErrKind
        BY DEF SMTPErr, ErrKind
      <4>2. lapsed' = takers'
        BY <3>1, <3>2, <3>4
      <4> QED
        BY <3>1, <3>2, <3>4, <4>1, <4>2, FailStep
    <3> QED
      BY <3>3, <3>4
  <2>5. CASE Quit
    <3>1. UNCHANGED <<found, takers>> /\ pc = "quit"
      BY <2>5 DEF Quit
    <3>2. CASE Return("nil") /\ UNCHANGED <<mx, lastErr, lapsed>>
      BY <3>1, <3>2 DEF Return, SenderInv, TypeOK, Taken, Returned, ErrKind
    <3>3. CASE Fail("other") /\ lapsed' = lapsed \cup {mx}
      <4>1. takers \ lapsed = {mx} /\ lapsed \subseteq takers
        BY <3>1 DEF SenderInv, TypeOK, Taken
      <4>2. lapsed' = takers' /\ takers' \subseteq 1 .. mx
        BY <3>1, <3>3, <4>1 DEF SenderInv, TypeOK
      <4> QED
        BY <3>1, <3>3, <4>2, FailStep DEF ErrKind
    <3> QED
      BY <2>5, <3>2, <3>3 DEF Quit
  <2>6. CASE UNCHANGED vars
    BY <2>6 DEF vars, SenderInv, TypeOK, Taken, Returned
  <2> QED
    BY <2>1, <2>2, <2>3, <2>4, <2>5, <2>6 DEF Next
<1> QED
  BY <1>1, <1>2, PTL DEF Spec

-----------------------------------------------------------------------------
\* Send stays within the exchangers that the lookup found, with any number of
\* them.
THEOREM SenderTypes == Spec => []TypeOK
BY SenderInvariant, PTL DEF SenderInv

LEMMA TakersCounted ==
  ASSUME TypeOK
  PROVE  /\ Cardinality(takers) \in 0 .. Exchangers
         /\ takers # {} => Cardinality(takers) > 0
<1>1. Exchangers \in Nat /\ takers \subseteq 1 .. Exchangers
  BY ExchangersAssumption DEF TypeOK
<1>2. IsFiniteSet(1 .. Exchangers) /\ Cardinality(1 .. Exchangers) = Exchangers
  BY <1>1, FS_Interval
<1>3. /\ IsFiniteSet(takers)
      /\ Cardinality(takers) <= Cardinality(1 .. Exchangers)
  BY <1>1, <1>2, FS_Subset
<1>4. /\ Cardinality(takers) \in Nat
      /\ Cardinality(takers) = 0 <=> takers = {}
  BY <1>3, FS_CardinalityType, FS_EmptySet
<1>5. Cardinality(takers) <= Exchangers
  BY <1>2, <1>3
<1>6. Cardinality(takers) \in 0 .. Exchangers
  <2>1. \A n \in Nat : n <= Exchangers => n \in 0 .. Exchangers
    BY <1>1
  <2> QED
    BY <1>4, <1>5, <2>1
<1>7. ASSUME takers # {} PROVE Cardinality(takers) > 0
  <2>1. Cardinality(takers) # 0
    BY <1>4, <1>7
  <2>2. \A n \in Nat : n # 0 => n > 0
    OBVIOUS
  <2> QED
    BY <1>4, <2>1, <2>2
<1> QED
  BY <1>6, <1>7

\* What Send returns (sender.go:42-67) is an outcome the queue's theorems
\* assume of it: no *SMTPError leaves it, no nil error without an exchanger
\* that has the message, and it counts every exchanger that took it.
THEOREM AnswersAreDeployed == Spec => []Answered
<1>1. SenderInv => Answered
  <2> SUFFICES ASSUME SenderInv, pc = "done"
               PROVE  [err |-> result, takers |-> Cardinality(takers)]
                        \in DeployedOutcomes
    BY DEF Answered
  <2>1. /\ Cardinality(takers) \in 0 .. Exchangers
        /\ takers # {} => Cardinality(takers) > 0
    BY TakersCounted DEF SenderInv
  <2>2. /\ result \in {"nil", "other"}
        /\ result = "nil" => takers # {}
    BY DEF SenderInv, Returned
  <2> QED
    BY <2>1, <2>2
       DEF DeployedOutcomes, ContractOutcomes, Outcome, ErrKind
<1> QED
  BY <1>1, SenderInvariant, PTL

\* A second exchanger is given the message in the same call only after every
\* one that has it failed at the final dot or at QUIT (sender.go:55-65,
\* 120-124); Send succeeds with exactly one exchanger whose attempt did not
\* fail, the last it tried.
THEOREM CopiesExplained == Spec => []CopiesAreLapses
<1>1. SenderInv => CopiesAreLapses
  BY DEF SenderInv, TypeOK, Taken, Returned, CopiesAreLapses, Commands
<1> QED
  BY <1>1, SenderInvariant, PTL
=============================================================================
