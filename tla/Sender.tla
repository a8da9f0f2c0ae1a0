------------------------------- MODULE Sender -------------------------------
(***************************************************************************)
(* One call of Sender.Send (internal/smtp/sender.go): the mail exchangers  *)
(* of the recipient's domain are tried one after the other until one       *)
(* attempt returns no error.  The exchanger is the environment: it answers *)
(* each command with a reply of its own choice, or not at all.             *)
(***************************************************************************)
EXTENDS Naturals, FiniteSets, SendOutcomes

(***************************************************************************)
(* What a command gets: a reply of a class, or "gone", an error without a  *)
(* status code (connection refused or lost, a line the client won't send). *)
(***************************************************************************)
Reply == {"2xx", "4xx", "5xx", "gone"}
Bad   == Reply \ {"2xx"}

\* parseCode and isPermanent: an error text that does not start with three
\* digits has the code 0, which is not permanent.
SMTPErr(reply) == IF reply = "5xx" THEN "perm" ELSE "temp"

VARIABLES
  pc,         \* the command to give next, "parse" or "done"
  found,      \* number of exchangers to try
  mx,         \* the one that is tried
  lastErr,    \* kind of the last attempt's error
  takers,     \* exchangers that took the message
  lapsed,     \* those whose reply to the dot or to QUIT was no success
  result      \* kind of the error Send returned

vars == <<pc, found, mx, lastErr, takers, lapsed, result>>

Commands == <<"dial", "hello", "mail", "rcpt", "data", "body", "dot", "quit">>
After(cmd) ==
  LET i == CHOOSE j \in DOMAIN Commands : Commands[j] = cmd
  IN  Commands[i + 1]

Init ==
  /\ pc = "parse"
  /\ found = 1
  /\ mx = 1
  /\ lastErr = "nil"
  /\ takers = {}
  /\ lapsed = {}
  /\ result = "nil"

Return(err) == pc' = "done" /\ result' = err

\* No domain in the address.
InvalidRecipient ==
  /\ pc = "parse"
  /\ Return("other")
  /\ UNCHANGED <<found, mx, lastErr, takers, lapsed>>

LookUp ==
  /\ pc = "parse"
  /\ pc' = "dial"
  /\ found' \in 1 .. Exchangers
  /\ UNCHANGED <<mx, lastErr, takers, lapsed, result>>

\* Mutants: one exchanger too many; the error is wrapped and keeps its type;
\* a temporary error is a reason to try the same exchanger again.
FailOffByOne(err) ==
  /\ lastErr' = err
  /\ IF mx <= found
     THEN mx' = mx + 1 /\ pc' = "dial" /\ UNCHANGED result
     ELSE Return("other") /\ UNCHANGED mx

FailWithType(err) ==
  /\ lastErr' = err
  /\ IF mx < found
     THEN mx' = mx + 1 /\ pc' = "dial" /\ UNCHANGED result
     ELSE Return(err) /\ UNCHANGED mx

FailTriesAgain(err) ==
  /\ lastErr' = err
  /\ IF err = "temp" \/ mx < found
     THEN mx' = (IF err = "temp" THEN mx ELSE mx + 1) /\ pc' = "dial"
          /\ UNCHANGED result
     ELSE Return("other") /\ UNCHANGED mx

\* The attempt at mx failed: the next one, or the error of all, which keeps
\* the text of the last error and not its type.
Fail(err) ==
  /\ lastErr' = err
  /\ IF mx < found
     THEN mx' = mx + 1 /\ pc' = "dial" /\ UNCHANGED result
     ELSE Return("other") /\ UNCHANGED mx

\* The commands up to DATA and the body.  A STARTTLS that fails ends no
\* attempt by itself, it is a reason for the next command to fail.
Command(cmd) ==
  /\ pc = cmd
  /\ \/ pc' = After(cmd) /\ UNCHANGED <<mx, lastErr, result>>
     \/ \E reply \in Bad :
          Fail(IF cmd = "rcpt" THEN SMTPErr(reply) ELSE "other")
  /\ UNCHANGED <<found, takers, lapsed>>

\* Mutant: nobody looks at the error of the writer's Close.
DotUnchecked ==
  /\ pc = "dot"
  /\ \E reply \in Reply, taken \in BOOLEAN :
       /\ reply = "2xx" => taken
       /\ taken => reply \in {"2xx", "gone"}
       /\ takers' = IF taken THEN takers \cup {mx} ELSE takers
       /\ lapsed' = IF taken /\ reply # "2xx" THEN lapsed \cup {mx}
                    ELSE lapsed
       /\ pc' = "quit"
  /\ UNCHANGED <<found, mx, lastErr, result>>

\* The final dot.  The reply of an exchanger that took the message may be
\* lost.
Dot ==
  /\ pc = "dot"
  /\ \E reply \in Reply, taken \in BOOLEAN :
       /\ reply = "2xx" => taken
       /\ taken => reply \in {"2xx", "gone"}
       /\ takers' = IF taken THEN takers \cup {mx} ELSE takers
       /\ lapsed' = IF taken /\ reply # "2xx" THEN lapsed \cup {mx}
                    ELSE lapsed
       /\ IF reply = "2xx"
          THEN pc' = "quit" /\ UNCHANGED <<mx, lastErr, result>>
          ELSE Fail(SMTPErr(reply))
  /\ UNCHANGED found

\* Mutant: a success does not end the loop over the exchangers.
QuitGoesOn ==
  /\ pc = "quit"
  /\ \E reply \in Reply :
       IF reply = "2xx"
       THEN /\ IF mx < found
               THEN mx' = mx + 1 /\ pc' = "dial" /\ UNCHANGED result
               ELSE Return("nil") /\ UNCHANGED mx
            /\ UNCHANGED <<lastErr, lapsed>>
       ELSE Fail("other") /\ lapsed' = lapsed \cup {mx}
  /\ UNCHANGED <<found, takers>>

\* return client.Quit(): an exchanger that took the message and fails here
\* is followed by the next one, which is given the message again.
Quit ==
  /\ pc = "quit"
  /\ \E reply \in Reply :
       IF reply = "2xx"
       THEN Return("nil") /\ UNCHANGED <<mx, lastErr, lapsed>>
       ELSE Fail("other") /\ lapsed' = lapsed \cup {mx}
  /\ UNCHANGED <<found, takers>>

Next ==
  \/ InvalidRecipient \/ LookUp \/ Dot \/ Quit
  \/ \E cmd \in {"dial", "hello", "mail", "rcpt", "data", "body"} : Command(cmd)

\* Fairness: an assumption about the peers, sendToMX sets no deadline once it
\* is connected.
Spec == Init /\ [][Next]_vars /\ WF_vars(Next)

-----------------------------------------------------------------------------
TypeOK ==
  /\ pc \in {"parse", "done"} \cup { Commands[i] : i \in DOMAIN Commands }
  /\ found \in 1 .. Exchangers
  /\ mx \in 1 .. found
  /\ lastErr \in ErrKind
  /\ takers \subseteq 1 .. mx
  /\ lapsed \subseteq takers
  /\ result \in ErrKind

\* The queue model may take Send for its set of outcomes: no *SMTPError comes
\* out of it, and no nil error without an exchanger that has the message.
Answered == pc = "done" =>
  [err |-> result, takers |-> Cardinality(takers)] \in DeployedOutcomes

\* A call of Send gives the message away once more only after an exchanger
\* that has it failed, or the line to it, at the final dot or at QUIT
\* (sender.go:55-65, 120-124).  Apart from those that lapsed so, no exchanger
\* but the one that is tried has the message; when Send is over it is that
\* one if Send succeeded, and none if it reports an error.
CopiesAreLapses ==
  /\ takers \ lapsed \subseteq {mx}
  /\ pc = "done" => takers \ lapsed = IF result = "nil" THEN {mx} ELSE {}

\* Send comes to an end, whatever the exchangers answer.
Returns == <>(pc = "done")

\* "true = 5xx, false = 4xx" (sender.go:131), "Temporary failure -- retry with
\* backoff" (worker.go:170): the caller learns which of them the last
\* exchanger meant.
ErrorKept ==
  pc = "done" /\ result # "nil" /\ lastErr \in {"temp", "perm"}
    => result = lastErr
=============================================================================
