---------------------------- MODULE MessageLedger ----------------------------
(***************************************************************************)
(* What the e-mail pipeline promises about a message, with no queue, no    *)
(* goroutines and no process that can crash.                               *)
(*                                                                         *)
(* A message is accepted once, is owed until it is settled, and is settled *)
(* once.  While it is owed it may be transmitted, again only when the      *)
(* outcome of an earlier transmission has been forgotten: a transmission   *)
(* is not atomic with its record in the database, so the pipeline can      *)
(* promise no more.  One transmission may reach several mail exchangers,   *)
(* all of them but the last without knowing.  A message settled as sent    *)
(* was delivered.                                                          *)
(***************************************************************************)
EXTENDS Naturals

CONSTANTS
  Messages,
  Exchangers  \* how many exchangers one transmission may try

VARIABLES
  state,      \* "absent", "owed", "sent" or "failed", per message
  delivered,  \* how often an exchanger took it
  repeated,   \* how often one did after another, in one transmission
  forgotten   \* how often the outcome of a transmission was lost

ledger == <<state, delivered, repeated, forgotten>>

Init ==
  /\ state \in [Messages -> {"absent", "owed"}]
  /\ delivered = [m \in Messages |-> 0]
  /\ repeated = [m \in Messages |-> 0]
  /\ forgotten = [m \in Messages |-> 0]

Accept(m) ==
  /\ state[m] = "absent"
  /\ state' = [state EXCEPT ![m] = "owed"]
  /\ UNCHANGED <<delivered, repeated, forgotten>>

Transmit(m) ==
  /\ state[m] = "owed"
  /\ delivered[m] <= forgotten[m] + repeated[m]
  /\ \E n \in 1 .. Exchangers :
       /\ delivered' = [delivered EXCEPT ![m] = @ + n]
       /\ repeated' = [repeated EXCEPT ![m] = @ + (n - 1)]
  /\ UNCHANGED <<state, forgotten>>

\* One crash may lose the outcomes of several transmissions.
Forget(lost) ==
  /\ \A m \in lost : state[m] = "owed"
  /\ forgotten' = [m \in Messages |-> IF m \in lost THEN forgotten[m] + 1
                                                    ELSE forgotten[m]]
  /\ UNCHANGED <<state, delivered, repeated>>

Settle(m) ==
  /\ state[m] = "owed"
  /\ \/ delivered[m] > 0 /\ state' = [state EXCEPT ![m] = "sent"]
     \/ state' = [state EXCEPT ![m] = "failed"]
  /\ UNCHANGED <<delivered, repeated, forgotten>>

Next ==
  \/ \E m \in Messages : Accept(m) \/ Transmit(m) \/ Settle(m)
  \/ \E lost \in SUBSET Messages : Forget(lost)

Spec == Init /\ [][Next]_ledger
=============================================================================
