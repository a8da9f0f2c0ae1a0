--------------------------- MODULE PushDelivery ---------------------------
(***************************************************************************)
(* What push notifications promise, with no tables, queries and requests.  *)
(*                                                                         *)
(* An endpoint has one user at a time.  A notification has one addressee,  *)
(* is sent once, and picks endpoints only while the addressee has them;    *)
(* each is reached once at most, and a restart ends what was being sent.   *)
(* The promise is about the moment of the pick: an endpoint that changes   *)
(* hands between the pick and the push is still reached.                   *)
(***************************************************************************)
CONSTANTS Users, Endpoints, Notes, Nobody

VARIABLES
  held,     \* pairs of a user and an endpoint
  stage,    \* of a notification: "unsent", "sending" or "over"
  to,       \* its addressee, or Nobody
  picked,   \* endpoints it is still to reach
  reached   \* endpoints it was pushed to

push == <<held, stage, to, picked, reached>>

Init ==
  /\ held = {}
  /\ stage = [n \in Notes |-> "unsent"]
  /\ to = [n \in Notes |-> Nobody]
  /\ picked = [n \in Notes |-> {}]
  /\ reached = [n \in Notes |-> {}]

Bind(u, e) ==
  /\ \A v \in Users : <<v, e>> \notin held
  /\ held' = held \cup {<<u, e>>}
  /\ UNCHANGED <<stage, to, picked, reached>>

Release(u, e) ==
  /\ held' = held \ {<<u, e>>}
  /\ UNCHANGED <<stage, to, picked, reached>>

Send(n, u) ==
  /\ stage[n] = "unsent"
  /\ stage' = [stage EXCEPT ![n] = "sending"]
  /\ to' = [to EXCEPT ![n] = u]
  /\ UNCHANGED <<held, picked, reached>>

Pick(n, new) ==
  /\ stage[n] = "sending"
  /\ \A e \in new : /\ <<to[n], e>> \in held
                    /\ e \notin picked[n] \cup reached[n]
  /\ picked' = [picked EXCEPT ![n] = @ \cup new]
  /\ UNCHANGED <<held, stage, to, reached>>

Push(n, e) ==
  /\ stage[n] = "sending"
  /\ e \in picked[n] \ reached[n]
  /\ picked' = [picked EXCEPT ![n] = @ \ {e}]
  /\ reached' = [reached EXCEPT ![n] = @ \cup {e}]
  /\ UNCHANGED <<held, stage, to>>

Restart(ended) ==
  /\ \A n \in Notes \ ended : stage[n] # "sending"
  /\ stage' = [n \in Notes |-> IF n \in ended THEN "over" ELSE stage[n]]
  /\ to' = [n \in Notes |-> Nobody]
  /\ picked' = [n \in Notes |-> {}]
  /\ UNCHANGED <<held, reached>>

Next ==
  \/ \E u \in Users, e \in Endpoints : Bind(u, e) \/ Release(u, e)
  \/ \E n \in Notes :
       \/ \E u \in Users : Send(n, u)
       \/ \E new \in SUBSET Endpoints : Pick(n, new)
       \/ \E e \in Endpoints : Push(n, e)
  \/ \E ended \in SUBSET Notes : Restart(ended)

Spec == Init /\ [][Next]_push
=============================================================================
