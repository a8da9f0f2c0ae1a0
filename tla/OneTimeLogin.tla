--------------------------- MODULE OneTimeLogin ---------------------------
(***************************************************************************)
(* What the OAuth login promises, with no maps, clocks and HTTP exchanges. *)
(*                                                                         *)
(* A state is a ticket that is issued once, redeemed once, and spent when  *)
(* it has opened a session or has failed to.  A session is opened by one   *)
(* ticket and ends for good; a request is let in on a session only while   *)
(* it is open, and may finish after that.                                  *)
(***************************************************************************)
CONSTANTS States, Sessions, Requests

VARIABLES
  ticket,  \* of a state: "unissued", "issued", "redeeming" or "spent"
  door,    \* of a session: "none", "open" or "ended"
  inside   \* pairs of a request and the session it was let in on

login == <<ticket, door, inside>>

Init ==
  /\ ticket = [x \in States |-> "unissued"]
  /\ door = [s \in Sessions |-> "none"]
  /\ inside = {}

Issue(x) ==
  /\ ticket[x] = "unissued"
  /\ ticket' = [ticket EXCEPT ![x] = "issued"]
  /\ UNCHANGED <<door, inside>>

Redeem(x) ==
  /\ ticket[x] = "issued"
  /\ ticket' = [ticket EXCEPT ![x] = "redeeming"]
  /\ UNCHANGED <<door, inside>>

Lapse(x) ==
  /\ ticket[x] \in {"issued", "redeeming"}
  /\ ticket' = [ticket EXCEPT ![x] = "spent"]
  /\ UNCHANGED <<door, inside>>

OpenDoor(x, s) ==
  /\ ticket[x] = "redeeming"
  /\ door[s] = "none"
  /\ ticket' = [ticket EXCEPT ![x] = "spent"]
  /\ door' = [door EXCEPT ![s] = "open"]
  /\ UNCHANGED inside

End(s) ==
  /\ door[s] = "open"
  /\ door' = [door EXCEPT ![s] = "ended"]
  /\ UNCHANGED <<ticket, inside>>

Admit(c, s) ==
  /\ door[s] = "open"
  /\ \A r \in Sessions : <<c, r>> \notin inside
  /\ inside' = inside \cup {<<c, s>>}
  /\ UNCHANGED <<ticket, door>>

Leave(c, s) ==
  /\ inside' = inside \ {<<c, s>>}
  /\ UNCHANGED <<ticket, door>>

Forget ==
  /\ ticket' = [x \in States |-> IF ticket[x] = "unissued" THEN "unissued"
                                 ELSE "spent"]
  /\ door' = [s \in Sessions |-> IF door[s] = "none" THEN "none" ELSE "ended"]
  /\ inside' = {}

Next ==
  \/ \E x \in States :
       \/ Issue(x) \/ Redeem(x) \/ Lapse(x)
       \/ \E s \in Sessions : OpenDoor(x, s)
  \/ \E s \in Sessions :
       \/ End(s)
       \/ \E c \in Requests : Admit(c, s) \/ Leave(c, s)
  \/ Forget

Spec == Init /\ [][Next]_login
=============================================================================
