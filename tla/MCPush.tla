------------------------------- MODULE MCPush -------------------------------
(***************************************************************************)
(* Small instances of push registrations and preferences for TLC.          *)
(***************************************************************************)
EXTENDS Push, TLC

\* One browser, and no mobile device.
MCChannelOf == [e \in Endpoints |-> "web"]

\* Users and requests differ in nothing but their name.
Names == Permutations(Users) \cup Permutations(Clients)
=============================================================================
