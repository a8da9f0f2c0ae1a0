-------------------------- MODULE MCSendingDomains --------------------------
(***************************************************************************)
(* Small instances of a sending domain for TLC.                            *)
(***************************************************************************)
EXTENDS SendingDomains, TLC

\* Requests differ in nothing but their name.
Requests == Permutations(Clients)
=============================================================================
