------------------------------ MODULE MCAccess ------------------------------
(***************************************************************************)
(* Small instances of tenants and logins for TLC.                          *)
(***************************************************************************)
EXTENDS Tenants, Logins, TLC

\* The two share no variable, and each is checked with the other at rest.
AccessInit == Init /\ LoginInit
AccessNext == \/ LoginInit /\ Next /\ UNCHANGED loginVars
              \/ Init /\ LoginNext /\ UNCHANGED vars

AccessSpec == AccessInit /\ [][AccessNext]_<<vars, loginVars>>

\* Tenants, keys, rows and requests differ in nothing but their name.
Same == UNION { Permutations(S) : S \in {Users, Keys, Rows, Callers} }
=============================================================================
