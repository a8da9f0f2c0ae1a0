-------------------------- MODULE MCDeliveryQueue --------------------------
(***************************************************************************)
(* Small instances of the e-mail pipeline for TLC.                         *)
(***************************************************************************)
EXTENDS DeliveryProperties, TLC

CONSTANTS m1, m2, m3, d1, d2

\* m1 and m2 are for the same recipient.
MCDestOf == [m \in Messages |-> IF m \in {m1, m2} THEN d1 ELSE d2]

\* Goroutines of a kind differ in nothing but their name.
Goroutines == Permutations(Handlers) \cup Permutations(Workers)
=============================================================================
