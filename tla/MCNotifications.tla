-------------------------- MODULE MCNotifications --------------------------
(***************************************************************************)
(* Small instances of the notification hub for TLC.                        *)
(***************************************************************************)
EXTENDS Notifications, TLC

\* Notifications, streams and publishers differ in nothing but their name.
Names == Permutations(Notes) \cup Permutations(Streams)
         \cup Permutations(Publishers)
=============================================================================
