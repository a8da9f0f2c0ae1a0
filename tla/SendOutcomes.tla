---------------------------- MODULE SendOutcomes ----------------------------
(***************************************************************************)
(* What a call of Sender.Send (internal/smtp/sender.go) can mean to the    *)
(* queue worker that made it.  An outcome pairs                            *)
(*                                                                         *)
(*   err     the dynamic type of the error returned, as process() in       *)
(*           internal/queue/worker.go tells them apart:                    *)
(*             "nil"    no error                                           *)
(*             "temp"   *SMTPError with Permanent = false                  *)
(*             "perm"   *SMTPError with Permanent = true                   *)
(*             "other"  any other error                                    *)
(*   takers  how many mail exchangers took the message during the call,    *)
(*           which the caller cannot see: one that took it and then failed *)
(*           is followed by the next.                                      *)
(***************************************************************************)
EXTENDS Naturals

CONSTANT Exchangers   \* exchangers a lookup may find, the A record included

ASSUME ExchangersAssumption == Exchangers \in Nat \ {0}

ErrKind == {"nil", "temp", "perm", "other"}

Outcome == [err : ErrKind, takers : 0 .. Exchangers]

(***************************************************************************)
(* Every outcome process() is written for.  A reply lost after the final   *)
(* dot is a "temp" error although the exchanger has the message.  A nil    *)
(* error comes of an exchanger that took it, a 5xx reply of one that did   *)
(* not.                                                                    *)
(***************************************************************************)
ContractOutcomes ==
  { o \in Outcome : /\ o.err = "nil"  => o.takers > 0
                    /\ o.err = "perm" => o.takers < Exchangers }

(***************************************************************************)
(* The outcomes Send really returns: its last statement puts whatever the  *)
(* last exchanger answered into a plain error with the verb %v, so no      *)
(* *SMTPError leaves it.  Module Sender checks that this set is right.     *)
(***************************************************************************)
DeployedOutcomes == { o \in ContractOutcomes : o.err \in {"nil", "other"} }
=============================================================================
