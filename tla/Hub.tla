--------------------------------- MODULE Hub ---------------------------------
(***************************************************************************)
(* The in-process publish/subscribe hub of internal/sse/hub.go, the part   *)
(* of it that belongs to one user: users share only the mutex.  The        *)
(* definitions are the critical sections and channel operations that the   *)
(* streams and publishers of module Notifications are made of.             *)
(***************************************************************************)
EXTENDS Naturals, Sequences

CONSTANTS
  Streams,   \* subscriptions that may come to exist; none is used twice
  Buffer     \* size of a subscriber's channel: 16 in Subscribe

ASSUME HubAssumption == Buffer \in Nat \ {0}

VARIABLES
  subs,  \* the subscribers in the map of the hub
  open,  \* the subscribers whose channel is made and not closed
  chan   \* what is in the channel of a subscriber

hubVars == <<subs, open, chan>>

HubInit ==
  /\ subs = {}
  /\ open = {}
  /\ chan = [s \in Streams |-> <<>>]

Subscribe(s) ==
  /\ subs' = subs \cup {s}
  /\ open' = open \cup {s}
  /\ UNCHANGED chan

\* Mutant: the channel is closed while the subscriber is in the map.
UnsubscribeCloses(s) == open' = open \ {s} /\ UNCHANGED <<subs, chan>>

\* The function Subscribe returns leaves the map under the lock, and closes
\* the channel when it has given the lock back.
Unsubscribe(s) == subs' = subs \ {s} /\ UNCHANGED <<open, chan>>

\* What the closed channel still holds is garbage.
Close(s) ==
  /\ open' = open \ {s}
  /\ chan' = [chan EXCEPT ![s] = <<>>]
  /\ UNCHANGED subs

\* Mutant: the buffer takes one event too many.
FullOffByOne(s) == Len(chan[s]) > Buffer

\* The non-blocking send of PublishExcept to a channel that is open: a full
\* buffer drops the event.  A send to a closed one panics.
Full(s) == Len(chan[s]) >= Buffer
Offer(s, evt) ==
  /\ chan' = IF Full(s) THEN chan ELSE [chan EXCEPT ![s] = Append(@, evt)]
  /\ UNCHANGED <<subs, open>>

Receive(s) ==
  /\ chan[s] # <<>>
  /\ chan' = [chan EXCEPT ![s] = Tail(@)]
  /\ UNCHANGED <<subs, open>>
=============================================================================
