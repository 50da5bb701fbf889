------------------------------- MODULE Outbox -------------------------------
(***************************************************************************)
(* What notify.Dispatcher promises its callers, without windows, timers,   *)
(* digests, retries or goroutines: an accepted event is settled once per   *)
(* channel, that is delivered or given up, in any order and in groups, and *)
(* Close ends the acceptance and returns when everything is settled.       *)
(*                                                                         *)
(* Events are numbered in the order of their acceptance.                   *)
(***************************************************************************)
EXTENDS Naturals

CONSTANT Channels

VARIABLES
  accepted,   \* number of events accepted
  delivered,  \* per channel, the events whose Send returned nil
  failed,     \* per channel, the events given to OnSendError
  closer      \* Close: "no", "waiting", "returned"

vars == <<accepted, delivered, failed, closer>>

Init ==
  /\ accepted = 0
  /\ delivered = [c \in Channels |-> {}]
  /\ failed = [c \in Channels |-> {}]
  /\ closer = "no"

Unsettled(c) == (1..accepted) \ (delivered[c] \cup failed[c])

\* Events may be accepted until Close is called.
Accept ==
  /\ closer = "no"
  /\ accepted' = accepted + 1
  /\ UNCHANGED <<delivered, failed, closer>>

\* A group of events reaches channel c, or is given up, for good.
Deliver(c, group) ==
  /\ group # {}
  /\ delivered' = [delivered EXCEPT ![c] = @ \cup group]
  /\ UNCHANGED <<accepted, failed, closer>>

GiveUp(c, group) ==
  /\ group # {}
  /\ failed' = [failed EXCEPT ![c] = @ \cup group]
  /\ UNCHANGED <<accepted, delivered, closer>>

Close ==
  /\ closer = "no"
  /\ closer' = "waiting"
  /\ UNCHANGED <<accepted, delivered, failed>>

CloseReturns ==
  /\ closer = "waiting"
  /\ \A c \in Channels : Unsettled(c) = {}
  /\ closer' = "returned"
  /\ UNCHANGED <<accepted, delivered, failed>>

Next ==
  \/ Accept
  \/ \E c \in Channels : \E group \in SUBSET Unsettled(c) :
       Deliver(c, group) \/ GiveUp(c, group)
  \/ Close
  \/ CloseReturns

Spec == Init /\ [][Next]_vars
=============================================================================
