-------------------------------- MODULE Sqs --------------------------------
(***************************************************************************)
(* An SQS standard queue as the services use it: at-least-once, unordered. *)
(* A message is followed from the send to its end by one record:           *)
(*   state     unsent -> visible -> inflight -> visible -> ... and in the  *)
(*             end deleted, or dead once it sits in the dead-letter queue  *)
(*   receives  how often it was handed out; the count at a receive is also *)
(*             that delivery's receipt handle                              *)
(* The queues' visibility timeout and maxReceiveCount are set in           *)
(* infra/terraform/modules/sqs.                                            *)
(***************************************************************************)
EXTENDS Naturals

CONSTANT MaxReceives      \* maxReceiveCount of the redrive policy

ASSUME MaxReceivesAssumption == MaxReceives \in Nat \ {0}

Message == [state    : {"unsent", "visible", "inflight", "deleted", "dead"},
            receives : 0..MaxReceives]

Unsent == [state |-> "unsent",  receives |-> 0]
Sent   == [state |-> "visible", receives |-> 0]

\* faulty variants: no redrive policy; one delivery too few
CanAlwaysReceive(m) == m.state = "visible"
ExhaustedEarly(m)   == m.state = "visible" /\ m.receives >= MaxReceives - 1

CanReceive(m) == m.state = "visible" /\ m.receives < MaxReceives

Received(m) == [state |-> "inflight", receives |-> m.receives + 1]

\* the visibility timeout of a delivery passes before a delete arrives
TimedOut(m) == [m EXCEPT !.state = "visible"]

\* the receive after the last permitted one moves the message to the DLQ
Exhausted(m)    == m.state = "visible" /\ m.receives = MaxReceives
DeadLettered(m) == [m EXCEPT !.state = "dead"]

(***************************************************************************)
(* delete_message with the receipt handle of an earlier delivery: the      *)
(* latest handle deletes; a superseded one may or may not; a message that  *)
(* left for the DLQ is out of reach.                                       *)
(***************************************************************************)
AfterDelete(m, receipt) ==
  LET deleted == [m EXCEPT !.state = "deleted"]
  IN  IF m.state = "dead" THEN {m}
      ELSE IF m.receives = receipt THEN {deleted} ELSE {m, deleted}
=============================================================================
