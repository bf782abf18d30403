--------------------------- MODULE OutboxDelivery ---------------------------
(***************************************************************************)
(* What the outbox promises its writers: an envelope committed with a      *)
(* business transaction enters the durable queue once.                     *)
(* The other modules use the outbox as this one step (Relay).              *)
(***************************************************************************)
CONSTANT Envelopes

VARIABLE stage  \* stage[e]: "unused", "outbox" or "queued"

Init == stage = [e \in Envelopes |-> "unused"]

Append(e) == stage[e] = "unused" /\ stage' = [stage EXCEPT ![e] = "outbox"]

Relay(e)  == stage[e] = "outbox" /\ stage' = [stage EXCEPT ![e] = "queued"]

Next == \E e \in Envelopes : Append(e) \/ Relay(e)

Spec == Init /\ [][Next]_stage
=============================================================================
