------------------------ MODULE MCIdempotentConsumer ------------------------
(* Instances of IdempotentConsumer for TLC: every delivery carries the same *)
(* message, the case the consumer exists for.                              *)
EXTENDS IdempotentConsumer

CONSTANT k1

SameKey == [d \in Delivery |-> k1]

=============================================================================
