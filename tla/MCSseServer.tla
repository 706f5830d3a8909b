----------------------------- MODULE MCSseServer -----------------------------
(* Instances of SseServer for TLC: all requests come with the same id, so  *)
(* that every run has an unshared id, a shared one and one used again.     *)
EXTENDS SseServer

CONSTANT i1

SameId == [r \in Request |-> i1]

=============================================================================
