------------------------ MODULE MCInMemoryRepository ------------------------
(* Instances of InMemoryCircularBufferRepository for TLC. *)
EXTENDS InMemoryCircularBufferRepository, TLC

Symmetry == Permutations(Thread) \cup Permutations(BufferId)

(* What a buffer that nobody refers to holds is of no consequence.         *)
InUse ==
  <<dict, thread, erased, [b \in BufferId |-> IF Unused(b) THEN New(<<>>) ELSE heap[b]]>>

=============================================================================
