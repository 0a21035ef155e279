----------------------------- MODULE MCHandles ------------------------------
(* Three goroutines, a writer and two readers that share two addresses, so *)
(* that a third object can only lie where another one was deleted.         *)
EXTENDS Handles, TLC

Symmetry == Permutations(Goroutine) \cup Permutations(Address) \cup Permutations(Reader)
=============================================================================
