---------------------------- MODULE MCServeConn ----------------------------
(* Instances of ServeConn for TLC. *)
EXTENDS ServeConn, TLC

\* What comes from a pool is interchangeable.
Symmetry == Permutations(Readers) \cup Permutations(Writers) \cup Permutations(Contexts)

=============================================================================
