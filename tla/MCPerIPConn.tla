---------------------------- MODULE MCPerIPConn ----------------------------
(* Instances of PerIPConn for TLC. *)
EXTENDS PerIPConn, TLC

\* Connections are interchangeable, and so are wrappers.
Symmetry == Permutations(Conns) \cup Permutations(Wrappers)

=============================================================================
