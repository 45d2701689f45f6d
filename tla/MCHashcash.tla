----------------------------- MODULE MCHashcash -----------------------------
(* Instances of Hashcash for TLC. *)
EXTENDS Hashcash

MCZones == {-1, 0, 1}

=============================================================================
