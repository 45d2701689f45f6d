----------------------------- MODULE MCSession -----------------------------
(* Instances of Session for TLC. *)
EXTENDS Session, TLC

\* Handlers are interchangeable, and so are nonces.
Symmetry == Permutations(Handlers) \cup Permutations(Nonces)

\* A client that has failed does nothing more, and what the others do then they can do
\* before it has begun: such states are checked, but not followed.
NotFailed == client # "failed"

=============================================================================
