---------------------------- MODULE MCWorkerPool ----------------------------
(* Instances of WorkerPool for TLC. *)
EXTENDS WorkerPool

\* Connections are interchangeable, and so are workerChans.
Symmetry == Permutations(Conns) \cup Permutations(Chans)

=============================================================================
