---------------------------- MODULE ConnDispatch ----------------------------
(***************************************************************************)
(* What the worker pool promises Server.Serve: the connections it holds    *)
(* are always one of the Loads, a connection it has taken leaves it only   *)
(* by being closed after it was served, and it closes every one it takes.  *)
(***************************************************************************)
CONSTANTS Conns, Loads     \* Loads: the sets of connections it may hold

VARIABLE held              \* the connections taken and not yet closed

Init == held = {}

\* workerPool.Serve returns true.
Take(c) ==
  /\ c \notin held
  /\ held \cup {c} \in Loads
  /\ held' = held \cup {c}

\* A worker has served c and closes it.
Close(c) ==
  /\ c \in held
  /\ held' = held \ {c}

Next == \E c \in Conns : Take(c) \/ Close(c)

Safety == Init /\ [][Next]_held
Spec   == Safety /\ \A c \in Conns : WF_held(Close(c))

=============================================================================
