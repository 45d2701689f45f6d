----------------------------- MODULE PerIPConn -----------------------------
(***************************************************************************)
(* The limit on connections per client address: wrapPerIPConn (server.go), *)
(* perIPConnCounter and perIPConn (peripconn.go).  One goroutine accepts,  *)
(* each connection is closed by the goroutine that served or refused it.   *)
(* Wrappers are recycled through a pool, from which the collector may take *)
(* one at any time.  A step is one use of the counter's lock, of the pool  *)
(* or of a socket.                                                         *)
(***************************************************************************)
EXTENDS Integers, FiniteSets

CONSTANTS
  Conns,          \* the connections that clients make
  Addresses,      \* what getUint32IP returns; 0 if the address is not IPv4
  Wrappers,       \* perIPConn objects
  MaxConnsPerIP

ASSUME PerIPConnAssumption ==
  /\ IsFiniteSet(Conns) /\ Addresses \subseteq Nat
  /\ Conns \cap Wrappers = {}
  /\ MaxConnsPerIP \in Nat \ {0}

VARIABLES
  ip,         \* the address of each connection, chosen by its client
  socket,     \* is the socket "new", "open" or "closed"
  pc,         \* where each connection is
  conn,       \* the net.Conn the server was given: the wrapper, or the socket
  inner,      \* perIPConn.Conn of each wrapper; the wrapper itself if nil
  innerIP,    \* perIPConn.ip of each wrapper
  pool,       \* the wrappers in perIPConnCounter.pool
  fresh,      \* the wrappers not made yet
  m           \* perIPConnCounter.m

wrapVars == <<conn, inner, innerIP, pool, fresh>>
vars == <<ip, socket, pc, wrapVars, m>>

TypeOK ==
  /\ ip \in [Conns -> Addresses]
  /\ socket \in [Conns -> {"new", "open", "closed"}]
  /\ pc \in [Conns -> {"new", "accept", "wrap", "excess", "refuse", "serve",
                       "close", "unregister", "release", "done"}]
  /\ conn \in [Conns -> Conns \cup Wrappers]
  /\ inner \in [Wrappers -> Conns \cup Wrappers]
  /\ innerIP \in [Wrappers -> Addresses \cup {0}]
  /\ pool \subseteq Wrappers /\ fresh \subseteq Wrappers
  /\ m \in [Addresses -> 0..MaxConnsPerIP + 1]

Init ==
  /\ ip \in [Conns -> Addresses]
  /\ socket = [c \in Conns |-> "new"]
  /\ pc = [c \in Conns |-> "new"]
  /\ conn = [c \in Conns |-> c]
  /\ inner = [w \in Wrappers |-> w]
  /\ innerIP = [w \in Wrappers |-> 0]
  /\ pool = {} /\ fresh = Wrappers
  /\ m = [a \in Addresses |-> 0]

Goto(c, label) == pc' = [pc EXCEPT ![c] = label]
Shut(c) == socket' = [socket EXCEPT ![c] = "closed"]

-----------------------------------------------------------------------------
(* acceptConn and wrapPerIPConn, one connection after the other *)

Accept(c) ==
  /\ pc[c] = "new"
  /\ \A d \in Conns : pc[d] \notin {"accept", "wrap", "excess", "refuse"}
  /\ socket' = [socket EXCEPT ![c] = "open"]
  /\ Goto(c, IF ip[c] = 0 THEN "serve" ELSE "accept")
  /\ UNCHANGED <<ip, wrapVars, m>>

OneMore(n) == n > MaxConnsPerIP + 1
TooMany(n) == n > MaxConnsPerIP

Register(c) ==
  /\ pc[c] = "accept"
  /\ LET n == m[ip[c]] + 1
     IN  /\ m' = [m EXCEPT ![ip[c]] = n]
         /\ Goto(c, IF TooMany(n) THEN "excess" ELSE "wrap")
  /\ UNCHANGED <<ip, socket, wrapVars>>

\* Unregister(ip)
ForgetUnregister(a) == UNCHANGED m
Unregister(a) == m' = [m EXCEPT ![a] = IF @ - 1 < 0 THEN 0 ELSE @ - 1]

UnregisterExcess(c) ==
  /\ pc[c] = "excess"
  /\ Unregister(ip[c])
  /\ Goto(c, "refuse")
  /\ UNCHANGED <<ip, socket, wrapVars>>

\* The client is told and its socket closed.
Refuse(c) ==
  /\ pc[c] = "refuse"
  /\ Shut(c)
  /\ Goto(c, "done")
  /\ UNCHANGED <<ip, wrapVars, m>>

\* acquirePerIPConn
Wrap(c) ==
  /\ pc[c] = "wrap"
  /\ \E w \in pool \cup fresh :
       /\ conn' = [conn EXCEPT ![c] = w]
       /\ inner' = [inner EXCEPT ![w] = c]
       /\ innerIP' = [innerIP EXCEPT ![w] = ip[c]]
       /\ pool' = pool \ {w} /\ fresh' = fresh \ {w}
  /\ Goto(c, "serve")
  /\ UNCHANGED <<ip, socket, m>>

Collect(w) ==
  /\ w \in pool
  /\ pool' = pool \ {w}
  /\ UNCHANGED <<ip, socket, pc, conn, inner, innerIP, fresh, m>>

-----------------------------------------------------------------------------
(* Close, by the worker that served the connection or by Serve, which refuses *)
(* it.  A connection that was not wrapped is closed and that is all.          *)

ReleaseFirst    == <<"close", "release", "unregister", "done">>
UnregisterFirst == <<"unregister", "close", "release", "done">>
CloseOrder      == <<"close", "unregister", "release", "done">>

Close(c) ==
  /\ pc[c] = "serve"
  /\ IF conn[c] \in Wrappers
     THEN Goto(c, CloseOrder[1]) /\ UNCHANGED socket
     ELSE Goto(c, "done") /\ Shut(c)
  /\ UNCHANGED <<ip, wrapVars, m>>

\* The step of perIPConn.Close that is next, and the one after it.
Step(c, label) ==
  /\ pc[c] = label
  /\ \E i \in 1..3 : CloseOrder[i] = label /\ Goto(c, CloseOrder[i + 1])

CloseInner(c) ==
  /\ Step(c, "close")
  /\ Shut(inner[conn[c]])
  /\ UNCHANGED <<ip, wrapVars, m>>

CloseUnregister(c) ==
  /\ Step(c, "unregister")
  /\ Unregister(innerIP[conn[c]])
  /\ UNCHANGED <<ip, socket, wrapVars>>

\* releasePerIPConn
CloseRelease(c) ==
  /\ Step(c, "release")
  /\ inner' = [inner EXCEPT ![conn[c]] = conn[c]]
  /\ pool' = pool \cup {conn[c]}
  /\ UNCHANGED <<ip, socket, conn, innerIP, fresh, m>>

Next ==
  \/ \E c \in Conns :
       \/ Accept(c) \/ Register(c) \/ UnregisterExcess(c) \/ Refuse(c) \/ Wrap(c)
       \/ Close(c) \/ CloseInner(c) \/ CloseUnregister(c) \/ CloseRelease(c)
  \/ \E w \in Wrappers : Collect(w)

Spec == Init /\ [][Next]_vars

-----------------------------------------------------------------------------
(* Properties *)

Registered(a) == {c \in Conns : ip[c] = a /\ pc[c] \in {"wrap", "excess", "serve", "close", "unregister"}}

\* The counter of an address is the number of its connections between Register
\* and Unregister, though Unregister goes by the ip of a recycled wrapper.  It
\* never falls below that (the code's guard n < 0 hides such a fall) nor stays
\* above, which would keep a client out for good.
CountersExact == \A a \in Addresses \ {0} : m[a] = Cardinality(Registered(a))

\* No address has more than MaxConnsPerIP sockets open, not counting the one that
\* is being refused, nor a socket that is closed later than it is uncounted.
LimitKept ==
  \A a \in Addresses \ {0} :
    Cardinality({c \in Conns : ip[c] = a /\ socket[c] = "open" /\ pc[c] \notin {"accept", "excess", "refuse"}})
      <= MaxConnsPerIP

\* While a connection is wrapped its wrapper stands for it and for no other, and is
\* not for another accept to take.
WrappersPrivate ==
  \A c \in Conns :
    conn[c] \in Wrappers /\ pc[c] \in {"serve", "close", "unregister", "release"} =>
      inner[conn[c]] = c /\ innerIP[conn[c]] = ip[c] /\ conn[c] \notin pool

=============================================================================
