------------------------------- MODULE Server -------------------------------
(***************************************************************************)
(* The life of a Server (internal/server/server.go): Serve accepts         *)
(* connections and hands them to the worker pool, serveConn serves one     *)
(* connection, ShutdownWithContext closes the listener and polls open      *)
(* until it is zero.  The worker pool is what ConnDispatch promises.       *)
(*                                                                         *)
(* A step is one access to what the goroutines share: the atomics open,    *)
(* stop and concurrency, the listener, and s.ln under s.mu.  Shutdown      *)
(* holds s.mu from its first step to its last.                             *)
(***************************************************************************)
EXTENDS Integers, FiniteSets, FiniteSetsExt

CONSTANTS
  Conns,           \* the connections clients dial
  Concurrency,     \* the limit of the worker pool
  ReadTimeout,     \* TRUE if s.ReadTimeout is set
  Deadline,        \* TRUE if the context of ShutdownWithContext has a deadline
  MaxShutdowns     \* bound: how often Shutdown is called

ASSUME ServerAssumption ==
  /\ IsFiniteSet(Conns)
  /\ Concurrency \in Nat \ {0}
  /\ ReadTimeout \in BOOLEAN
  /\ Deadline \in BOOLEAN
  /\ MaxShutdowns \in Nat

VARIABLES
  ln,              \* s.ln # nil
  lnOpen,          \* the listener is open
  open,            \* s.open
  stop,            \* s.stop = 1
  concurrency,     \* s.concurrency
  servePc,         \* where Serve is
  conn,            \* where each connection is
  held,            \* the connections the worker pool holds
  shutPc,          \* where ShutdownWithContext is
  shuts,           \* how often it was called
  result           \* what its last call returned

serveVars == <<ln, servePc>>
shutVars  == <<shutPc, shuts, result>>
vars == <<ln, lnOpen, open, stop, concurrency, servePc, conn, held, shutPc, shuts, result>>

TypeOK ==
  /\ {ln, lnOpen, stop} \subseteq BOOLEAN
  /\ open \in 0..Cardinality(Conns) + 1
  /\ concurrency \in 0..Concurrency
  /\ servePc \in {"new", "count", "accept", "accepted", "opened", "return", "returned"}
  /\ conn \in [Conns -> {"new", "backlog", "accepted", "queued", "idle", "handle",
                         "cleanup", "uncount", "served", "closed"}]
  /\ held \in SUBSET Conns
  /\ shutPc \in {"idle", "begin", "wait"}
  /\ shuts \in 0..MaxShutdowns
  /\ result \in {"none", "early", "drained", "error"}

Loads == {S \in SUBSET Conns : Cardinality(S) <= Concurrency}
Pool  == INSTANCE ConnDispatch

Init ==
  /\ ln = FALSE /\ lnOpen = TRUE
  /\ open = 0 /\ stop = FALSE /\ concurrency = 0
  /\ servePc = "new"
  /\ conn = [c \in Conns |-> "new"]
  /\ Pool!Init
  /\ shutPc = "idle" /\ shuts = 0 /\ result = "none"

MuFree == shutPc = "idle"

-----------------------------------------------------------------------------
(* Clients dial; a connection waits in the listener's backlog. *)

Dial(c) ==
  /\ lnOpen /\ conn[c] = "new"
  /\ conn' = [conn EXCEPT ![c] = "backlog"]
  /\ UNCHANGED <<serveVars, lnOpen, open, stop, concurrency, held, shutVars>>

-----------------------------------------------------------------------------
(* Serve *)

ServeRegister ==
  /\ servePc = "new" /\ MuFree
  /\ ln' = TRUE
  /\ servePc' = "count"
  /\ UNCHANGED <<lnOpen, open, stop, concurrency, conn, held, shutVars>>

\* Serve counts its waiting to accept as an open connection.
NoSelfCount == UNCHANGED open
SelfCount   == open' = open + 1

ServeCount ==
  /\ servePc = "count"
  /\ SelfCount
  /\ servePc' = "accept"
  /\ UNCHANGED <<ln, lnOpen, stop, concurrency, conn, held, shutVars>>

Accept(c) ==
  /\ servePc = "accept" /\ lnOpen /\ conn[c] = "backlog"
  /\ conn' = [conn EXCEPT ![c] = "accepted"]
  /\ servePc' = "accepted"
  /\ UNCHANGED <<ln, lnOpen, open, stop, concurrency, held, shutVars>>

ServeOpen ==
  /\ servePc = "accepted"
  /\ open' = open + 1
  /\ servePc' = "opened"
  /\ UNCHANGED <<ln, lnOpen, stop, concurrency, conn, held, shutVars>>

ServeDispatch(c) ==
  /\ servePc = "opened" /\ conn[c] = "accepted"
  /\ Pool!Take(c)
  /\ conn' = [conn EXCEPT ![c] = "queued"]
  /\ servePc' = "accept"
  /\ UNCHANGED <<ln, lnOpen, open, stop, concurrency, shutVars>>

ForgetOpen(c) ==
  /\ conn' = [conn EXCEPT ![c] = "closed"]
  /\ UNCHANGED open
ForgetClose(c) ==
  /\ conn' = [conn EXCEPT ![c] = "accepted"]
  /\ open' = open - 1
Reject(c) ==
  /\ conn' = [conn EXCEPT ![c] = "closed"]
  /\ open' = open - 1

\* The pool refuses c: all its workers are busy, or still on their way back from
\* a connection they have closed.
ServeRefuse(c) ==
  /\ servePc = "opened" /\ conn[c] = "accepted"
  /\ Reject(c)
  /\ servePc' = "accept"
  /\ UNCHANGED <<ln, lnOpen, stop, concurrency, held, shutVars>>

\* Accept returns a permanent error: the listener was closed, or has failed.
\* After a temporary one acceptConn tries again.
NeverPermanent == FALSE
Permanent == TRUE

AcceptFails ==
  /\ servePc = "accept"
  /\ Permanent
  /\ servePc' = "return"
  /\ UNCHANGED <<ln, lnOpen, open, stop, concurrency, conn, held, shutVars>>

\* wp.Stop has returned; the deferred decrement.
ServeReturn ==
  /\ servePc = "return"
  /\ open' = open - 1
  /\ servePc' = "returned"
  /\ UNCHANGED <<ln, lnOpen, stop, concurrency, conn, held, shutVars>>

-----------------------------------------------------------------------------
(* serveConn, in a worker of the pool *)

Move(c, from, next) ==
  /\ conn[c] = from
  /\ conn' = [conn EXCEPT ![c] = next]
  /\ UNCHANGED <<serveVars, lnOpen, stop, shutVars>>

StartConn(c) ==
  /\ Move(c, "queued", "idle")
  /\ concurrency' = concurrency + 1
  /\ UNCHANGED <<open, held>>

Request(c) ==
  Move(c, "idle", "handle") /\ UNCHANGED <<open, concurrency, held>>

\* ReadBody fails because the client has closed, or by the read deadline.
ReadFails(c) ==
  Move(c, "idle", "cleanup") /\ UNCHANGED <<open, concurrency, held>>

KeepServing == TRUE
Serving == ~stop

\* The handler has returned and its response is flushed; then s.stop is read.
Respond(c) ==
  /\ Move(c, "handle", IF Serving THEN "idle" ELSE "cleanup")
  /\ UNCHANGED <<open, concurrency, held>>

WriteFails(c) ==
  Move(c, "handle", "cleanup") /\ UNCHANGED <<open, concurrency, held>>

\* serveConnCleanup
CleanupOpen(c) ==
  /\ Move(c, "cleanup", "uncount")
  /\ open' = open - 1
  /\ UNCHANGED <<concurrency, held>>

KeepConcurrency == UNCHANGED concurrency
DropConcurrency == concurrency' = concurrency - 1

CleanupConcurrency(c) ==
  /\ Move(c, "uncount", "served")
  /\ DropConcurrency
  /\ UNCHANGED <<open, held>>

\* The worker closes the connection.
CloseConn(c) ==
  /\ Move(c, "served", "closed")
  /\ Pool!Close(c)
  /\ UNCHANGED <<open, concurrency>>

ServeConn(c) ==
  \/ StartConn(c) \/ Respond(c) \/ WriteFails(c)
  \/ CleanupOpen(c) \/ CleanupConcurrency(c) \/ CloseConn(c)

-----------------------------------------------------------------------------
(* ShutdownWithContext *)

ShutBegin ==
  /\ shutPc = "idle" /\ shuts < MaxShutdowns
  /\ stop' = TRUE
  /\ shuts' = shuts + 1
  /\ shutPc' = "begin"
  /\ UNCHANGED <<serveVars, lnOpen, open, concurrency, conn, held, result>>

ShutReturn(r) ==
  /\ stop' = FALSE
  /\ shutPc' = "idle"
  /\ result' = r
  /\ UNCHANGED <<servePc, lnOpen, open, concurrency, conn, held, shuts>>

ShutNoListener == shutPc = "begin" /\ ~ln /\ ShutReturn("early") /\ UNCHANGED ln

\* ln.Close() returns an error.
ShutCloseFails == shutPc = "begin" /\ ln /\ ShutReturn("error") /\ UNCHANGED ln

\* Closing the listener drops what is in its backlog.
ShutClose ==
  /\ shutPc = "begin" /\ ln
  /\ lnOpen' = FALSE
  /\ conn' = [c \in Conns |-> IF conn[c] = "backlog" THEN "closed" ELSE conn[c]]
  /\ shutPc' = "wait"
  /\ UNCHANGED <<serveVars, open, stop, concurrency, held, shuts, result>>

Drained == open = 0

ShutDrained ==
  /\ shutPc = "wait" /\ Drained
  /\ ln' = FALSE
  /\ ShutReturn("drained")

ShutExpires ==
  /\ shutPc = "wait" /\ Deadline
  /\ ln' = FALSE
  /\ ShutReturn("error")

Shutdown == ShutBegin \/ ShutNoListener \/ ShutCloseFails \/ ShutClose \/ ShutDrained \/ ShutExpires

-----------------------------------------------------------------------------
ServeLoop ==
  \/ ServeRegister \/ ServeCount \/ ServeOpen \/ ServeReturn
  \/ \E c \in Conns : Accept(c) \/ ServeDispatch(c) \/ ServeRefuse(c)

Next ==
  \/ ServeLoop \/ AcceptFails \/ Shutdown
  \/ \E c \in Conns : Dial(c) \/ Request(c) \/ ReadFails(c) \/ ServeConn(c)

\* Serve, the workers and a Shutdown that began go on; Accept on a closed listener
\* returns; with a ReadTimeout a silent client is not waited for.  Clients need do
\* nothing, and no context need expire.
Fairness ==
  /\ WF_vars(ServeLoop)
  /\ WF_vars(AcceptFails /\ ~lnOpen)
  /\ WF_vars(ShutNoListener \/ ShutClose)
  /\ WF_vars(ShutDrained)
  /\ \A c \in Conns : WF_vars(ServeConn(c))
  /\ ReadTimeout => \A c \in Conns : WF_vars(ReadFails(c))

Spec     == Init /\ [][Next]_vars
FairSpec == Spec /\ Fairness

-----------------------------------------------------------------------------
(* Properties *)

\* Accepted connections on which serveConn is not done.
Active == {c \in Conns : conn[c] \in {"accepted", "queued", "idle", "handle", "cleanup"}}

\* open counts the active connections and, from its first Accept until it
\* returns, Serve itself; concurrency counts those in serveConn.  Two decrements
\* for one connection, or none, would end Shutdown early or never.
CountsExact ==
  /\ open = Cardinality(Active)
            + (IF servePc \in {"accept", "opened", "return"} THEN 1 ELSE 0)
  /\ concurrency = Quantify(Conns, LAMBDA c : conn[c] \in {"idle", "handle", "cleanup", "uncount"})

\* Shutdown returns nil after it has closed the listener only when no accepted
\* connection is left half served, however the accept, the counting and the
\* polling of open interleave (the comment at Serve's own count).
NothingInterrupted == result = "drained" => Active = {}

\* With a ReadTimeout Shutdown returns, although clients may keep sending.
ShutdownReturns == shutPc = "wait" ~> shutPc = "idle"

\* Serve returns once Shutdown has closed its listener.
ServeReturns == ~lnOpen ~> servePc = "returned"

\* An accepted connection is served or closed in the end: neither the pool's
\* refusal nor a Shutdown leaves one open with nobody at it.
AcceptedNotForgotten == \A c \in Conns : conn[c] = "accepted" ~> conn[c] \in {"idle", "closed"}

=============================================================================
