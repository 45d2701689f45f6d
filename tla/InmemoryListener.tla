-------------------------- MODULE InmemoryListener --------------------------
(***************************************************************************)
(* The listener in memory of internal/server/testutil, on which the tests  *)
(* run the server, over the pipes of PipeConns: goroutines that dial, one  *)
(* each for a pipe, one that accepts, and those that call Close.           *)
(*                                                                         *)
(* A step is what happens between two waits: for ln.lock, for ln.conns or  *)
(* for the acceptor.  Addresses are left out.                              *)
(***************************************************************************)
EXTENDS PipeConns

CONSTANT Closers    \* the goroutines that call Close

VARIABLES
  lock,      \* the goroutine that holds ln.lock, or None
  closed,    \* ln.closed, and ln.conns is closed
  conns,     \* ln.conns, a connection by its pipe.  Its capacity of 1024 is not met
  dpc,       \* where the goroutine that dials is
  cpc,       \* where the goroutine in Close is
  acceptor,  \* what the acceptor does: Serve stops after an error of Accept
  accepted   \* history: the pipes in the order they were accepted

lnVars == <<lock, closed, conns, dpc, cpc, acceptor, accepted>>
vars   == <<pipeVars, lnVars>>

TypeOK ==
  /\ PipeTypeOK
  /\ lock \in Pipes \cup {None}
  /\ closed \in BOOLEAN
  /\ conns \in Seq(Pipes) /\ accepted \in Seq(Pipes)
  /\ dpc \in [Pipes -> {"idle", "wait", "open", "refused"}]
  /\ cpc \in [Closers -> {"idle", "lock", "closed", "error"}]
  /\ acceptor \in {"accept", "error", "gone"}

Init ==
  /\ PipeInit
  /\ lock = None /\ closed = FALSE /\ conns = <<>>
  /\ dpc = [p \in Pipes |-> "idle"]
  /\ cpc = [c \in Closers |-> "idle"]
  /\ acceptor = "accept" /\ accepted = <<>>

WasAccepted(p) == \E i \in 1..Len(accepted) : accepted[i] = p

-----------------------------------------------------------------------------
(* Dial.  A goroutine waits for the lock where it has not dialed yet. *)

\* Dial keeps the lock until its connection has been accepted.
LetGo(p) == None
Keep(p) == p

DialSends(p) ==
  /\ dpc[p] = "idle" /\ lock = None /\ ~closed
  /\ lock' = Keep(p)
  /\ conns' = Append(conns, p)
  /\ dpc' = [dpc EXCEPT ![p] = "wait"]
  /\ UNCHANGED <<pipeVars, closed, cpc, acceptor, accepted>>

DialRefused(p) ==
  /\ dpc[p] = "idle" /\ lock = None /\ closed
  /\ Close(p)
  /\ dpc' = [dpc EXCEPT ![p] = "refused"]
  /\ UNCHANGED <<lock, closed, conns, cpc, acceptor, accepted>>

NoUnlock(p) == p
Unlock(p) == None

DialReturns(p) ==
  /\ dpc[p] = "wait" /\ WasAccepted(p)
  /\ lock' = Unlock(p)
  /\ dpc' = [dpc EXCEPT ![p] = "open"]
  /\ UNCHANGED <<pipeVars, closed, conns, cpc, acceptor, accepted>>

-----------------------------------------------------------------------------
(* Accept *)

Accept ==
  /\ acceptor = "accept" /\ conns # <<>>
  /\ accepted' = Append(accepted, Head(conns))
  /\ conns' = Tail(conns)
  /\ UNCHANGED <<pipeVars, lock, closed, dpc, cpc, acceptor>>

AcceptFails ==
  /\ acceptor = "accept" /\ conns = <<>> /\ closed
  /\ acceptor' = "error"
  /\ UNCHANGED <<pipeVars, lock, closed, conns, dpc, cpc, accepted>>

\* The test, or its Serve, accepts no more.
AcceptorLeaves ==
  /\ acceptor = "accept"
  /\ acceptor' = "gone"
  /\ UNCHANGED <<pipeVars, lock, closed, conns, dpc, cpc, accepted>>

-----------------------------------------------------------------------------
(* Close of the listener *)

CloseBegin(c) ==
  /\ cpc[c] = "idle"
  /\ cpc' = [cpc EXCEPT ![c] = "lock"]
  /\ UNCHANGED <<pipeVars, lock, closed, conns, dpc, acceptor, accepted>>

CloseListener(c) ==
  /\ cpc[c] = "lock" /\ lock = None
  /\ closed' = TRUE
  /\ cpc' = [cpc EXCEPT ![c] = IF closed THEN "error" ELSE "closed"]
  /\ UNCHANGED <<pipeVars, lock, conns, dpc, acceptor, accepted>>

-----------------------------------------------------------------------------
(* The client has its end when Dial has returned, the server after Accept. *)

HasEnd(e) == IF e[2] = 1 THEN dpc[e[1]] = "open" ELSE WasAccepted(e[1])

Chat(A, e) == HasEnd(e) /\ A /\ UNCHANGED lnVars

Next ==
  \/ \E p \in Pipes : DialSends(p) \/ DialRefused(p) \/ DialReturns(p)
  \/ Accept \/ AcceptFails \/ AcceptorLeaves
  \/ \E c \in Closers : CloseBegin(c) \/ CloseListener(c)
  \/ \E e \in End : Chat(PipeStep(e), e)

\* What waits for a channel or a lock goes on; a Go mutex starves nobody.  An acceptor
\* that is there accepts.  Nobody must dial, write, read or close.
Fairness ==
  /\ WF_vars(Accept \/ AcceptFails)
  /\ \A p \in Pipes : WF_vars(DialReturns(p))
  /\ \A c \in Closers : SF_vars(CloseListener(c))
  /\ \A e \in Readers : WF_vars(Chat(Read(e), e))
  /\ \A e \in Writers : WF_vars(Chat(Write(e), e))

Spec == Init /\ [][Next]_vars /\ Fairness

-----------------------------------------------------------------------------
(* Properties *)

\* "It only returns once the server has accepted the connection"
\* (inmemory_listener.go:96), and a connection is accepted once: what Dial returns has
\* a server behind it, a refused Dial has none, and when the channel is closed no
\* connection is left in it.
DialMeansAccepted ==
  /\ \A p \in Pipes :
       /\ dpc[p] = "open" => WasAccepted(p)
       /\ dpc[p] = "refused" => ~WasAccepted(p) /\ p \in stopped
  /\ \A i, j \in 1..Len(accepted) : accepted[i] = accepted[j] => i = j
  /\ closed => conns = <<>>

\* Close waits for the lock that a Dial holds until its connection is accepted.  It
\* returns all the same, unless the acceptor has left while a Dial waits for it.
ListenerCloses ==
  \A c \in Closers :
    cpc[c] = "lock" ~> cpc[c] # "lock" \/ (acceptor = "gone" /\ lock # None)

=============================================================================
