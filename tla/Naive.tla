------------------------------- MODULE Naive -------------------------------
(***************************************************************************)
(* The small server and client of naive/: an accept loop with a rate       *)
(* limiter and a semaphore, handlers that send a challenge and judge one   *)
(* response, and clients that look for a proof.  A hash is its first bytes *)
(* that matter.                                                            *)
(***************************************************************************)
EXTENDS Integers, Sequences, FiniteSetsExt

CONSTANTS
  Conns,        \* the connections clients make
  MaxConn,      \* the capacity of sem
  Burst,        \* what the limiter may have saved up
  Difficulty,   \* in bits
  Bytes,        \* bound: the values a byte of a hash takes
  None

ASSUME NaiveAssumption ==
  /\ MaxConn \in Nat \ {0} /\ Burst \in Nat /\ Difficulty \in Nat
  /\ Bytes \subseteq 0..255
  /\ None \notin Conns

Hash == [1..(Difficulty \div 8 + 1) -> Bytes]

VARIABLES
  tokens,    \* the operations the limiter allows now
  sem,       \* how many tokens sem holds
  accepted,  \* the connection serveServer has accepted, or None
  pc,        \* where the handler of each connection is
  sent,      \* the hash of challenge and response, once the client has sent it
  client     \* where each client is

vars == <<tokens, sem, accepted, pc, sent, client>>

Handling == {"challenge", "scan", "close", "release"}

TypeOK ==
  /\ tokens \in 0..Burst /\ sem \in 0..MaxConn
  /\ accepted \in Conns \cup {None}
  /\ pc \in [Conns -> Handling \cup {"new", "acquire", "done"}]
  /\ sent \in [Conns -> Hash \cup {<<>>}]
  /\ client \in [Conns -> {"wait", "solve", "sent", "gone", "quote", "refused"}]

Init ==
  /\ tokens = Burst /\ sem = 0 /\ accepted = None
  /\ pc = [c \in Conns |-> "new"]
  /\ sent = [c \in Conns |-> <<>>]
  /\ client = [c \in Conns |-> "wait"]

Goto(c, label) == pc' = [pc EXCEPT ![c] = label]
Tell(c, what)  == client' = [client EXCEPT ![c] = IF @ = "gone" THEN @ ELSE what]

-----------------------------------------------------------------------------
(* isValidProof of the server and checkDifficulty of the client.  Both ask for *)
(* zero bytes first.  Of the next byte the server masks the low bits, all of   *)
(* them if there is no extra bit; the client all of them, or looks at none.    *)

ZeroBytes(h) == \A i \in 1..(Difficulty \div 8) : h[i] = 0
Extra == Difficulty % 8

IsValidProof(h) == ZeroBytes(h) /\ h[Difficulty \div 8 + 1] % 2 ^ (8 - Extra) = 0
CheckDifficulty(h) == ZeroBytes(h) /\ (Extra = 0 \/ h[Difficulty \div 8 + 1] = 0)

-----------------------------------------------------------------------------
(* serveServer *)

Refill ==
  /\ tokens < Burst
  /\ tokens' = tokens + 1
  /\ UNCHANGED <<sem, accepted, pc, sent, client>>

Accept(c) ==
  /\ accepted = None /\ pc[c] = "new" /\ tokens > 0
  /\ tokens' = tokens - 1
  /\ accepted' = c
  /\ Goto(c, "acquire")
  /\ UNCHANGED <<sem, sent, client>>

OverRate(c) ==
  /\ accepted = None /\ pc[c] = "new" /\ tokens = 0
  /\ Goto(c, "done")
  /\ Tell(c, "refused")
  /\ UNCHANGED <<tokens, sem, accepted, sent>>

\* The loop waits here while MaxConn connections are handled.
AnyRoom == TRUE
Room == sem < MaxConn

Acquire ==
  /\ accepted # None
  /\ Room
  /\ sem' = sem + 1
  /\ Goto(accepted, "challenge")
  /\ accepted' = None
  /\ UNCHANGED <<tokens, sent, client>>

-----------------------------------------------------------------------------
(* handleConnection.  A write may fail, which the handler does not look at.   *)

Challenge(c) ==
  /\ pc[c] = "challenge"
  /\ Goto(c, "scan")
  /\ Tell(c, "solve") \/ UNCHANGED client
  /\ UNCHANGED <<tokens, sem, accepted, sent>>

Judge(c) ==
  /\ pc[c] = "scan" /\ sent[c] # <<>>
  /\ Tell(c, IF IsValidProof(sent[c]) THEN "quote" ELSE "refused") \/ UNCHANGED client
  /\ Goto(c, "close")
  /\ UNCHANGED <<tokens, sem, accepted, sent>>

\* Scan ends without a line: the client is gone, or the deadline has passed.
NeverTimesOut(c) == client[c] = "gone"
GivesUp(c) == TRUE

ScanEnds(c) ==
  /\ pc[c] = "scan"
  /\ GivesUp(c)
  /\ Goto(c, "close")
  /\ UNCHANGED <<tokens, sem, accepted, sent, client>>

CloseConn(c) ==
  /\ pc[c] = "close"
  /\ Goto(c, "release")
  /\ UNCHANGED <<tokens, sem, accepted, sent, client>>

KeepToken == UNCHANGED sem
FreeToken == sem' = sem - 1

ReleaseSem(c) ==
  /\ pc[c] = "release"
  /\ FreeToken
  /\ Goto(c, "done")
  /\ UNCHANGED <<tokens, accepted, sent, client>>

-----------------------------------------------------------------------------
(* The client: solveChallenge returns the first hash that passes.  Others may *)
(* connect too and send what they like.                                       *)

Send(c, h) ==
  /\ client[c] = "solve" /\ pc[c] = "scan" /\ sent[c] = <<>>
  /\ sent' = [sent EXCEPT ![c] = h]
  /\ client' = [client EXCEPT ![c] = "sent"]
  /\ UNCHANGED <<tokens, sem, accepted, pc>>

Solve(c) == \E h \in Hash : CheckDifficulty(h) /\ Send(c, h)
Guess(c) == \E h \in Hash : Send(c, h)

Leave(c) ==
  /\ client[c] \in {"wait", "solve", "sent"}
  /\ client' = [client EXCEPT ![c] = "gone"]
  /\ UNCHANGED <<tokens, sem, accepted, pc, sent>>

Handle(c) == Challenge(c) \/ Judge(c) \/ ScanEnds(c) \/ CloseConn(c) \/ ReleaseSem(c)

Next ==
  \/ Refill \/ Acquire
  \/ \E c \in Conns : Accept(c) \/ OverRate(c) \/ Handle(c) \/ Solve(c) \/ Guess(c) \/ Leave(c)

\* Goroutines are scheduled fairly and deadlines pass.
Spec     == Init /\ [][Next]_vars
FairSpec == Spec /\ WF_vars(Acquire) /\ \A c \in Conns : WF_vars(Handle(c))

-----------------------------------------------------------------------------
(* Properties *)

\* sem holds one token for each connection that is handled, until after it was
\* closed, so never more than MaxConn sockets are with handlers.
SemExact == sem = Quantify(Conns, LAMBDA c : pc[c] \in Handling)

\* The accept loop, which waits on the semaphore itself, always goes on: the
\* deadline ends every handler, also that of a client that never answers.
AcceptsGoOn == accepted # None ~> accepted = None

=============================================================================
