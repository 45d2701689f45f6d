------------------------------ MODULE Program ------------------------------
(***************************************************************************)
(* The program cmd/server: main, which serves and then waits for the       *)
(* result of Shutdown, a goroutine that calls Shutdown after an interrupt, *)
(* and the Server between them.  Shutdown is called without a deadline and *)
(* the Server has no ReadTimeout, as in the code.                          *)
(***************************************************************************)
EXTENDS Server

ASSUME ProgramAssumption == ~ReadTimeout /\ ~Deadline /\ MaxShutdowns = 1

VARIABLES
  main,          \* where main is
  shutter,       \* where the goroutine that shuts down is
  interrupted    \* globalCtx is done

progVars   == <<main, shutter, interrupted>>
serverVars == vars
allVars    == <<serverVars, progVars>>

ProgramTypeOK ==
  /\ TypeOK
  /\ main \in {"start", "serve", "wait", "exit", "panic"}
  /\ shutter \in {"wait", "call", "send", "done"}
  /\ interrupted \in BOOLEAN

ProgramInit ==
  /\ Init
  /\ main = "start" /\ shutter = "wait"
  /\ interrupted = FALSE

Ended == main \in {"exit", "panic"}

Interrupt ==
  /\ ~Ended /\ ~interrupted
  /\ interrupted' = TRUE
  /\ UNCHANGED <<serverVars, main, shutter>>

-----------------------------------------------------------------------------
(* main *)

\* The quotes are read and the listener is opened.
Listen ==
  /\ main = "start"
  /\ main' = "serve"
  /\ UNCHANGED <<serverVars, shutter, interrupted>>

CannotStart ==
  /\ main = "start"
  /\ main' = "panic"
  /\ UNCHANGED <<serverVars, shutter, interrupted>>

\* ServeContext has returned, whatever it says.
LeaveAtOnce == "exit"
AwaitShutdown == "wait"

Served ==
  /\ main = "serve" /\ servePc = "returned"
  /\ main' = AwaitShutdown
  /\ UNCHANGED <<serverVars, shutter, interrupted>>

\* waitShutdownErr is unbuffered: the goroutine waits in its send for main.
Receive ==
  /\ main = "wait" /\ shutter = "send"
  /\ main' = IF result = "error" THEN "panic" ELSE "exit"
  /\ shutter' = "done"
  /\ UNCHANGED <<serverVars, interrupted>>

-----------------------------------------------------------------------------
(* The goroutine.  Shutdown does not run before it is called here. *)

Call ==
  /\ ~Ended /\ shutter = "wait" /\ interrupted
  /\ ShutBegin
  /\ shutter' = "call"
  /\ UNCHANGED <<main, interrupted>>

Returned ==
  /\ ~Ended /\ shutter = "call" /\ shutPc = "idle"
  /\ shutter' = "send"
  /\ UNCHANGED <<serverVars, main, interrupted>>

-----------------------------------------------------------------------------
(* The Server, as long as the process is there.  Nobody can dial before Listen. *)

Looping(A) == main = "serve" /\ A /\ UNCHANGED progVars
Shutting(A) == ~Ended /\ A /\ UNCHANGED progVars
Working(A)  == main \in {"serve", "wait"} /\ A /\ UNCHANGED progVars

ServerStep ==
  \/ Looping(ServeLoop) \/ Looping(AcceptFails)
  \/ Shutting(ShutNoListener) \/ Shutting(ShutCloseFails)
  \/ Shutting(ShutClose) \/ Shutting(ShutDrained)
  \/ \E c \in Conns :
       Working(Dial(c)) \/ Working(Request(c)) \/ Working(ReadFails(c)) \/ Working(ServeConn(c))

ProgramNext ==
  \/ Interrupt \/ Listen \/ CannotStart \/ Served \/ Receive \/ Call \/ Returned
  \/ ServerStep

\* Goroutines run on.  A client need not connect and may go on asking, but it does
\* not stay silent for ever: that is what a ReadTimeout would be for.
ProgramFairness ==
  /\ WF_allVars(Listen \/ Served \/ Receive)
  /\ WF_allVars(Call \/ Returned)
  /\ WF_allVars(Looping(ServeLoop))
  /\ WF_allVars(Looping(AcceptFails /\ ~lnOpen))
  /\ WF_allVars(Shutting(ShutNoListener \/ ShutClose \/ ShutDrained))
  /\ \A c \in Conns :
       /\ WF_allVars(Working(ServeConn(c)))
       /\ WF_allVars(Working(Request(c) \/ ReadFails(c)))

ProgramSpec == ProgramInit /\ [][ProgramNext]_allVars /\ ProgramFairness

-----------------------------------------------------------------------------
(* Properties *)

\* "Make sure the program doesn't exit and waits instead for Shutdown to return"
\* (server.go:200): the program does not exit from under a connection that is being
\* served, in whatever order Serve, Shutdown and main get there, also when Serve
\* has failed first; unless Shutdown had found no listener.
ExitsGracefully == main = "exit" => Active = {} \/ result = "early"

\* An interrupt ends the program once Shutdown has closed the listener, or when Serve
\* has returned for a reason of its own and main only waits: main and the goroutine
\* meet in the channel, whoever comes first.
InterruptEnds ==
  interrupted /\ (shutPc = "wait" \/ servePc = "returned") ~> Ended

=============================================================================
