----------------------------- MODULE ServeConn -----------------------------
(***************************************************************************)
(* The request loop of serveConn (internal/server/server.go) and ReadBody  *)
(* (request.go) on several connections that share the pools of readers,    *)
(* writers and RequestContexts.                                            *)
(*                                                                         *)
(* The i-th byte of the k-th request of a connection is <<k, i>>.  Bytes   *)
(* go from the client to the wire, from there to the pooled bufio.Reader   *)
(* br, through a LimitReader to the bufio.Reader that ReadBody makes for   *)
(* one call, and to the body.  A step is one Read of the connection or of  *)
(* br.  The response to the k-th body of c is <<c, k>>; it goes from the   *)
(* Response of the context to the bufio.Writer and from there to the       *)
(* client.                                                                 *)
(***************************************************************************)
EXTENDS Integers, Sequences, SequencesExt

CONSTANTS
  Conns,              \* connections
  Readers, Writers,   \* bufio.Readers of readerPool, bufio.Writers of writerPool
  Contexts,           \* RequestContexts of ctxPool
  ReadBufferSize,     \* the size of br's buffer
  InnerSize,          \* the size of the buffer in ReadBody, 4096 in the code
  MaxRequestBodySize,
  ReadTimeout,        \* TRUE if s.ReadTimeout is set
  IdleTimeout,        \* TRUE if s.IdleTimeout is set
  BodySizes,          \* the bodies a client may send, by length
  MaxRequests,        \* bound: how many requests a client sends
  Pipelining,         \* the connections whose clients may send before they are answered
  None

ASSUME ServeConnAssumption ==
  /\ ReadBufferSize \in Nat \ {0} /\ InnerSize \in Nat \ {0}
  /\ MaxRequestBodySize \in Nat \ {0}
  /\ {ReadTimeout, IdleTimeout} \subseteq BOOLEAN /\ Pipelining \subseteq Conns
  /\ BodySizes \subseteq Nat /\ MaxRequests \in Nat
  /\ None \notin Readers \cup Writers \cup Contexts \cup Conns

VARIABLES
  sizes,       \* the body lengths of the requests a client has begun to send
  rest,        \* what a client has still to send of its last request
  gone,        \* the client has closed its end
  wire,        \* bytes sent and not read
  pc,          \* where serveConn is
  br,          \* the reader serveConn uses
  buf,         \* what each reader has buffered
  free,        \* readerPool, readers not yet made included
  bw, wbuf,    \* the writer serveConn uses, what each writer has buffered
  freeWriters, \* writerPool, likewise
  ctx, resp,   \* the context of each serveConn, the Response in each
  freeCtxs,    \* ctxPool, likewise
  deadline,    \* a read deadline is set on the connection
  raw,         \* what ReadBody has gathered
  bodies,      \* the bodies the handler was given
  answered,    \* the number of requests responded to
  out,         \* what has been written to the connection
  ended,       \* why serveConn left the loop
  stop         \* s.stop, set while ShutdownWithContext is under way

clientVars == <<sizes, rest, gone>>
readVars   == <<br, buf, free, raw>>
writeVars  == <<bw, wbuf, freeWriters, resp, answered, out>>
ctxVars    == <<ctx, freeCtxs>>
vars == <<clientVars, wire, pc, readVars, deadline, bodies, writeVars, ctxVars, ended, stop>>

Newline == <<0, 0>>
Char    == (1..MaxRequests) \X Nat
Byte    == Char \cup {Newline}

TimeoutResponse == <<None, 0>>
AnyResponse     == (Conns \X (1..MaxRequests)) \cup {TimeoutResponse}

TypeOK ==
  /\ \A c \in Conns : sizes[c] \in Seq(BodySizes) /\ rest[c] \in Seq(Byte)
  /\ gone \in [Conns -> BOOLEAN]
  /\ \A c \in Conns : wire[c] \in Seq(Byte) /\ raw[c] \in Seq(Char)
  /\ pc \in [Conns -> {"new", "top", "read", "handle", "leave", "done"}]
  /\ br \in [Conns -> Readers \cup {None}]
  /\ \A r \in Readers : buf[r] \in Seq(Byte) /\ Len(buf[r]) <= ReadBufferSize
  /\ free \subseteq Readers /\ freeWriters \subseteq Writers /\ freeCtxs \subseteq Contexts
  /\ bw \in [Conns -> Writers \cup {None}] /\ ctx \in [Conns -> Contexts \cup {None}]
  /\ \A w \in Writers : wbuf[w] \in Seq(AnyResponse)
  /\ \A x \in Contexts : resp[x] \in Seq(AnyResponse) /\ Len(resp[x]) <= 1
  /\ \A c \in Conns : out[c] \in Seq(AnyResponse)
  /\ deadline \in [Conns -> BOOLEAN]
  /\ \A c \in Conns : bodies[c] \in Seq(Seq(Char))
  /\ answered \in [Conns -> 0..MaxRequests]
  /\ ended \in [Conns -> {"no", "eof", "reset", "deadline", "timeout", "limit", "write", "stop"}]
  /\ stop \in BOOLEAN

Init ==
  /\ sizes = [c \in Conns |-> <<>>] /\ rest = [c \in Conns |-> <<>>]
  /\ gone = [c \in Conns |-> FALSE]
  /\ wire = [c \in Conns |-> <<>>]
  /\ pc = [c \in Conns |-> "new"]
  /\ br = [c \in Conns |-> None]
  /\ buf = [r \in Readers |-> <<>>]
  /\ free = Readers
  /\ deadline = [c \in Conns |-> FALSE]
  /\ raw = [c \in Conns |-> <<>>]
  /\ bodies = [c \in Conns |-> <<>>]
  /\ bw = [c \in Conns |-> None] /\ freeWriters = Writers
  /\ wbuf = [w \in Writers |-> <<>>]
  /\ ctx = [c \in Conns |-> None] /\ freeCtxs = Contexts
  /\ resp = [x \in Contexts |-> <<>>]
  /\ answered = [c \in Conns |-> 0] /\ out = [c \in Conns |-> <<>>]
  /\ ended = [c \in Conns |-> "no"]
  /\ stop = FALSE

Least(a, b) == IF a < b THEN a ELSE b
First(s, n) == SubSeq(s, 1, n)
After(s, n) == SubSeq(s, n + 1, Len(s))

-----------------------------------------------------------------------------
(* The environment.  The clients of this repository wait for a response before *)
(* they send the next request; the server does not ask them to.                *)

Compose(c) ==
  /\ ~gone[c] /\ rest[c] = <<>> /\ (c \in Pipelining \/ answered[c] = Len(sizes[c]))
  /\ Len(sizes[c]) < MaxRequests
  /\ \E n \in BodySizes :
       /\ sizes' = [sizes EXCEPT ![c] = Append(@, n)]
       /\ rest' = [rest EXCEPT ![c] = Append([i \in 1..n |-> <<Len(sizes[c]) + 1, i>>], Newline)]
  /\ UNCHANGED <<gone, wire, pc, readVars, deadline, bodies, writeVars, ctxVars, ended, stop>>

\* A request may arrive in several pieces.
Arrive(c) ==
  /\ ~gone[c]
  /\ \E n \in 1..Len(rest[c]) :
       /\ wire' = [wire EXCEPT ![c] = @ \o First(rest[c], n)]
       /\ rest' = [rest EXCEPT ![c] = After(@, n)]
  /\ UNCHANGED <<sizes, gone, pc, readVars, deadline, bodies, writeVars, ctxVars, ended, stop>>

Hangup(c) ==
  /\ ~gone[c]
  /\ gone' = [gone EXCEPT ![c] = TRUE]
  /\ UNCHANGED <<sizes, rest, wire, pc, readVars, deadline, bodies, writeVars, ctxVars, ended, stop>>

\* ShutdownWithContext raises s.stop and lowers it again when it returns, which it may
\* do while connections are served: its context has expired, or it found no listener.
Shutdown ==
  /\ ~stop
  /\ stop' = TRUE
  /\ UNCHANGED <<clientVars, wire, pc, readVars, deadline, bodies, writeVars, ctxVars, ended>>

ShutdownReturns ==
  /\ stop
  /\ stop' = FALSE
  /\ UNCHANGED <<clientVars, wire, pc, readVars, deadline, bodies, writeVars, ctxVars, ended>>

-----------------------------------------------------------------------------
(* serveConn *)

\* acquireCtx: the context of an earlier connection, as releaseCtx has left it.
Begin(c) ==
  /\ pc[c] = "new"
  /\ \E x \in freeCtxs :
       /\ ctx' = [ctx EXCEPT ![c] = x]
       /\ freeCtxs' = freeCtxs \ {x}
  /\ pc' = [pc EXCEPT ![c] = "top"]
  /\ UNCHANGED <<clientVars, wire, readVars, deadline, bodies, writeVars, ended, stop>>

\* acquireReader resets the reader it takes from the pool.
KeepBuffer(r)  == UNCHANGED buf
ResetBuffer(r) == buf' = [buf EXCEPT ![r] = <<>>]

AcquireReader(c) ==
  \/ br[c] # None /\ UNCHANGED <<br, buf, free>>
  \/ /\ br[c] = None
     /\ \E r \in free :
          /\ br' = [br EXCEPT ![c] = r]
          /\ free' = free \ {r}
          /\ ResetBuffer(r)

SetDeadline(c) ==
  deadline' = [deadline EXCEPT ![c] = IF ReadTimeout THEN TRUE
                                      ELSE IF IdleTimeout THEN FALSE ELSE @]

\* The top of the loop: a reader, a read deadline, and into ReadBody.
Top(c) ==
  /\ pc[c] = "top"
  /\ AcquireReader(c)
  /\ SetDeadline(c)
  /\ raw' = [raw EXCEPT ![c] = <<>>]
  /\ pc' = [pc EXCEPT ![c] = "read"]
  /\ UNCHANGED <<clientVars, wire, bodies, writeVars, ctxVars, ended, stop>>

\* Setting the deadline fails, and serveConn leaves the loop.
DeadlineFails(c) ==
  /\ pc[c] = "top" /\ (ReadTimeout \/ IdleTimeout)
  /\ AcquireReader(c)
  /\ ended' = [ended EXCEPT ![c] = "deadline"]
  /\ pc' = [pc EXCEPT ![c] = "leave"]
  /\ UNCHANGED <<clientVars, wire, raw, deadline, bodies, writeVars, ctxVars, stop>>

\* The reader goes back to the pool and br becomes nil.
ReleaseKeep(c) ==
  /\ free' = free \cup {br[c]}
  /\ UNCHANGED br
Release(c) ==
  /\ free' = free \cup {br[c]}
  /\ br' = [br EXCEPT ![c] = None]

\* How many bytes ReadBody still asks for: what its buffer and the limit allow, which
\* counts the newline.
LessLimit(c) == MaxRequestBodySize - 1 - Len(raw[c])
Limit(c) == MaxRequestBodySize - Len(raw[c])
Wanted(c) == Least(InnerSize - (Len(raw[c]) % InnerSize), Limit(c))

\* br.Read gives bytes, from its buffer or, past it, straight from the wire.
Chunk(c) ==
  LET r == br[c] IN
  IF buf[r] # <<>>
  THEN [bytes |-> First(buf[r], Least(Wanted(c), Len(buf[r]))),
        buffer |-> After(buf[r], Least(Wanted(c), Len(buf[r]))),
        wire |-> wire[c]]
  ELSE IF Wanted(c) >= ReadBufferSize
       THEN [bytes |-> First(wire[c], Least(Wanted(c), Len(wire[c]))),
             buffer |-> <<>>,
             wire |-> After(wire[c], Least(Wanted(c), Len(wire[c])))]
       ELSE LET fill == First(wire[c], Least(ReadBufferSize, Len(wire[c])))
            IN  [bytes |-> First(fill, Least(Wanted(c), Len(fill))),
                 buffer |-> After(fill, Least(Wanted(c), Len(fill))),
                 wire |-> After(wire[c], Len(fill))]

\* The body of a line.
TrimTwo(line) == First(line, Len(line) - 2)
Trim(line)    == First(line, Len(line) - 1)

\* ReadBody returns; br goes back to the pool if it has nothing left.
SkipEmpty(c, line, left) ==
  /\ raw' = [raw EXCEPT ![c] = <<>>]
  /\ IF Len(line) = 1
     THEN UNCHANGED <<bodies, pc, br, free>>
     ELSE /\ bodies' = [bodies EXCEPT ![c] = Append(@, Trim(line))]
          /\ pc' = [pc EXCEPT ![c] = "handle"]
          /\ IF left = <<>> THEN Release(c) ELSE UNCHANGED <<br, free>>
Deliver(c, line, left) ==
  /\ raw' = [raw EXCEPT ![c] = <<>>]
  /\ bodies' = [bodies EXCEPT ![c] = Append(@, Trim(line))]
  /\ pc' = [pc EXCEPT ![c] = "handle"]
  /\ IF left = <<>> THEN Release(c) ELSE UNCHANGED <<br, free>>

\* A chunk without the newline is gathered.  One that has it completes the body,
\* and what follows it in the chunk is lost with ReadBody's own reader.
Read(c) ==
  /\ pc[c] = "read"
  /\ Limit(c) > 0
  /\ buf[br[c]] # <<>> \/ wire[c] # <<>>
  /\ LET got == Chunk(c)
         all == raw[c] \o got.bytes
     IN  /\ buf' = [buf EXCEPT ![br[c]] = got.buffer]
         /\ wire' = [wire EXCEPT ![c] = got.wire]
         /\ \/ /\ ~Contains(got.bytes, Newline)
               /\ raw' = [raw EXCEPT ![c] = all]
               /\ UNCHANGED <<pc, br, free, bodies>>
            \/ \E i \in 1..Len(all) :
                 /\ all[i] = Newline /\ ~Contains(First(all, i - 1), Newline)
                 /\ Deliver(c, First(all, i), got.buffer)
  /\ UNCHANGED <<clientVars, deadline, writeVars, ctxVars, ended, stop>>

\* What is written to the connection of c: what the writer holds, then the body of
\* the Response.  The writer comes from the pool if serveConn has none yet, and
\* acquireWriter resets it.
KeepPending(c, w)  == wbuf[w]
ResetPending(c, w) == IF bw[c] = None THEN <<>> ELSE wbuf[w]

\* All of it reaches the connection, or it stays in the writer, which has failed.
Write(c, body) ==
  \E w \in IF bw[c] = None THEN freeWriters ELSE {bw[c]} :
    /\ bw' = [bw EXCEPT ![c] = w]
    /\ freeWriters' = freeWriters \ {w}
    /\ out' = [out EXCEPT ![c] = @ \o ResetPending(c, w) \o body]
    /\ wbuf' = [wbuf EXCEPT ![w] = <<>>]

WriteBroken(c, body) ==
  \E w \in IF bw[c] = None THEN freeWriters ELSE {bw[c]} :
    /\ bw' = [bw EXCEPT ![c] = w]
    /\ freeWriters' = freeWriters \ {w}
    /\ wbuf' = [wbuf EXCEPT ![w] = ResetPending(c, w) \o body]
    /\ UNCHANGED out

\* writeErrorResponse: "Request timeout" after a timeout; after another error
\* whatever is in the Response, which serveConn has reset.  An error of the write
\* is ignored.
ErrorResponse(c, why) == IF why = "timeout" THEN <<TimeoutResponse>> ELSE resp[ctx[c]]

TellError(c, why) ==
  \/ why \in {"eof", "limit"} /\ UNCHANGED writeVars
  \/ /\ why \in {"timeout", "reset"}
     /\ Write(c, ErrorResponse(c, why)) \/ (gone[c] /\ WriteBroken(c, ErrorResponse(c, why)))
     /\ resp' = [resp EXCEPT ![ctx[c]] = <<>>]
     /\ UNCHANGED answered

GoOn  == "top"
Break == "leave"

\* ReadBody fails: the reader goes back, serveConn leaves the loop.  The end of the
\* stream, which is also what the limit looks like, is not answered.
Fail(c, why) ==
  /\ pc[c] = "read"
  /\ Release(c)
  /\ TellError(c, why)
  /\ ended' = [ended EXCEPT ![c] = why]
  /\ raw' = [raw EXCEPT ![c] = <<>>]
  /\ pc' = [pc EXCEPT ![c] = Break]
  /\ UNCHANGED <<clientVars, wire, buf, deadline, bodies, ctxVars, stop>>

Drained(c) == br[c] # None /\ buf[br[c]] = <<>> /\ wire[c] = <<>>

ReadLimit(c) == pc[c] = "read" /\ Limit(c) = 0 /\ Fail(c, "limit")
ReadEOF(c)   == pc[c] = "read" /\ Limit(c) > 0 /\ Drained(c) /\ gone[c] /\ Fail(c, "eof")
ReadReset(c) == pc[c] = "read" /\ Limit(c) > 0 /\ buf[br[c]] = <<>> /\ gone[c] /\ Fail(c, "reset")
TimesOut(c)  == pc[c] = "read" /\ Limit(c) > 0 /\ buf[br[c]] = <<>> /\ deadline[c] /\ Fail(c, "timeout")

\* The handler has put its response into the context.  It is written and flushed,
\* the Response is reset, and s.stop is looked at.
Answer(c) == <<<<c, Len(bodies[c])>>>>

Respond(c) ==
  /\ pc[c] = "handle"
  /\ Write(c, Answer(c))
  /\ resp' = [resp EXCEPT ![ctx[c]] = <<>>]
  /\ answered' = [answered EXCEPT ![c] = @ + 1]
  /\ pc' = [pc EXCEPT ![c] = IF stop THEN "leave" ELSE "top"]
  /\ ended' = [ended EXCEPT ![c] = IF stop THEN "stop" ELSE @]
  /\ UNCHANGED <<clientVars, wire, readVars, deadline, bodies, ctxVars, stop>>

\* The write fails: the response stays in the writer and in the context.
WriteFails(c) ==
  /\ pc[c] = "handle" /\ gone[c]
  /\ WriteBroken(c, Answer(c))
  /\ resp' = [resp EXCEPT ![ctx[c]] = Answer(c)]
  /\ ended' = [ended EXCEPT ![c] = "write"]
  /\ pc' = [pc EXCEPT ![c] = "leave"]
  /\ UNCHANGED <<clientVars, wire, readVars, deadline, bodies, answered, out, ctxVars, stop>>

ReleaseRest(c) == IF br[c] # None THEN Release(c) ELSE UNCHANGED <<br, free>>

\* releaseCtx resets the context, its Response included.
KeepResponse(c)  == UNCHANGED resp
ResetResponse(c) == resp' = [resp EXCEPT ![ctx[c]] = <<>>]

Leave(c) ==
  /\ pc[c] = "leave"
  /\ ReleaseRest(c)
  /\ freeWriters' = freeWriters \cup ({bw[c]} \ {None})
  /\ bw' = [bw EXCEPT ![c] = None]
  /\ ResetResponse(c)
  /\ freeCtxs' = freeCtxs \cup {ctx[c]}
  /\ ctx' = [ctx EXCEPT ![c] = None]
  /\ pc' = [pc EXCEPT ![c] = "done"]
  /\ UNCHANGED <<clientVars, wire, buf, raw, deadline, bodies, wbuf, answered, out, ended, stop>>

Serve(c) == Begin(c) \/ Top(c) \/ Read(c) \/ ReadLimit(c) \/ ReadEOF(c) \/ Respond(c) \/ Leave(c)

Next ==
  \/ Shutdown \/ ShutdownReturns
  \/ \E c \in Conns :
       \/ Compose(c) \/ Arrive(c) \/ Hangup(c) \/ Serve(c)
       \/ DeadlineFails(c) \/ ReadReset(c) \/ TimesOut(c) \/ WriteFails(c)

\* Each serveConn runs on, and a deadline that is set passes.
Spec     == Init /\ [][Next]_vars
FairSpec == Spec /\ \A c \in Conns : WF_vars(Serve(c)) /\ WF_vars(TimesOut(c))

-----------------------------------------------------------------------------
(* Properties *)

\* A reader, a writer and a context are used by one connection at a time and are not
\* in their pools meanwhile, although serveConn releases its reader in two places.
PooledPrivate ==
  \A f \in {<<br, free>>, <<bw, freeWriters>>, <<ctx, freeCtxs>>} : \A c \in Conns :
    f[1][c] # None => f[1][c] \notin f[2] /\ \A d \in Conns \ {c} : f[1][d] # f[1][c]

\* A client is sent the responses to its own requests, in order, and then perhaps
\* that it has timed out: nothing that an earlier connection has left in a writer
\* that failed, or in a context.
ResponsesOwn ==
  \A c \in Conns : \A k \in 1..Len(out[c]) :
    \/ k <= answered[c] /\ out[c][k] = <<c, k>>
    \/ k = answered[c] + 1 /\ ended[c] = "timeout" /\ out[c][k] = TimeoutResponse

\* Whatever pieces a request arrives in and whatever a recycled reader has held,
\* the handler is given each request of a client that waits for its responses
\* whole, once and in order.
BodiesIntact ==
  \A c \in Conns \ Pipelining : \A k \in 1..Len(bodies[c]) :
    k <= Len(sizes[c]) /\ bodies[c][k] = [i \in 1..sizes[c][k] |-> <<k, i>>]

\* A client that does not wait can lose what ReadBody's own reader had read past a
\* newline, so it is not promised BodiesIntact.  Still a body is never made of two
\* requests and never loses its tail: each is the end of one request, in the order
\* they were sent.
BodiesAreTails ==
  \A c \in Pipelining : \E of \in [1..Len(bodies[c]) -> 1..Len(sizes[c])] :
    /\ \A i, j \in DOMAIN of : i < j => of[i] < of[j]
    /\ \A i \in DOMAIN of :
         \E lost \in 0..sizes[c][of[i]] :
           bodies[c][i] = [m \in 1..sizes[c][of[i]] - lost |-> <<of[i], lost + m>>]

\* The newline counts: a body of MaxRequestBodySize is too long, although the doc of that
\* field (server.go:98) has only bodies rejected that exceed it.
TooLong(c) == sizes[c] # <<>> /\ Last(sizes[c]) >= MaxRequestBodySize

\* A request that has been sent in full by a client that stays and waits is answered,
\* however it falls into pieces, unless it timed out, the loop was left because of a
\* Shutdown, or its body and newline are longer than MaxRequestBodySize.
RequestsAnswered ==
  \A c \in Conns \ Pipelining :
    rest[c] = <<>> ~>
      \/ answered[c] = Len(sizes[c]) \/ rest[c] # <<>> \/ gone[c]
      \/ ended[c] = "stop" \/ (ended[c] = "limit" /\ TooLong(c))
      \/ (ReadTimeout /\ ended[c] \in {"timeout", "deadline"})

\* When its client hangs up, at whatever point, serveConn finishes; no timeout is
\* needed for it.
HangupEnds == \A c \in Conns : gone[c] ~> pc[c] = "done"

=============================================================================
