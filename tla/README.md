# Verification of pow-challenge-poc

TLA+ modules for the proof-of-work quote server of this repository, the runs
that model-check them with TLC, and proofs, checked by TLAPS, of every safety
property that the runs check. Paths below are relative to the repository.

## 1. The system

The server (`cmd/server`) accepts TCP connections, reads requests that end in a
newline, and answers a *challenge* request with a fresh nonce and a *service*
request, which carries a hashcash header, with a quote if the header is a proof
of work for a nonce the server has given out. The client (`cmd/client`) makes
the two requests and computes the proof in between. `naive/` holds a second,
much smaller server and client with a protocol of their own.

| Component | State it keeps | Operations |
|---|---|---|
| worker pool, `internal/server/workerpool.go` | `ready` (stack of parked workers), `workersCount`, `mustStop`, `stopCh`, a channel per worker | `Start`, `Stop`, `Serve`/`getCh`, `workerFunc`/`release`, `clean` |
| server, `internal/server/server.go` | `open`, `stop`, `concurrency`, `ln`, `done` under `mu` | `Serve`, `acceptConn`, `serveConn`, `ShutdownWithContext`, the two counters' getters |
| request loop, `server.go`, `request.go` | the pools of `bufio.Reader`s, `bufio.Writer`s and contexts, `br`, `bw` and the read deadline of each connection | `serveConn`'s loop, `acquireReader`, `acquireWriter`, `acquireCtx` and their releases, `ReadBody`, `writeErrorResponse` |
| request and response objects, `request.go`, `response.go`, `context.go`, `timer.go`, `nocopy.go` | pooled buffers, each with one goroutine | `Reset`, `CopyTo`, `Write`, ... |
| connections per address, `peripconn.go` | a count per IPv4 address, pooled wrappers | `Register`, `Unregister`, `acquirePerIPConn`, `Close` |
| application, `internal/app/app.go` | none but its storage and parser | `Handler`, `handleChallenge`, `handleService` |
| storage, `internal/storage/memory` | two maps without a lock | `StoreNonce`, `IsExistsNonce`, `StoreHash`, `IsExistsHash` |
| quotes, `internal/app/quote.go` | a list read once | a random choice |
| hashcash, `internal/hashcash` | the counter of a `HashCash`, the window of dates of a `parser` | `New`, `Compute`, `NewParser`, `Parse` |
| programs, `cmd/server`, `cmd/client` | channels between `main`, the signal and `Shutdown` | `main`, `getService` |
| naive programs, `naive/` | a rate limiter, a semaphore | `serveServer`, `handleConnection`, `isValidProof`, `connect`, `solveChallenge` |
| test doubles, `internal/server/testutil` | `stopCh`, two channels and deadlines of a pipe, a pool of buffers that all pipes share; `lock`, `closed`, `conns` of a listener in memory | `Read`, `Write`, `SetDeadline`, `Close`; `Dial`, `Accept`, `Close` |

How they interact. `Server.Serve` is the only caller of the pool's `Start`,
`Serve` and `Stop`; the pool calls back `serveConn` from a worker's goroutine and
closes the connection after it. `serveConn` calls `App.Handler`, so handlers of
different connections run at the same time on the same storage. `Shutdown` runs
in another goroutine and talks to the rest through atomics and by closing the
listener. A connection that is counted per address is wrapped on accept and
uncounted by whoever closes it. `main` of the server waits for `Serve` and then, on
an unbuffered channel, for what a second goroutine gets from `Shutdown` after a
signal. The tests run `Serve` on a listener in memory, whose `Dial` holds the
listener's lock until `Accept` has taken its connection.

What is hard. Sends on channels, two of them with a lock held or just released;
several parties that take workers off one stack; counters kept by atomics in
different goroutines and polled; objects recycled through pools; maps without a
lock; a window of time that is fixed at start-up; a loop that resumes after it
has failed. `PROJECT.json` lists each such hazard at its line, with the
properties that are there for it.

What makes each component correct:

- *pool*: each worker is in one place, gets one message for each wait, and no
  send blocks; the count is right; a connection taken is served and closed;
  `Stop` leaves no worker behind.
- *server*: the counters are exact at every step; `Shutdown` returns, and when it
  does nothing is half served; no accepted connection is forgotten.
- *request loop*: a body reaches the handler whole, a client gets its own responses
  only, what comes from a pool is not shared, waits end.
- *connections per address*: the counts are exact although they are kept through
  recycled wrappers.
- *application*: a quote is earned by a valid proof for a nonce that was issued;
  a proof that was stored before a request looks it up earns no other; a client that asks
  and solves in time gets its quote.
- *server program*: it does not exit from under a connection, and an interrupt ends it.
- *hashcash*: a proof found is the first there is and the server accepts it.
- *naive*: the semaphore is exact, and the accept loop always goes on.
- *test doubles*: what is written arrives once, whole and in order; an EOF has all that
  was sent before the `Close` in front of it; nobody waits for ever; a connection
  that `Dial` returns has been accepted.

## 2. The modules

| Module | Models | Built on |
|---|---|---|
| `ConnDispatch` | what the pool promises `Serve`: it takes connections up to a limit and closes each one it has taken | |
| `WorkerPool` | `workerpool.go` | implements `ConnDispatch` |
| `WorkerPoolProofs` | theorems about `WorkerPool` | `WorkerPool` |
| `Server` | `Serve`, `serveConn` as far as counters and `stop` go, `ShutdownWithContext` | uses `ConnDispatch` for the pool |
| `Program` | `main` of `cmd/server`, the signal, the goroutine that shuts down | `Server` |
| `ServeConn` | the loop of `serveConn`, `ReadBody`, the responses, the pools of readers, writers and contexts | |
| `PerIPConn` | `wrapPerIPConn`, `perIPConnCounter`, `perIPConn` | |
| `App` | `Handler` over the storage in memory | |
| `Session` | `getService` of `cmd/client` | `App` |
| `Hashcash` | `New`, `Compute`, `Parse`, `DefaultParserConfig` | |
| `Naive` | both programs of `naive/` | |
| `PipeConns` | `pipeconns.go`: pipes that share their buffers | |
| `InmemoryListener` | `inmemory_listener.go`, and who may use which end of a pipe when | `PipeConns` |
| `ServerProofs` | theorems about `Server` and `Program` | `Program` |
| `ServeConnProofs` | theorems about `ServeConn` | `ServeConn` |
| `PerIPConnProofs` | theorems about `PerIPConn` | `PerIPConn` |
| `SessionProofs` | theorems about `App` and `Session` | `Session` |
| `HashcashProofs` | theorems about `Hashcash` | `Hashcash` |
| `NaiveProofs` | theorems about `Naive` | `Naive` |
| `InmemoryProofs` | theorems about `PipeConns` and `InmemoryListener` | `InmemoryListener` |
| `MC...` | symmetry sets and values for TLC | the module of that name; `Server`, `Program` and `Naive` need none |

### WorkerPool

The owner goroutine (`owner`, `to`, `offer`) calls `Start`, `Serve` and `Stop`,
as `Server.Serve` does. A `workerChan` and the goroutine that listens on it live
and die together, so both are an element of `Chans`; `pc` says where the
goroutine is, `msg` what the channel holds, `cur` what it serves. `sync.Pool`
hands out any unused element. There is one cleaner per `Start`, with the
`criticalTime` it has read (`crit`) and what is left of its scratch (`tmp`).

A section under `wp.lock` that does not block is one step. `Stop` sends while it
holds the lock, so it takes a step for each send and `Locked` keeps the other
critical sections out. The clock is read outside the lock by `release` (`Finish`)
and by `clean` (`Wake`), and so it is in the model. A send on an unbuffered
channel (`ChanCap = 0`) needs a worker that waits; as only the worker receives
and takes the message at once, such a send is modelled as a slot that the waiting
worker empties. `Expired` is the binary search as the code has it, on stacks that
need not be sorted; its function takes the two bounds as a pair. `mustStop` is never reset, also by a second `Start`.

### Server

One step is one access to `open`, `stop`, `concurrency`, the listener, or `s.ln`
under `s.mu`; `Shutdown` holds `s.mu` from its first step to its last (`MuFree`).
The pool is an instance of `ConnDispatch` with `Loads` the sets of at most
`Concurrency` connections. The pool may refuse a connection at any time
(`ServeRefuse`): its workers may still be on their way back from connections they
have closed already. `AcceptFails` is any permanent error of the listener; after
a temporary one `acceptConn` tries again, which changes nothing. Closing the
listener drops its backlog.

### Program

`main` and the goroutine that waits for the signal are program counters beside the
variables of `Server`; `waitShutdownErr` is unbuffered, so `Receive` is a step of
both. The operations of `Server` are taken over unchanged, each restricted to the time
when the process can take it: none once `main` has left, accepting only while `main`
is in `ServeContext`, `Shutdown` only when the goroutine calls it. As in the program,
`Shutdown` has no deadline and there is no `ReadTimeout`, which is why
`ProgramFairness` has to assume that a client does not stay silent for ever.
`ExitsGracefully` leaves out one result of `Shutdown`, the nil it returns when it finds
no listener yet (see the divergences below), and `InterruptEnds` begins after that
point.

### ServeConn

A byte is `<<k, i>>`, the i-th of the k-th request of its connection, so that a
byte at a wrong place shows. A step is one `Read` of the connection or of the
pooled reader `br`. `Chunk` is what `bufio.Reader.Read` behind `io.LimitReader`
returns: from its buffer, or past it when more is wanted than it holds. `ReadBody`
wraps a second `bufio.Reader` around it, which it drops on return; `InnerSize` is
that reader's size. What `SetDeadline` does depends on `ReadTimeout` and
`IdleTimeout` as in the code. The clients of the repository wait for a response
before they send on; the server does not require that, so `Pipelining` is
the set of the connections whose clients do otherwise.

The response to the k-th body of `c` is `<<c, k>>`, so that one at the wrong client
shows. It is put into the `Response` of the connection's context (`ctx`, `resp`) and
through the pooled writer (`bw`, `wbuf`) to the client (`out`). `Write` is acquire,
write and flush. `WriteBroken` leaves all of it in the writer, which is what a
`bufio.Writer` does after an error; a response cut off in the middle is not told from
one that did not go out. `TellError` is `writeErrorResponse`: after a timeout it has a
text of its own, after another error it writes whatever the `Response` holds. What
a pool hands out is as its last user has left it, and the resets (`ResetBuffer`,
`ResetPending`, `ResetResponse`) are where the code has them: readers and writers
when they are acquired, contexts when they are released. `stop` is raised by a
`Shutdown` and lowered when that returns, as it may at any time, so a loop may
leave because of it or miss it.

### PerIPConn

One goroutine accepts, so at most one connection is between `Accept` and `Wrap`.
`perIPConn.Close` is three steps (socket, counter, pool), taken in the order of
`CloseOrder`. The pool may lose a wrapper at any time, as a `sync.Pool` may.
Addresses that are not IPv4 are 0 and not counted.

### App

Each access to a map begins with one step and ends with the next, so two accesses
may overlap. When they are to one map and one of them writes, this is a data race
and the model allows what the Go runtime may do: it ends the process
("concurrent map writes"), an entry written is lost, or an entry read is missed.
`raced` remembers that an access of the current request was part of a race. After the
look-up of its hash a request waits (`unused`) before it begins to store it
(`BeginStore`), so that two requests with one token can both get past the look-up
without any accesses overlapping; there is no such state between `StoreHash` and
`IsExistsNonce`, which are about different maps. A
request with an empty body panics, as the code goes on with a nil request, and
takes the process down; `Restart` starts it with empty maps. A token is a header;
the result of `Parse` is its `valid`. Nonces are random and 32 bytes long:
`newNonce` draws none twice and a client knows none before it is drawn.

### Session

One client runs `getService` once, on any handler, among clients that may send what
they like, the same nonce included; a header tells by its random part who made it
(`maker`). A connection ends without an answer when the process dies. The text of an
error taken for a challenge has a colon in it, which gives the header a part too many,
so the server will reject it. A dial may fail at any time, also while the server is up.
`spoiled` remembers what may excuse a failure.

### Hashcash

SHA-1 is an arbitrary choice of leading zero bits for every counter, made at the
start. `Loop` is the loop of `Compute`, which a client may call again after
`ErrSolutionFail`; `Verdict` is `Parse`. The header's date is written in local
time and read as UTC (`zone`), and `Window` is `DefaultParserConfig`, fixed when
the process starts. Headers of others have any number of parts that matters, any
date and one of four lengths of date. `New` refuses an empty nonce and changes
nothing, so that is no action; difficulties beyond the length of the hash, which
make `acceptableHeader` panic, are not offered.

### Naive

`Accept`, `OverRate`, `Acquire` are the accept loop, which waits for the semaphore
itself; `Handle` is `handleConnection`, which judges at most one line and gives up
at its deadline. A hash is the bytes the difficulty looks at. `Solve` is the
client of the repository, `Guess` any other. Writes may fail, which the handler
does not look at.

### PipeConns and InmemoryListener

A step is one operation on a channel, on `stopCh` or on the pool of buffers, so a
`Close`, a deadline and the other end come in between. A buffer (`Buffers`) holds the
bytes of one `Write` (`mem`), and `bb` of an end is how much of its buffer is unread:
it points into memory that the pool may hand out again. A deadline has passed or not;
one in the past, one ahead and none differ only in when it passes. Where a `select` has
several cases ready each may be taken. Each end has one goroutine that reads and one
that writes, and sets its own deadlines, as the type's doc asks.

A goroutine dials each pipe. It waits for `ln.lock` where it has not dialed yet, and
`DialSends` to `DialReturns` hold it. `HasEnd` says from when the client and the server
have their ends: the server's is in use before `Dial` returns. The acceptor may leave,
as `Serve` does after an error.

## 3. The runs

`expect: pass`:

| Run | Question | Instance |
|---|---|---|
| `WorkerPool_safety` | Does every worker have one place and one sender, does no send block, are counts and search right, is no connection dropped? | 2 connections, limit 2, 3 workerChans, buffered, 2 starts, time up to 3 |
| `WorkerPool_live` | Does `Stop` drain the pool, does the pool implement `ConnDispatch`, its liveness included, so that every connection is closed? | 3 connections, limit 2, unbuffered, 1 start |
| `Server_run` | Are `open` and `concurrency` exact, does `Shutdown` return and leave nothing half served, is no connection forgotten? | 3 connections, limit 2, contexts that may expire, 2 shutdowns |
| `Program_run` | Does the program exit only when nothing is being served, does an interrupt end it? | 3 connections, limit 2, one interrupt |
| `ServeConn_safety` | Do bodies arrive whole and responses at their own client, with everything recycled, and what holds for a client that does not wait? | 2 connections, one of them pipelining, 2 requests each, bodies of 0 and 2 bytes, limit 4, buffers of 3 and 2 |
| `ServeConn_answer` | Without timeouts, is every complete request answered that is not too long, does a hangup end the connection? | 1 connection, 3 requests, bodies of 0, 2, 3 and 4 bytes, limit 3 |
| `PerIPConn_safety` | Are the counts exact, is the limit kept, are wrappers private? | 4 connections, 2 counted addresses and one that is not, limit 2 |
| `Session_run` | Which quotes are given, in any race and over a restart, and does a client that solves its challenge get one? | 2 handlers, 2 nonces, 2 makers of headers, 1 restart, no further than a failure of the client |
| `Hashcash_safety` | Is the first proof found and accepted? | 4 counters, limit 3, times 0 to 6, three zones |
| `Naive_run` | Is the semaphore exact, does the accept loop go on? | 3 connections, semaphore 1 |
| `Inmemory_run` | Does what is written arrive, before an EOF, does every wait end, does `Dial` return what was accepted and `Close` of the listener return? | 2 dials, 1 `Close` of the listener, 2 `Write`s of 2 bytes on one pipe, a channel of 1, 2 buffers |

`expect: violation`, a place where the code does not do what a comment says:

| Run | What it shows |
|---|---|
| `Hashcash_fresh` | a process that is up for two days rejects every new header as expired |

Other places where the code and its comments, or two parts of it, differ. The models
have them as the code does; no run states them.

- `server.go:223`: a `Shutdown` before `Serve` has set `s.ln` returns nil and resets `stop`,
  and `Serve` goes on, although the doc says that `Serve` returns. The program then
  serves on after an interrupt; `Program` names the case as `result = "early"`.
- `server.go:250`: a `Shutdown` whose context expires leaves `s.ln` nil and `stop` lowered:
  connections are served on, and a second `Shutdown` returns nil at once, although
  `server.go:206` says that it waits for all of them. `NothingInterrupted` is about a
  `Shutdown` that has closed the listener, and leaves that nil out.
- `app.go:105`: two requests with the same header can both look its hash up before either
  stores it (`app.go:113`), and both get a quote. `ReplayRefused` is about headers stored
  before the look-up.
- `workerpool.go:196`: `release` reads the clock before it takes the lock, so with three
  workers the stack may be out of order and `clean` may stop a worker that was idle for
  less than `maxIdleWorkerDuration`. `SearchExact` assumes a sorted stack.
- `pipeconns.go:121`: a `Write` that has looked at `stopCh` may send after a `Close`, so a
  reader may be given data after an EOF. `EOFAfterAll` is about what was sent before.
- `pipeconns.go:186`: a `Read` that waits keeps the deadline channel it has begun with, so
  a deadline set meanwhile by another goroutine to a time in the past does not wake it.
  The model leaves that call out, as the type's doc does.
- `server.go:322`: after `Shutdown`, `open` is 0 and `stop` is reset, so `GetOpenConnectionsCount`,
  which takes off the one that `Serve` counts for itself, returns -1.
- `request.go:57`: a body of exactly `MaxRequestBodySize` is rejected, as the newline
  counts, although `server.go:100` says "The server rejects requests with bodies exceeding
  this limit." `RequestsAnswered` asks for an answer only below the limit (`TooLong`
  has `>=`), and with `>` the run would refute it.
- `server.go:396`: an `IdleTimeout` without a `ReadTimeout` ends nothing: `serveConn`
  removes the deadline and never sets one.
- `parser.go:70`: a date of an unknown length gives `ErrExpiredTimestamp`, not
  `ErrInvalidHeader`.
- `hashcash.go:71`: for 22 bits `Compute` is content with 20, as it compares hex digits.
- `naive/server/server.go:160`: at difficulty 16 the server asks for eight zero bits
  more than the client computes, so it refuses most of the client's proofs; at a difficulty
  that is no number of bytes it accepts hashes that have too few zero bits. The theorems
  `ServerStricter` and `ServerLaxer` say so for every difficulty.

Every property of a passing run has a mutant in `PROJECT.json`: an operator that
changes one mapped definition as a bug would, under which the property fails.

`TypeOK` of the pool is checked and proved; that of each other module is proved, and no
run spends time on it.

### Bounds, and why they are enough

For the invariants and for `NoConnDropped` the bounds of a run only matter to what TLC
says: section 4 proves them for every value of the constants. They matter for the
liveness properties, and they have to let each mutant show.

- *Workers and connections.* Two workers are the least that can be parked out of
  order or be claimed by two parties; the third workerChan lets `sync.Pool` hand out
  another than was returned. Three workers are needed for an unsorted stack on which
  the search goes wrong. With more connections than workers the limit binds.
- *Time* (`MaxTime`). Idle time is 1, so a cleaner can be early, on time and late.
- *Starts* (`MaxStarts = 2`). A second `Start` has two cleaners at work at once.
- *Server.* Three connections: two served at once and one refused or left in the
  listener's backlog; two shutdowns, so that one comes after another has expired.
- *ServeConn.* With its newline a body is 1 or 3 bytes. Where a client waits, the
  interesting cases are how a body falls into pieces: any number of bytes may have
  arrived, and both buffers fill and overflow. Where it does not, two requests together
  are longer than either buffer, so that bytes of the second are left in `br`, lost
  in the inner reader, or both. In `ServeConn_answer` bodies lie just below the limit
  of three bytes, at it and beyond it, after shorter ones that were answered: those of
  two bytes must be answered, the longer ones are rejected. One connection is enough there:
  connections share nothing but the pools, and `PooledPrivate` shows in the other run
  that what comes from a pool is private. Two of each pooled object for two connections
  that begin and end in any order let a second one get what the first has left.
- *Program.* One interrupt, which is all that `main` looks at.
- *PerIPConn.* Four connections exceed the limit of two for one address while another
  address takes over a wrapper.
- *Naive.* Three connections for a semaphore of one: one is handled, the accept loop
  waits with the second, and the third is behind it.
- *Session.* Two handlers are enough for a race, of the client with another or of two
  others; two nonces for a token with a nonce that was lost next to one that was not;
  one restart is enough to forget. The client runs once, and headers that do not pass
  are not told apart by their nonce. What the others do after the client has failed is not
  followed (`NotFailed`): they can do the same before the client begins.
- *Inmemory.* A channel of one buffer (four in the code) is full with the first `Write`,
  so the second waits. Two buffers are enough for two `Write`s and are used again when
  the reader is quick. A `Read` of one byte leaves a rest, one of three goes over the end
  of a `Write`. The second pipe is only dialed, to hold the lock; one direction of the
  first is used, as the other is the same code on the other channel.
- *Hashcash.* `MaxIterations` is 3 so that `Compute` fails, and is called again. Days
  are two units long, `Past` and `Future` 3 and 4: a date can lie before, in and after
  the window, and time goes beyond it.
- *Deadlock* is checked for the pool, whose only terminal state is `Halted`. The other
  systems may stop: their clients need not go on, and their bounds run out. What must
  not stop there is stated as a liveness property.

### Fairness

Goroutines are scheduled fairly, which the Go scheduler provides: weak fairness of
each goroutine's steps. An operation that was begun is carried through; nobody has to
begin one: no connection need be offered, no client need send, and `Shutdown` need not
be called. In the pool a connection's `WorkerFunc` is assumed to return, which
`ServeConn` shows after a hangup (`HangupEnds`). In `Program` a client hangs up or asks
on: without a `ReadTimeout` the code waits for it for ever.
A deadline that is set passes (`TimesOut`; `ReadFails` with a `ReadTimeout`;
`ScanEnds`). An acceptor that is there accepts.
Strong fairness is assumed of one lock, that of the listener in memory: a Go mutex starves
nobody. It is not needed in the pool: while `Stop` holds the lock it needs
no other party, because no send of it blocks. That a handler of `App` returns is taken
as given by `Server` and `ServeConn`; it makes at most three map accesses and waits for
nothing.

## 4. What is proved

Every invariant of a passing run, the action property `NoConnDropped`, every `TypeOK`,
and four statements that one specification implements another, for every value of the
constants that the named assumption of the module allows. The proofs rest on these
assumptions alone:

| Assumption | Says |
|---|---|
| `PoolAssumption` | the workerChans are finitely many, at least `MaxWorkersCount`; `ChanCap` is 0 or 1; the marks `Nil` and `None` are no connections or channels |
| `ServerAssumption` | finitely many connections, a limit of at least 1 |
| `ProgramAssumption` | how the program uses its server: no read timeout, no deadline of `Shutdown`, which is called once |
| `ServeConnAssumption` | buffers and the limit of a body are of at least one byte; `None` is no connection or pooled object |
| `PerIPConnAssumption` | finitely many connections, which are no wrappers; addresses are numbers; a limit of at least 1 |
| `AppAssumption`, `SessionAssumption` | `None` is no nonce or handler; the client is one of the makers of headers |
| `HashcashAssumption` | the bounds are numbers, at least one iteration, days of at least one unit; `None` is no `HashCash` |
| `NaiveAssumption` | the semaphore has room for one; bytes are 0 to 255; `None` is no connection |
| `PipeAssumption` | finitely many buffers; a channel, a `Write` and a `Read` are of at least one; `None` is no pipe or buffer |

The sets of connections of `ServeConn` and `Naive`, the handlers, nonces and makers of
`App` and the pipes may be infinite.

| Module | Theorem | States |
|---|---|---|
| `WorkerPoolProofs` | `Invariance`, `TypeCorrect` | `IInv`, `TypeOK`: at most `MaxWorkersCount` workers |
| | `CountCorrect` | `CountExact` |
| | `NoneStranded`, `HandOffCorrect` | `NoWorkerStranded`, `OneSender` |
| | `SearchCorrect` | `SearchExact` |
| | `StopCorrect`, `SendsDoNotBlock` | `NoneParkedAfterStop`, `SendsNeverBlock` |
| | `ConnsNotDropped` | `NoConnDropped`, an action property |
| | `PoolImplementsDispatch` | the safety part of `ConnDispatch` |
| `ServerProofs` | `Invariance`, `TypeCorrect` | `IInv`, `TypeOK` of `Server` |
| | `CountsCorrect`, `ShutdownGraceful` | `CountsExact`, `NothingInterrupted` |
| | `PoolUsed` | what `Server` does to the pool is the safety part of `ConnDispatch` |
| | `ProgramRunsServer` | a behaviour of `Program` is one of `Server` |
| | `ProgramInvariance`, `GracefulExit` | `ProgInv`, `ExitsGracefully` |
| `ServeConnProofs` | `Invariance`, `TypeCorrect` | `IInv`, `TypeOK` |
| | `PooledCorrect`, `ResponsesCorrect` | `PooledPrivate`, `ResponsesOwn` |
| | `BodiesCorrect`, `TailsCorrect` | `BodiesIntact`, `BodiesAreTails` |
| `PerIPConnProofs` | `Invariance`, `TypeCorrect` | `IInv`, `TypeOK` |
| | `CountersCorrect`, `WrappersCorrect`, `LimitCorrect` | `CountersExact`, `WrappersPrivate`, `LimitKept` |
| `SessionProofs` | `AppInvariance`, `AppTypeCorrect` | `AppInv`, `TypeOK` of `App` |
| | `QuotesCorrect`, `ReplayCorrect` | `QuotesEarned`, `ReplayRefused` |
| | `SessionRunsApp` | a behaviour of `Session` is one of `App` |
| | `SessionInvariance`, `SolversCorrect` | `SessionInv`, `SolversServed` |
| `HashcashProofs` | `Invariance`, `TypeCorrect` | `IInv`, `TypeOK` |
| | `FirstCorrect`, `OwnCorrect`, `FutureCorrect` | `FirstSolution`, `OwnProofAccepted`, `NoneFromFuture` |
| `NaiveProofs` | `Invariance`, `TypeCorrect` | `IInv`, `TypeOK` |
| | `SemCorrect` | `SemExact` |
| | `ServerStricter`, `ServerLaxer` | how `IsValidProof` and `CheckDifficulty` differ, at whole bytes and otherwise |
| `InmemoryProofs` | `Invariance`, `TypeCorrect` | `IInv`, `TypeOK` with `PipeTypeOK` |
| | `StreamsCorrect`, `EOFCorrect`, `DialCorrect` | `StreamIntact`, `EOFAfterAll`, `DialMeansAccepted` |

Each module has one inductive invariant, a conjunction of named parts; there is a lemma
for each operation, or for each group of them that does the same to a part; the
theorems follow from the invariant. What the parts are, and why the property alone
would not do:

- *Worker pool.* That a send does not block needs that the receiver waits and that
  nobody else has sent; that nobody else has sent needs that each worker is in only one
  of four places: on the stack, the owner's, in one cleaner's scratch, or with a message
  in its channel. `IInv` is the types, the exact count, `NoWorkerStranded` (a worker waits
  exactly while it is in one of the places), `OneSender` (it is in one only, and once),
  `NoneParkedAfterStop`, and `ControlPoints` (which fields are set at which program
  counters). The lemmas under them are about popping, pushing and splitting a sequence
  without repetitions (`ContainsFront`, `ContainsTail`, `ContainsAppend`,
  `ContainsSplit`). The proof of refinement adds `HeldStep` and `HeldBound`: a
  connection held is held by a worker that lives, so there are never more than
  `workersCount`.
- *Server.* The counts are cardinalities of sets of connections at certain places, so
  each action needs what it does to those sets. `NothingInterrupted` needs `ListenerShut`:
  while `Shutdown` waits nothing can be accepted, so that the count it sees at zero stays
  there. `Program` adds where the goroutine of `Shutdown` is and what `Shutdown` has done
  by then (`ShutterState`, `ExitState`).
- *Request loop.* `PooledPrivate` is needed by all the others: a step of one connection
  leaves the objects of another alone. For the responses it is joined by `Clean`: while
  the loop goes on nothing is left in the writer or the context. For the bodies the
  invariant speaks of one sequence, `Stream(c)`: what is in `raw`, in the pooled reader, on the
  wire and still to be sent. A read moves bytes within it or takes them off its front, which `StreamStep`
  states once (`Unmoved`, `Composed`, `Took`); of a client that waits it is one whole
  request or nothing (`Whole`), of any client it consists of ends of requests in order (`TailInv`).
- *Connections per address.* The count goes by the address in a wrapper, so it is exact only
  if the wrapper is the connection's own, and is not made a second time (`WrappersPrivate`,
  `NoneMadeTwice`); and at most one connection is between accept and wrap (`OneAccepted`).
- *Application.* What a handler has found out must still hold when it uses it, or the
  request must have raced: `HandlerInv` says what each of its program counters knows.
  `SpentKnown` carries a used token over a restart: it is in the map, or its nonce is not
  one of this process. For `SolversServed`, `MakersKept` says that nobody has the
  client's header before it sends it.
- *Hashcash.* `Tested`: every counter below that of the `HashCash` has been tried in
  vain, also by earlier calls. `WindowFixed`: how far the window can be from the clock.
- *Naive.* Who waits for a token is who was accepted (`Waiting`).
- *In memory.* That a `Read` copies what was written needs that no other `Write` has the
  buffer: `InUseOnce` says that each buffer is in the pool or in one place of all
  channels and ends. `AtWork` says what an operation under way has. `LockHeld` says
  that the channel of the listener holds no other connection than that of the `Dial` with the lock.

*Recursive definitions.* What the search of `clean` and the loop of `Compute` return is
proved for every input, although the library's induction theorems cannot be used with
the installed provers. A function in closed form is shown to satisfy the recursion
(`Within`, `End`), and then no other does: if they differed somewhere they would differ
at a least number of steps (`LeastNatural`, from `NatLessThanWellFounded` and `WFMin`),
which the definition refutes. No module that is proved about has a `RECURSIVE`
operator; `StreamIntact` says for each byte what it is, and so needs none.

*Only model-checked.* Liveness, as the prover has no `ENABLED`: `StopDrains` and
the liveness part of `ConnDispatch` (in `ImplementsDispatch`), `ShutdownReturns`,
`ServeReturns`, `AcceptedNotForgotten`, `RequestsAnswered`, `HangupEnds`,
`InterruptEnds`, `WaitsEnd`, `ListenerCloses` and `AcceptsGoOn`. The
theorems that one specification implements another are about their safety parts.

## 5. Plan

Modelling is done up to section 6, and so are the proofs that the prover can do; every change to
a module needs the proofs of its module again. What could be added is a specification of
`WorkerPool` and `Server` together, with a theorem that each gives the other what it
assumes, in place of the two theorems about `ConnDispatch`.

## 6. What is not modelled, and why

- `quote.go`, logging, wording of responses: no state, or no property depends on it.
- Of `RequestContext`, `Request` and `Response` only what `serveConn` does with them:
  `timeoutResponse` is never set, `firstByteReader`, `CopyTo` and `AppendBody` have no
  caller that runs, and the getters change nothing.
- Write deadlines: a response is written or fails.
- `LocalAddr`, `RemoteAddr` and `SetAddresses` of the test doubles.
- `sync.Pool`, `net`, `bufio` and `rate.Limiter` are modelled as they are used, and are
  marked external in the map where a definition stands for them alone.
- The collision resistance of SHA-1 and the randomness of nonces are assumptions.
- A data race on a map is limited to the outcomes named above.
- `Serve` without `ServeContext` (a nil `globalContext`), which the program never calls.
- An error of `ln.Close` in `Program` is modelled (`main` panics); a failure of the
  process from outside is not, as nothing is kept over it.
