----------------------------- MODULE WorkerPool -----------------------------
(***************************************************************************)
(* The worker pool of internal/server/workerpool.go: an owner goroutine    *)
(* (Server.Serve) hands connections to worker goroutines, each parked on   *)
(* the channel of its own workerChan; a cleaner goroutine retires workers  *)
(* that have been idle too long; Stop retires the rest.                    *)
(*                                                                         *)
(* Sections of the code that run under wp.lock and neither block nor       *)
(* release it are one atomic step.  Stop is the exception: it sends on     *)
(* channels while it holds the lock, so it takes a step per send and every *)
(* other critical section waits for it (guard ~Locked).                    *)
(*                                                                         *)
(* A worker goroutine and its workerChan live and die together, so both    *)
(* are named by an element of Chans; sync.Pool's Get returns an arbitrary  *)
(* workerChan nobody uses.                                                 *)
(***************************************************************************)
EXTENDS Integers, FiniteSets, Sequences, SequencesExt

CONSTANTS
  Conns,            \* connections; one that was closed may be offered again
  Chans,            \* workerChan objects
  MaxWorkersCount,
  ChanCap,          \* workerChanCap: 0 if GOMAXPROCS = 1, otherwise 1
  MaxIdle,          \* MaxIdleWorkerDuration, in ticks
  MaxTime,          \* bound: the clock stops here
  MaxStarts,        \* bound: how often the pool is started
  Nil,              \* the nil connection that tells a worker to stop
  None              \* no connection, no channel

ASSUME PoolAssumption ==
  /\ IsFiniteSet(Chans)
  /\ MaxWorkersCount \in Nat
  /\ Cardinality(Chans) >= MaxWorkersCount
  /\ ChanCap \in {0, 1}
  /\ MaxIdle \in Nat \ {0}
  /\ MaxTime \in Nat
  /\ MaxStarts \in Nat
  /\ Nil \notin Conns
  /\ None \notin Conns \cup Chans \cup {Nil}

Cleaners == 1..MaxStarts      \* the goroutine Start spawns, one per Start
Time     == 0..MaxTime

VARIABLES
  ready,            \* wp.ready, the stack of parked workers
  workersCount,     \* wp.workersCount
  mustStop,         \* wp.mustStop
  started,          \* wp.stopCh # nil
  starts,           \* number of Start calls that spawned a cleaner
  owner,            \* where the goroutine that calls Start, Serve, Stop is
  to, offer,        \* Serve's ch and c while it sends, None otherwise
  pc,               \* where each worker goroutine is
  msg,              \* what each ch.ch holds; None when it is empty
  cur,              \* the connection each worker serves
  lastUse,          \* ch.lastUseTime
  cleaner,          \* where each cleaner goroutine is
  crit,             \* each cleaner's criticalTime
  tmp,              \* the part of each cleaner's scratch still to notify
  now               \* the clock

ownerVars   == <<started, starts, owner, to, offer>>
workerVars  == <<pc, msg, cur, lastUse>>
cleanerVars == <<cleaner, crit, tmp>>
lockVars    == <<ready, workersCount, mustStop>>
vars == <<ownerVars, workerVars, cleanerVars, lockVars, now>>

TypeOK ==
  /\ ready \in Seq(Chans)
  /\ workersCount \in 0..MaxWorkersCount
  /\ mustStop \in BOOLEAN
  /\ started \in BOOLEAN
  /\ starts \in 0..MaxStarts
  /\ owner \in {"idle", "send", "stop", "notify"}
  /\ to \in Chans \cup {None}
  /\ offer \in Conns \cup {None}
  /\ pc \in [Chans -> {"absent", "recv", "serve", "release", "exit"}]
  /\ msg \in [Chans -> Conns \cup {Nil, None}]
  /\ cur \in [Chans -> Conns \cup {None}]
  /\ lastUse \in [Chans -> Time]
  /\ cleaner \in [Cleaners -> {"off", "sleep", "clean", "notify", "done"}]
  /\ crit \in [Cleaners -> Int]
  /\ tmp \in [Cleaners -> Seq(Chans)]
  /\ now \in Time

Init ==
  /\ ready = <<>>
  /\ workersCount = 0
  /\ mustStop = FALSE
  /\ started = FALSE
  /\ starts = 0
  /\ owner = "idle"
  /\ to = None
  /\ offer = None
  /\ pc = [ch \in Chans |-> "absent"]
  /\ msg = [ch \in Chans |-> None]
  /\ cur = [ch \in Chans |-> None]
  /\ lastUse = [ch \in Chans |-> 0]
  /\ cleaner = [g \in Cleaners |-> "off"]
  /\ crit = [g \in Cleaners |-> 0]
  /\ tmp = [g \in Cleaners |-> <<>>]
  /\ now = 0

-----------------------------------------------------------------------------
(* Helpers *)

\* wp.lock is held across steps only by Stop.
Locked == owner = "notify"

\* A connection the pool has taken and not yet closed.
Held(c) == offer = c \/ \E ch \in Chans : msg[ch] = c \/ cur[ch] = c

\* A send on ch.ch goes through: a slot is free, or the receiver is waiting.
CanSend(ch) == msg[ch] = None /\ (ChanCap = 0 => pc[ch] = "recv")

Send(ch, m) == CanSend(ch) /\ msg' = [msg EXCEPT ![ch] = m]

\* Sends the nil that stops a worker; the cleaner and Stop do it.
SendStop(ch) == Send(ch, Nil) /\ UNCHANGED <<pc, cur, lastUse>>

\* criticalTime.After(lastUseTime)
BeforeOrAt(ch, time) == lastUse[ch] <= time
Before(ch, time) == lastUse[ch] < time

\* clean's binary search: how many workers at the bottom of the stack it takes
\* for expired.  It returns their number only if the stack is sorted.
Expired(s, time) ==
  LET search[at \in (0..Len(s)) \X (-1..Len(s) - 1)] ==
        LET l   == at[1]
            r   == at[2]
            mid == (l + r) \div 2
        IN  IF l > r
            THEN r + 1
            ELSE IF Before(s[mid + 1], time)
                 THEN search[<<mid + 1, r>>]
                 ELSE search[<<l, mid - 1>>]
  IN  search[<<0, Len(s) - 1>>]

\* The stopCh a cleaner was started with has been closed.
StopClosed(g) == g < starts \/ ~started

-----------------------------------------------------------------------------
(* The owner: Start, Serve and Stop, one after the other *)

Start ==
  /\ owner = "idle"
  /\ ~started
  /\ starts < MaxStarts
  /\ started' = TRUE
  /\ starts' = starts + 1
  /\ cleaner' = [cleaner EXCEPT ![starts + 1] = "sleep"]
  /\ UNCHANGED <<owner, to, offer, crit, tmp, workerVars, lockVars, now>>

\* Serve has chosen ch for c and goes on to send.
Address(ch, c) ==
  /\ to' = ch
  /\ offer' = c
  /\ owner' = "send"
  /\ UNCHANGED <<started, starts, cleanerVars, mustStop, now>>

PeekReady == UNCHANGED ready
PopReady  == ready' = Front(ready)

\* getCh pops the most recently parked worker.
ServeReady(c) ==
  /\ ready # <<>>
  /\ PopReady
  /\ Address(Last(ready), c)
  /\ UNCHANGED <<workersCount, workerVars>>

AnyRoom == TRUE
HasRoom == workersCount < MaxWorkersCount

\* getCh starts a worker on a workerChan from the pool.
ServeNew(c) ==
  /\ ready = <<>>
  /\ HasRoom
  /\ \E ch \in Chans :
       /\ pc[ch] = "absent"
       /\ pc' = [pc EXCEPT ![ch] = "recv"]
       /\ Address(ch, c)
  /\ workersCount' = workersCount + 1
  /\ UNCHANGED <<ready, msg, cur, lastUse>>

\* With no parked worker and no room getCh returns nil, Serve returns false and
\* nothing changes, so refusal is no action here.
Serve(c) ==
  /\ owner = "idle"
  /\ started
  /\ ~Held(c)
  /\ ServeReady(c) \/ ServeNew(c)

SendConn ==
  /\ owner = "send"
  /\ Send(to, offer)
  /\ owner' = "idle"
  /\ to' = None
  /\ offer' = None
  /\ UNCHANGED <<started, starts, pc, cur, lastUse, cleanerVars, lockVars, now>>

\* Stop closes stopCh, then takes the lock ...
StopClose ==
  /\ owner = "idle"
  /\ started
  /\ started' = FALSE
  /\ owner' = "stop"
  /\ UNCHANGED <<starts, to, offer, workerVars, cleanerVars, lockVars, now>>

StopLock ==
  /\ owner = "stop"
  /\ owner' = "notify"
  /\ UNCHANGED <<started, starts, to, offer, workerVars, cleanerVars, lockVars, now>>

\* ... sends nil to the parked workers in turn ...
StopSend ==
  /\ owner = "notify"
  /\ ready # <<>>
  /\ SendStop(Head(ready))
  /\ ready' = Tail(ready)
  /\ UNCHANGED <<ownerVars, cleanerVars, workersCount, mustStop, now>>

\* ... and raises mustStop before it unlocks.
StopDone ==
  /\ owner = "notify"
  /\ ready = <<>>
  /\ mustStop' = TRUE
  /\ owner' = "idle"
  /\ UNCHANGED <<started, starts, to, offer, workerVars, cleanerVars, ready, workersCount, now>>

Stop == StopClose \/ StopLock \/ StopSend \/ StopDone

-----------------------------------------------------------------------------
(* A worker: workerFunc *)

StopSignOrStopping(m) == m = Nil \/ mustStop
StopSign(m) == m = Nil

\* for c = range ch.ch { if c == nil { break } ...
Receive(ch) ==
  /\ pc[ch] = "recv"
  /\ msg[ch] # None
  /\ msg' = [msg EXCEPT ![ch] = None]
  /\ \/ /\ StopSign(msg[ch])
        /\ pc' = [pc EXCEPT ![ch] = "exit"]
        /\ UNCHANGED cur
     \/ /\ ~StopSign(msg[ch])
        /\ pc' = [pc EXCEPT ![ch] = "serve"]
        /\ cur' = [cur EXCEPT ![ch] = msg[ch]]
  /\ UNCHANGED <<lastUse, ownerVars, cleanerVars, lockVars, now>>

\* WorkerFunc returns, the connection is closed, and release reads the clock
\* before it asks for the lock.
Finish(ch) ==
  /\ pc[ch] = "serve"
  /\ pc' = [pc EXCEPT ![ch] = "release"]
  /\ cur' = [cur EXCEPT ![ch] = None]
  /\ lastUse' = [lastUse EXCEPT ![ch] = now]
  /\ UNCHANGED <<msg, ownerVars, cleanerVars, lockVars, now>>

ForgetToPark(ch) ==
  /\ UNCHANGED ready
  /\ pc' = [pc EXCEPT ![ch] = "recv"]
Park(ch) ==
  /\ ready' = Append(ready, ch)
  /\ pc' = [pc EXCEPT ![ch] = "recv"]

NeverRetire == FALSE
MustRetire == mustStop

\* The rest of release.
Release(ch) ==
  /\ pc[ch] = "release"
  /\ ~Locked
  /\ \/ /\ MustRetire
        /\ pc' = [pc EXCEPT ![ch] = "exit"]
        /\ UNCHANGED ready
     \/ /\ ~MustRetire
        /\ Park(ch)
  /\ UNCHANGED <<msg, cur, lastUse, ownerVars, cleanerVars, workersCount, mustStop, now>>

KeepCount == UNCHANGED workersCount
DropCount == workersCount' = workersCount - 1

\* workerFunc returns; the goroutine puts the workerChan back into the pool.
Exit(ch) ==
  /\ pc[ch] = "exit"
  /\ ~Locked
  /\ DropCount
  /\ pc' = [pc EXCEPT ![ch] = "absent"]
  /\ UNCHANGED <<msg, cur, lastUse, ownerVars, cleanerVars, ready, mustStop, now>>

Worker(ch) == Receive(ch) \/ Finish(ch) \/ Release(ch) \/ Exit(ch)

-----------------------------------------------------------------------------
(* A cleaner: the loop of Start and clean *)

\* clean computes criticalTime before it asks for the lock.
Wake(g) ==
  /\ cleaner[g] = "sleep"
  /\ cleaner' = [cleaner EXCEPT ![g] = "clean"]
  /\ crit' = [crit EXCEPT ![g] = now - MaxIdle]
  /\ UNCHANGED <<tmp, ownerVars, workerVars, lockVars, now>>

\* Mutant of Take: the stack keeps what the cleaner took.
TakeCopy(g, k) ==
  /\ tmp' = [tmp EXCEPT ![g] = SubSeq(ready, 1, k)]
  /\ UNCHANGED ready

\* The bottom k workers leave the stack and become the cleaner's to notify.
Take(g, k) ==
  /\ tmp' = [tmp EXCEPT ![g] = SubSeq(ready, 1, k)]
  /\ ready' = SubSeq(ready, k + 1, Len(ready))

Clean(g) ==
  /\ cleaner[g] = "clean"
  /\ ~Locked
  /\ cleaner' = [cleaner EXCEPT ![g] = "notify"]
  /\ \E k \in 0..Len(ready) : k = Expired(ready, crit[g]) /\ Take(g, k)
  /\ UNCHANGED <<crit, ownerVars, workerVars, workersCount, mustStop, now>>

\* The notifications are sent outside the lock.
Notify(g) ==
  /\ cleaner[g] = "notify"
  /\ tmp[g] # <<>>
  /\ SendStop(Head(tmp[g]))
  /\ tmp' = [tmp EXCEPT ![g] = Tail(@)]
  /\ UNCHANGED <<cleaner, crit, ownerVars, lockVars, now>>

\* clean has returned: the select on stopCh, then sleep or return.
Check(g) ==
  /\ cleaner[g] = "notify"
  /\ tmp[g] = <<>>
  /\ cleaner' = [cleaner EXCEPT ![g] = IF StopClosed(g) THEN "done" ELSE "sleep"]
  /\ UNCHANGED <<crit, tmp, ownerVars, workerVars, lockVars, now>>

Cleaner(g) == Wake(g) \/ Clean(g) \/ Notify(g) \/ Check(g)

-----------------------------------------------------------------------------
Tick == now < MaxTime /\ now' = now + 1
        /\ UNCHANGED <<ownerVars, workerVars, cleanerVars, lockVars>>

\* The pool was stopped for the last time and every goroutine has returned.
Halted ==
  /\ owner = "idle" /\ ~started /\ starts = MaxStarts
  /\ \A ch \in Chans : pc[ch] = "absent"
  /\ \A g \in Cleaners : cleaner[g] \in {"off", "done"}
  /\ UNCHANGED vars

Next ==
  \/ Start
  \/ \E c \in Conns : Serve(c)
  \/ SendConn
  \/ Stop
  \/ \E ch \in Chans : Worker(ch)
  \/ \E g \in Cleaners : Cleaner(g)
  \/ Tick
  \/ Halted

\* Goroutines are scheduled fairly, a Stop that began is carried through, and
\* WorkerFunc returns.  Nobody has to offer a connection or to call Stop.
Fairness ==
  /\ WF_vars(SendConn)
  /\ WF_vars(StopLock) /\ WF_vars(StopSend) /\ WF_vars(StopDone)
  /\ \A ch \in Chans : WF_vars(Worker(ch))
  /\ \A g \in Cleaners : WF_vars(Cleaner(g))

Spec     == Init /\ [][Next]_vars
FairSpec == Spec /\ Fairness

-----------------------------------------------------------------------------
(* Properties *)

\* A worker waits on its channel exactly while a message is under way to it or
\* somebody is bound to send one: no worker goroutine is leaked, and nothing is
\* sent to a workerChan whose worker serves a connection or has returned.
NoWorkerStranded ==
  \A ch \in Chans :
    pc[ch] = "recv" <=> \/ Contains(ready, ch)
                        \/ to = ch
                        \/ \E g \in Cleaners : Contains(tmp[g], ch)
                        \/ msg[ch] # None

\* Of the stack, the owner, the cleaners and the channel itself at most one has
\* a claim to a worker, and only one: no worker gets two messages.
OneSender ==
  /\ IsInjective(ready)
  /\ \A g \in Cleaners : IsInjective(tmp[g])
  /\ \A ch \in Chans : Contains(ready, ch) => to # ch /\ msg[ch] = None
  /\ \A ch \in Chans : to = ch => msg[ch] = None
  /\ \A g \in Cleaners, ch \in Chans :
       Contains(tmp[g], ch) => /\ ~Contains(ready, ch)
                               /\ to # ch
                               /\ msg[ch] = None
                               /\ \A h \in Cleaners \ {g} : ~Contains(tmp[h], ch)

\* No send of the pool ever has to wait for a worker, whatever ChanCap is: Stop,
\* which sends with the lock held, cannot wait for a worker that needs the lock.
SendsNeverBlock ==
  /\ owner = "send" => CanSend(to)
  /\ Locked /\ ready # <<>> => CanSend(Head(ready))
  /\ \A g \in Cleaners : tmp[g] # <<>> => CanSend(Head(tmp[g]))

\* workersCount, which getCh compares with the limit, counts the live workers.
CountExact == workersCount = Cardinality({ch \in Chans : pc[ch] # "absent"})

\* Once Stop is done no worker parks itself any more, so none is left waiting
\* for a stop message that nobody will send.
NoneParkedAfterStop == mustStop => ready = <<>>

\* clean's binary search over the stack finds exactly the workers last used
\* before the critical time, provided the stack is sorted by lastUseTime.
SearchExact ==
  \A time \in Time :
    (\A i, j \in 1..Len(ready) : i < j => lastUse[ready[i]] <= lastUse[ready[j]])
      => Expired(ready, time) = Cardinality({i \in 1..Len(ready) : lastUse[ready[i]] < time})

\* A connection that Serve has taken leaves the pool only when the worker that
\* served it closes it; Stop and the cleaner in between drop none.
NoConnDropped ==
  [][\A c \in Conns : Held(c) /\ ~Held(c)' =>
       \E ch \in Chans : cur[ch] = c /\ pc[ch] = "serve" /\ pc'[ch] = "release"]_vars

\* After the last Stop all workers and all cleaners return.
StopDrains ==
  (mustStop /\ ~started /\ starts = MaxStarts)
    ~> [](workersCount = 0 /\ \A g \in Cleaners : cleaner[g] = "done")

\* The pool implements the dispatcher that Server.Serve relies on: it takes a
\* connection only while it holds fewer than MaxWorkersCount, and closes every one
\* it has taken eventually, also when Stop or the cleaner come in between.
Loads == {S \in SUBSET Conns : Cardinality(S) <= MaxWorkersCount}
Dispatched == {c \in Conns : Held(c)}
Dispatch == INSTANCE ConnDispatch WITH held <- Dispatched
ImplementsDispatch == Dispatch!Spec

=============================================================================
