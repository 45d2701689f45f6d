----------------------------- MODULE PipeConns -----------------------------
(***************************************************************************)
(* The pipes in memory of internal/server/testutil/pipeconns.go: two ends, *)
(* a channel of buffers in each direction, deadlines, and a Close that     *)
(* either end may call at any time.  An end has one goroutine that reads   *)
(* and one that writes, as its doc asks.  All pipes share byteBufferPool.  *)
(*                                                                         *)
(* A step is one operation on a channel, on stopCh or on the pool.  A Write*)
(* is of MsgSize bytes; byte i of the k-th Write at an end is <<end, k, i>>*)
(***************************************************************************)
EXTENDS Integers, Sequences, FiniteSets

CONSTANTS
  Pipes, Buffers,   \* pipes; byteBuffers, enough for all that are in use at once
  ChanCap,          \* the capacity of the channels, 4 in the code
  MsgSize,          \* the length of what is written at once
  ReadSizes(_),     \* the lengths of the slices an end gives to Read
  Writes(_),        \* bound: how often an end writes
  DeadlineEnds,     \* the ends that set deadlines, <<end, "read">> or <<end, "write">>
  None

End     == Pipes \X {1, 2}
Peer(e) == <<e[1], 3 - e[2]>>

ASSUME PipeAssumption ==
  /\ IsFiniteSet(Buffers) /\ None \notin Buffers \cup Pipes
  /\ ChanCap \in Nat \ {0} /\ MsgSize \in Nat \ {0}
  /\ \A e \in End : ReadSizes(e) \subseteq Nat \ {0} /\ Writes(e) \in Nat
  /\ DeadlineEnds \subseteq End \X {"read", "write"}

VARIABLES
  stopped,    \* the pipes whose stopCh is closed
  rCh,        \* the channel each end reads from, the wCh of its peer
  pool,       \* byteBufferPool, buffers not made yet and collected ones included
  mem,        \* the Write whose bytes are in a buffer
  rpc, wpc,   \* where the reader and the writer of each end are
  b, bb,      \* pipeConn.b, and how much of it is left in pipeConn.bb
  want,       \* what is left to fill of the slice given to Read, and of the
  mayBlock,   \* read calls in it whether the next may block
  wb,         \* the buffer of the Write that is going on
  passed,     \* the deadlines that have passed, <<end, "read">> and <<end, "write">>
  tries,      \* how often each end has begun to write
  sent,       \* history: the Writes that have returned nil, or will
  got,        \* history: the bytes read at each end
  eof,        \* history: the ends that have read EOF
  before      \* history: what had been sent to each end when its pipe was closed

readVars  == <<rpc, b, bb, want, mayBlock, got, eof>>
writeVars == <<wpc, wb, tries, sent>>
pipeVars  == <<stopped, rCh, pool, mem, readVars, writeVars, passed, before>>

PipeTypeOK ==
  /\ stopped \subseteq Pipes
  /\ \A e \in End : rCh[e] \in Seq(Buffers) /\ Len(rCh[e]) <= ChanCap
  /\ pool \subseteq Buffers
  /\ rpc \in [End -> {"idle", "read", "block", "late", "last"}]
  /\ wpc \in [End -> {"idle", "send", "block"}]
  /\ b \in [End -> Buffers \cup {None}] /\ bb \in [End -> 0..MsgSize]
  /\ mayBlock \in [End -> BOOLEAN]
  /\ wb \in [End -> Buffers \cup {None}]
  /\ passed \subseteq DeadlineEnds
  /\ \A e \in End : tries[e] \in 0..Writes(e) /\ sent[e] \in Seq(1..tries[e])
  /\ eof \subseteq End

PipeInit ==
  /\ stopped = {}
  /\ rCh = [e \in End |-> <<>>]
  /\ pool = Buffers /\ mem = [x \in Buffers |-> None]
  /\ rpc = [e \in End |-> "idle"] /\ wpc = [e \in End |-> "idle"]
  /\ b = [e \in End |-> None] /\ bb = [e \in End |-> 0]
  /\ want = [e \in End |-> 0] /\ mayBlock = [e \in End |-> FALSE]
  /\ wb = [e \in End |-> None]
  /\ passed = {}
  /\ tries = [e \in End |-> 0] /\ sent = [e \in End |-> <<>>]
  /\ got = [e \in End |-> <<>>] /\ eof = {}
  /\ before = [e \in End |-> 0]

Stopped(e) == e[1] \in stopped

-----------------------------------------------------------------------------
(* Close, of the pipe or of an end.  Closing again changes nothing. *)

Close(p) ==
  /\ p \notin stopped
  /\ stopped' = stopped \cup {p}
  /\ before' = [e \in End |-> IF e[1] = p THEN Len(sent[Peer(e)]) ELSE before[e]]
  /\ UNCHANGED <<rCh, pool, mem, readVars, writeVars, passed>>

-----------------------------------------------------------------------------
(* Deadlines.  The goroutine that reads or writes sets them, to a later time, or  *)
(* to none, which is a time that does not come; to set one in the past is to set   *)
(* one that passes at once.  A deadline stays passed after Read or Write saw it.   *)

SetDeadline(e, kind) ==
  /\ <<e, kind>> \in passed
  /\ (IF kind = "read" THEN rpc ELSE wpc)[e] = "idle"
  /\ passed' = passed \ {<<e, kind>>}
  /\ UNCHANGED <<stopped, rCh, pool, mem, readVars, writeVars, before>>

Passes(e, kind) ==
  /\ <<e, kind>> \in DeadlineEnds \ passed
  /\ passed' = passed \cup {<<e, kind>>}
  /\ UNCHANGED <<stopped, rCh, pool, mem, readVars, writeVars, before>>

-----------------------------------------------------------------------------
(* Write *)

\* On a closed pipe Write fails at once.
WriteBegin(e) ==
  /\ wpc[e] = "idle" /\ tries[e] < Writes(e)
  /\ tries' = [tries EXCEPT ![e] = @ + 1]
  /\ \/ Stopped(e) /\ UNCHANGED <<wpc, wb, pool, mem>>
     \/ /\ ~Stopped(e)
        /\ \E x \in pool :
             /\ pool' = pool \ {x}
             /\ mem' = [mem EXCEPT ![x] = <<e, tries'[e]>>]
             /\ wb' = [wb EXCEPT ![e] = x]
        /\ wpc' = [wpc EXCEPT ![e] = "send"]
  /\ UNCHANGED <<stopped, rCh, readVars, sent, passed, before>>

WriteEnds(e) ==
  /\ wpc' = [wpc EXCEPT ![e] = "idle"]
  /\ wb' = [wb EXCEPT ![e] = None]

Send(e) ==
  /\ Len(rCh[Peer(e)]) < ChanCap
  /\ rCh' = [rCh EXCEPT ![Peer(e)] = Append(@, wb[e])]
  /\ sent' = [sent EXCEPT ![e] = Append(@, tries[e])]
  /\ WriteEnds(e)
  /\ UNCHANGED <<stopped, pool, mem, readVars, tries, passed, before>>

WriteSend(e) == wpc[e] \in {"send", "block"} /\ Send(e)

WriteFull(e) ==
  /\ wpc[e] = "send" /\ Len(rCh[Peer(e)]) = ChanCap
  /\ wpc' = [wpc EXCEPT ![e] = "block"]
  /\ UNCHANGED <<stopped, rCh, pool, mem, readVars, wb, tries, sent, passed, before>>

\* Write is stopped, or its deadline passes.  The buffer goes back to the pool, or
\* to the collector, from where it may come again as a new one.
IgnoreStop(e) == <<e, "write">> \in passed
GivesUp(e) == Stopped(e) \/ <<e, "write">> \in passed

WriteFails(e) ==
  /\ wpc[e] = "block" /\ GivesUp(e)
  /\ pool' = pool \cup {wb[e]}
  /\ WriteEnds(e)
  /\ UNCHANGED <<stopped, rCh, mem, readVars, tries, sent, passed, before>>

Write(e) == WriteSend(e) \/ WriteFull(e) \/ WriteFails(e)

-----------------------------------------------------------------------------
(* Read *)

ReadBegin(e, n) ==
  /\ rpc[e] = "idle"
  /\ rpc' = [rpc EXCEPT ![e] = "read"]
  /\ want' = [want EXCEPT ![e] = n]
  /\ mayBlock' = [mayBlock EXCEPT ![e] = TRUE]
  /\ UNCHANGED <<stopped, rCh, pool, mem, b, bb, got, eof, writeVars, passed, before>>

\* What is left in bb is copied.  After the first bytes Read does not block.
ReadCopy(e) ==
  /\ rpc[e] = "read" /\ bb[e] > 0
  /\ LET n == IF want[e] < bb[e] THEN want[e] ELSE bb[e]
         at == MsgSize - bb[e]
     IN  /\ got' = [got EXCEPT ![e] = @ \o [i \in 1..n |-> <<mem[b[e]], at + i>>]]
         /\ bb' = [bb EXCEPT ![e] = @ - n]
         /\ want' = [want EXCEPT ![e] = @ - n]
         /\ rpc' = [rpc EXCEPT ![e] = IF n = want[e] THEN "idle" ELSE "read"]
  /\ mayBlock' = [mayBlock EXCEPT ![e] = FALSE]
  /\ UNCHANGED <<stopped, rCh, pool, mem, b, eof, writeVars, passed, before>>

\* A buffer is received; pipeConn.bb is a slice of its memory.
Take(e) ==
  /\ rCh[e] # <<>>
  /\ rCh' = [rCh EXCEPT ![e] = Tail(@)]
  /\ b' = [b EXCEPT ![e] = Head(rCh[e])]
  /\ bb' = [bb EXCEPT ![e] = MsgSize]
  /\ rpc' = [rpc EXCEPT ![e] = "read"]

ReleaseTaken(e) == IF rCh[e] = <<>> THEN {} ELSE {Head(rCh[e])}
Released(e)     == {b[e]} \ {None}

\* readNextByteBuffer: the buffer read to its end is released, the next one taken
\* if there is one; else Read returns what it has, or goes on to block.
ReadNext(e) ==
  /\ rpc[e] = "read" /\ bb[e] = 0
  /\ pool' = pool \cup Released(e)
  /\ \/ Take(e)
     \/ /\ rCh[e] = <<>>
        /\ b' = [b EXCEPT ![e] = None]
        /\ rpc' = [rpc EXCEPT ![e] = IF mayBlock[e] THEN "block" ELSE "idle"]
        /\ UNCHANGED <<rCh, bb>>
  /\ UNCHANGED <<stopped, mem, want, mayBlock, got, eof, writeVars, passed, before>>

ReadTake(e) ==
  /\ rpc[e] = "block" /\ Take(e)
  /\ UNCHANGED <<stopped, pool, mem, want, mayBlock, got, eof, writeVars, passed, before>>

\* The deadline has passed, or the pipe is closed: Read looks once more for data
\* before it says so.
ReadWakes(e) ==
  /\ rpc[e] = "block"
  /\ \/ <<e, "read">> \in passed /\ rpc' = [rpc EXCEPT ![e] = "late"]
     \/ Stopped(e) /\ rpc' = [rpc EXCEPT ![e] = "last"]
  /\ UNCHANGED <<stopped, rCh, pool, mem, b, bb, want, mayBlock, got, eof, writeVars, passed, before>>

LooksNoMore(e) == FALSE
LooksAgain(e) == rCh[e] # <<>>

ReadLast(e) ==
  /\ rpc[e] \in {"late", "last"}
  /\ \/ LooksAgain(e) /\ Take(e) /\ UNCHANGED eof
     \/ /\ ~LooksAgain(e)
        /\ rpc' = [rpc EXCEPT ![e] = "idle"]
        /\ eof' = IF rpc[e] = "last" THEN eof \cup {e} ELSE eof
        /\ UNCHANGED <<rCh, b, bb>>
  /\ UNCHANGED <<stopped, pool, mem, want, mayBlock, got, writeVars, passed, before>>

Read(e) == ReadCopy(e) \/ ReadNext(e) \/ ReadTake(e) \/ ReadWakes(e) \/ ReadLast(e)

-----------------------------------------------------------------------------
\* What an end that is in use does.
Readers == {e \in End : ReadSizes(e) # {}}
Writers == {e \in End : Writes(e) > 0}

PipeStep(e) ==
  \/ (e \in Readers \cup Writers /\ Close(e[1])) \/ WriteBegin(e) \/ Write(e)
  \/ (\E n \in ReadSizes(e) : ReadBegin(e, n)) \/ Read(e)
  \/ \E kind \in {"read", "write"} :
       Passes(e, kind) \/ SetDeadline(e, kind)

-----------------------------------------------------------------------------
(* Properties *)

\* No byte is lost, changed, doubled or overtaken: what an end has read, what is
\* left in its current buffer and what waits in its channel are together what the
\* Writes at the other end have sent, although all pipes share their buffers.  Byte
\* j of the k-th of these Writes is the byte (k - 1) * MsgSize + j of what is read.
StreamIntact ==
  \A e \in End :
    LET w     == sent[Peer(e)]
        taken == Len(w) - Len(rCh[e])
    IN  /\ Len(got[e]) + bb[e] = taken * MsgSize
        /\ \A k \in 1..taken, j \in 1..MsgSize :
             (k - 1) * MsgSize + j <= Len(got[e])
               => got[e][(k - 1) * MsgSize + j] = <<<<Peer(e), w[k]>>, j>>
        /\ bb[e] > 0 => mem[b[e]] = <<Peer(e), w[taken]>>
        /\ \A i \in 1..Len(rCh[e]) : mem[rCh[e][i]] = <<Peer(e), w[taken + i]>>

\* "rCh may contain data when stopCh is closed.  Read the data before returning EOF"
\* (pipeconns.go:202): nothing sent before the Close is behind an EOF.
EOFAfterAll == \A e \in eof : Len(got[e]) >= before[e] * MsgSize

\* A Read or a Write that waits returns after a Close, or when its deadline passes.
WaitsEnd ==
  /\ \A e \in Readers : Stopped(e) \/ <<e, "read">> \in passed ~> rpc[e] = "idle"
  /\ \A e \in Writers : Stopped(e) \/ <<e, "write">> \in passed ~> wpc[e] = "idle"

=============================================================================
