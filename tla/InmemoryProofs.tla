--------------------------- MODULE InmemoryProofs ---------------------------
(* Theorems about InmemoryListener and PipeConns, for every value of their *)
(* constants.                                                               *)
EXTENDS InmemoryListener, SequenceTheorems, TLAPS

Byte == (End \X Nat) \X (1..MsgSize)

\* PipeTypeOK, and what the functions are defined on.
PipeTypes ==
  /\ stopped \in SUBSET Pipes /\ pool \in SUBSET Buffers
  /\ rCh \in [End -> Seq(Buffers)]
  /\ mem \in [Buffers -> (End \X Nat) \cup {None}]
  /\ rpc \in [End -> {"idle", "read", "block", "late", "last"}]
  /\ wpc \in [End -> {"idle", "send", "block"}]
  /\ b \in [End -> Buffers \cup {None}] /\ wb \in [End -> Buffers \cup {None}]
  /\ bb \in [End -> 0..MsgSize] /\ want \in [End -> Nat]
  /\ mayBlock \in [End -> BOOLEAN]
  /\ passed \in SUBSET DeadlineEnds /\ eof \in SUBSET End
  /\ tries \in [End -> Nat] /\ sent \in [End -> Seq(Nat)]
  /\ got \in [End -> Seq(Byte)] /\ before \in [End -> Nat]

Bounds ==
  \A e \in End :
    /\ Len(rCh[e]) <= ChanCap /\ tries[e] <= Writes(e)
    /\ \A k \in 1..Len(sent[e]) : sent[e][k] \in 1..tries[e]
    /\ wpc[e] # "idle" => tries[e] >= 1

\* What is in use is not in the pool, and in use once: a buffer is written by one
\* end, waits once in one channel, or is read by one end.
InUseOnce ==
  /\ \A e \in End : \A i \in 1..Len(rCh[e]) : rCh[e][i] \notin pool
  /\ \A e, f \in End : \A i \in 1..Len(rCh[e]), j \in 1..Len(rCh[f]) :
       rCh[e][i] = rCh[f][j] => e = f /\ i = j
  /\ \A e, f \in End : \A i \in 1..Len(rCh[e]) : rCh[e][i] # b[f] /\ rCh[e][i] # wb[f]
  /\ \A e \in End : b[e] \notin pool /\ wb[e] \notin pool
  /\ \A e, f \in End : e # f => (b[e] # None => b[e] # b[f]) /\ (wb[e] # None => wb[e] # wb[f])
  /\ \A e, f \in End : b[e] # None => b[e] # wb[f]

\* A Write that goes on has its bytes in its buffer.  A Read that waits has read the
\* buffer it had to the end, and looks for the last time when the pipe is closed.
AtWork ==
  \A e \in End :
    /\ wpc[e] = "idle" <=> wb[e] = None
    /\ wpc[e] # "idle" => mem[wb[e]] = <<e, tries[e]>>
    /\ b[e] = None => bb[e] = 0
    /\ rpc[e] \in {"block", "late", "last"} => bb[e] = 0 /\ b[e] = None
    /\ rpc[e] = "last" => Stopped(e)

\* Where byte j of the m-th Write is in what is read.
Place(m, j) == (m - 1) * MsgSize + j

\* StreamIntact at an end that has taken k Writes out of its channel.
ReadIntact(e, k) ==
  \A m \in 1..k, j \in 1..MsgSize :
    Place(m, j) <= Len(got[e]) => got[e][Place(m, j)] = <<<<Peer(e), sent[Peer(e)][m]>>, j>>

StreamAt(e, k) ==
  /\ Len(got[e]) + bb[e] = k * MsgSize
  /\ ReadIntact(e, k)
  /\ bb[e] > 0 => mem[b[e]] = <<Peer(e), sent[Peer(e)][k]>>
  /\ \A i \in 1..Len(rCh[e]) : mem[rCh[e][i]] = <<Peer(e), sent[Peer(e)][k + i]>>

Taken(e) == Len(sent[Peer(e)]) - Len(rCh[e])

\* What had been sent at the Close is no more than what has been sent; an end that
\* has read EOF is closed.
Ends ==
  /\ \A e \in End : before[e] <= Len(sent[Peer(e)])
  /\ \A e \in eof : Stopped(e)

PipeInv == PipeTypes /\ Bounds /\ InUseOnce /\ AtWork /\ StreamIntact /\ Ends /\ EOFAfterAll

-----------------------------------------------------------------------------
(* Arithmetic of streams, and of the ends of a pipe. *)

LEMMA Peers ==
  ASSUME NEW e \in End
  PROVE  /\ Peer(e) \in End /\ Peer(Peer(e)) = e /\ Peer(e) # e
         /\ \A f \in End : Peer(f) = Peer(e) => f = e
BY DEF End, Peer

\* A message that comes before another ends before it begins.
LEMMA Following ==
  ASSUME NEW k \in Int, NEW l \in Int, k < l, NEW size \in Nat
  PROVE  k * size + size <= l * size
<1> DEFINE d == l - k - 1
<1>1. d \in Nat /\ l = k + 1 + d
  OBVIOUS
<1>2. d * size >= 0
  BY <1>1
<1>3. (k + 1 + d) * size = k * size + size + d * size
  BY <1>1
<1>4. k * size \in Int /\ d * size \in Int
  BY <1>1
<1>5. QED
  BY <1>1, <1>2, <1>3, <1>4

\* A stream that is not empty is of one message at least.
LEMMA Whole ==
  ASSUME NEW k \in Int, NEW size \in Nat \ {0}
  PROVE  /\ k * size \in Int
         /\ k * size >= 0 => k >= 0
         /\ k * size > 0 => k >= 1
         /\ (k - 1) * size = k * size - size
         /\ (k + 1) * size = k * size + size
<1>1. k * size \in Int
  OBVIOUS
<1>2. k < 0 => k * size + size <= 0 * size
  BY Following
<1>3. k < 1 => k * size + size <= 1 * size
  BY Following
<1>4. (k - 1) * size = k * size - size /\ (k + 1) * size = k * size + size
  OBVIOUS
<1>5. QED
  BY <1>1, <1>2, <1>3, <1>4

\* Where a message begins.
LEMMA Starts ==
  ASSUME NEW m \in Nat \ {0}, NEW size \in Nat
  PROVE  (m - 1) * size >= 0
<1>1. CASE m = 1
  BY <1>1
<1>2. CASE m > 1
  <2>1. m - 1 \in Nat
    BY <1>2
  <2>2. QED
    BY <2>1
<1>3. QED
  BY <1>1, <1>2

LEMMA Tails ==
  ASSUME NEW S, NEW s \in Seq(S), s # <<>>
  PROVE  /\ Head(s) = s[1] /\ Head(s) \in S
         /\ Tail(s) \in Seq(S) /\ Len(Tail(s)) = Len(s) - 1 /\ Len(s) >= 1
         /\ \A i \in 1..Len(Tail(s)) : Tail(s)[i] = s[i + 1]
OBVIOUS

LEMMA Appends ==
  ASSUME NEW S, NEW s \in Seq(S), NEW x \in S
  PROVE  /\ Append(s, x) \in Seq(S) /\ Len(Append(s, x)) = Len(s) + 1
         /\ \A i \in 1..Len(s) : Append(s, x)[i] = s[i]
         /\ Append(s, x)[Len(s) + 1] = x
OBVIOUS

LEMMA Concats ==
  ASSUME NEW S, NEW s \in Seq(S), NEW t \in Seq(S)
  PROVE  /\ Len(s \o t) = Len(s) + Len(t)
         /\ \A i \in 1..Len(s) : (s \o t)[i] = s[i]
         /\ \A i \in 1..Len(t) : (s \o t)[Len(s) + i] = t[i]
OBVIOUS

\* What Take does to the end that reads.
LEMMA Takes ==
  ASSUME PipeTypes, NEW e \in End, Take(e)
  PROVE  /\ rCh[e] \in Seq(Buffers) /\ rCh[e] # <<>> /\ rCh[e][1] \in Buffers
         /\ rCh' = [rCh EXCEPT ![e] = Tail(rCh[e])] /\ rCh' \in [End -> Seq(Buffers)]
         /\ b' = [b EXCEPT ![e] = rCh[e][1]] /\ b' \in [End -> Buffers \cup {None}]
         /\ bb' = [bb EXCEPT ![e] = MsgSize] /\ bb' \in [End -> 0..MsgSize]
         /\ rpc' = [rpc EXCEPT ![e] = "read"]
         /\ rpc' \in [End -> {"idle", "read", "block", "late", "last"}]
<1>1. rCh[e] \in Seq(Buffers) /\ rCh[e] # <<>>
  BY DEF PipeTypes, Take
<1>2. Head(rCh[e]) = rCh[e][1] /\ rCh[e][1] \in Buffers /\ Tail(rCh[e]) \in Seq(Buffers)
  BY <1>1, Tails
<1>3. MsgSize \in 0..MsgSize
  BY PipeAssumption
<1>4. QED
  BY <1>1, <1>2, <1>3 DEF PipeTypes, Take

LEMMA StreamForm == StreamIntact <=> \A e \in End : StreamAt(e, Taken(e))
BY DEF StreamIntact, StreamAt, ReadIntact, Place, Taken

\* How many of the Writes an end has taken out of its channel.
LEMMA TakenMessages ==
  ASSUME PipeInv, NEW e \in End
  PROVE  \E k \in Int :
           /\ k = Taken(e) /\ StreamAt(e, k)
           /\ k * MsgSize \in Int /\ Len(got[e]) + bb[e] = k * MsgSize
           /\ k >= 0 /\ k <= Len(sent[Peer(e)])
           /\ bb[e] > 0 => k >= 1
<1>1. /\ sent[Peer(e)] \in Seq(Nat) /\ rCh[e] \in Seq(Buffers) /\ got[e] \in Seq(Byte)
      /\ bb[e] \in Nat /\ MsgSize \in Nat \ {0}
  BY Peers, PipeAssumption DEF PipeInv, PipeTypes
<1>2. PICK k \in Int : k = Taken(e)
  <2>1. Len(sent[Peer(e)]) \in Nat /\ Len(rCh[e]) \in Nat
    BY <1>1
  <2>2. Taken(e) \in Int
    BY <2>1 DEF Taken
  <2>3. QED
    BY <2>2
<1>3. StreamAt(e, k)
  BY <1>2, StreamForm DEF PipeInv
<1>4. /\ k * MsgSize \in Int
      /\ k * MsgSize >= 0 => k >= 0
      /\ k * MsgSize > 0 => k >= 1
  BY <1>1, Whole
<1>5. PICK m \in Int : m = k * MsgSize
  BY <1>4
<1>6. Len(got[e]) + bb[e] = m /\ (m >= 0 => k >= 0) /\ (m > 0 => k >= 1)
  <2>1. Len(got[e]) + bb[e] = m
    BY <1>3, <1>5 DEF StreamAt
  <2>2. QED
    BY <1>4, <1>5, <2>1
<1>7. k >= 0 /\ (bb[e] > 0 => k >= 1)
  BY <1>1, <1>6
<1>8. k <= Len(sent[Peer(e)])
  <2>1. Len(sent[Peer(e)]) \in Nat /\ Len(rCh[e]) \in Nat
    BY <1>1
  <2>2. k = Len(sent[Peer(e)]) - Len(rCh[e])
    BY <1>2 DEF Taken
  <2>3. ASSUME NEW n \in Nat, NEW o \in Nat, k = n - o
        PROVE  k <= n
    BY <2>3
  <2>4. QED
    BY <2>1, <2>2, <2>3
<1>9. Len(got[e]) + bb[e] = k * MsgSize
  BY <1>3 DEF StreamAt
<1>10. QED
  BY <1>2, <1>3, <1>4, <1>7, <1>8, <1>9

\* What ReadCopy reads: the next n bytes of the Write that is in the buffer.
LEMMA Copies ==
  ASSUME PipeInv, NEW e \in End, ReadCopy(e)
  PROVE  \E n \in Nat, bytes \in Seq(Byte) :
           /\ n <= want[e] /\ n <= bb[e] /\ Len(bytes) = n
           /\ \A i \in 1..n : bytes[i] = <<mem[b[e]], MsgSize - bb[e] + i>>
           /\ got' = [got EXCEPT ![e] = got[e] \o bytes]
           /\ bb' = [bb EXCEPT ![e] = bb[e] - n]
           /\ want' = [want EXCEPT ![e] = want[e] - n]
<1> DEFINE n == IF want[e] < bb[e] THEN want[e] ELSE bb[e]
           bytes == [i \in 1..n |-> <<mem[b[e]], MsgSize - bb[e] + i>>]
<1>1. want[e] \in Nat /\ bb[e] \in Nat /\ bb[e] <= MsgSize /\ bb[e] > 0 /\ MsgSize \in Nat
  BY PipeAssumption DEF PipeInv, PipeTypes, ReadCopy
<1>2. n \in Nat /\ n <= want[e] /\ n <= bb[e]
  BY <1>1
<1>3. mem[b[e]] \in End \X Nat
  <2>1. PICK k \in Int : /\ StreamAt(e, k) /\ k <= Len(sent[Peer(e)])
                         /\ bb[e] > 0 => k >= 1
    BY TakenMessages
  <2>2. mem[b[e]] = <<Peer(e), sent[Peer(e)][k]>>
    BY <1>1, <2>1 DEF StreamAt
  <2>3. sent[Peer(e)][k] \in Nat
    <3>1. sent[Peer(e)] \in Seq(Nat)
      BY Peers DEF PipeInv, PipeTypes
    <3>2. QED
      BY <1>1, <2>1, <3>1
  <2>4. QED
    BY <2>2, <2>3, Peers
<1>4. \A i \in 1..n : MsgSize - bb[e] + i \in 1..MsgSize
  BY <1>1, <1>2
<1>5. \A i \in 1..n : <<mem[b[e]], MsgSize - bb[e] + i>> \in Byte
  BY <1>3, <1>4 DEF Byte
<1>6. /\ bytes \in Seq(Byte) /\ Len(bytes) = n
      /\ \A i \in 1..n : bytes[i] = <<mem[b[e]], MsgSize - bb[e] + i>>
  BY <1>2, <1>5
<1>7. /\ got' = [got EXCEPT ![e] = got[e] \o bytes]
      /\ bb' = [bb EXCEPT ![e] = bb[e] - n]
      /\ want' = [want EXCEPT ![e] = want[e] - n]
  BY DEF ReadCopy
<1>8. QED
  BY <1>2, <1>6, <1>7

-----------------------------------------------------------------------------
(* A step of a pipe keeps PipeInv, conjunct by conjunct.  Calls that write and     *)
(* calls that read are apart from those that only look, wait or go on.              *)

\* What an end does; the Dial that is refused closes its pipe too.
PipeOp(e) == Close(e[1]) \/ PipeStep(e)

\* Operations that leave the buffers where they are.
Looks(e) ==
  \/ Close(e[1]) \/ WriteFull(e) \/ ReadWakes(e)
  \/ \E kind \in {"read", "write"} : Passes(e, kind) \/ SetDeadline(e, kind)
  \/ \E n \in ReadSizes(e) : ReadBegin(e, n)

LEMMA StepKinds ==
  ASSUME NEW e \in End, PipeOp(e)
  PROVE  \/ Looks(e) \/ WriteBegin(e) \/ WriteSend(e) \/ WriteFails(e)
         \/ ReadCopy(e) \/ ReadNext(e) \/ ReadTake(e) \/ ReadLast(e)
BY DEF PipeOp, PipeStep, Looks, Write, Read

LEMMA TypesKept ==
  ASSUME PipeInv, NEW e \in End, PipeOp(e)
  PROVE  PipeTypes'
<1> USE DEF PipeTypes, readVars, writeVars
<1>1. /\ PipeTypes /\ e[1] \in Pipes /\ ReadSizes(e) \subseteq Nat /\ MsgSize \in Nat
      /\ \A f \in End : Peer(f) \in End
  BY Peers, PipeAssumption DEF PipeInv, End
<1>2. CASE Close(e[1])
  <2>1. stopped' \in SUBSET Pipes
    BY <1>1, <1>2 DEF Close
  <2>2. before' \in [End -> Nat]
    BY <1>1, <1>2 DEF Close
  <2>3. QED
    BY <1>1, <1>2, <2>1, <2>2 DEF Close
<1>3. CASE \E kind \in {"read", "write"} : Passes(e, kind) \/ SetDeadline(e, kind)
  BY <1>1, <1>3 DEF Passes, SetDeadline
<1>4. CASE WriteBegin(e)
  <2>1. tries' \in [End -> Nat] /\ tries'[e] \in Nat
    BY <1>1, <1>4 DEF WriteBegin
  <2>2. CASE UNCHANGED <<wpc, wb, pool, mem>>
    BY <1>1, <1>4, <2>1, <2>2 DEF WriteBegin
  <2>3. ASSUME NEW x \in pool, pool' = pool \ {x},
               mem' = [mem EXCEPT ![x] = <<e, tries'[e]>>], wb' = [wb EXCEPT ![e] = x],
               wpc' = [wpc EXCEPT ![e] = "send"]
        PROVE  PipeTypes'
    <3>1. <<e, tries'[e]>> \in End \X Nat
      BY <2>1
    <3>2. mem' \in [Buffers -> (End \X Nat) \cup {None}]
      BY <1>1, <2>3, <3>1
    <3>3. QED
      BY <1>1, <1>4, <2>1, <2>3, <3>2 DEF WriteBegin
  <2>4. QED
    BY <1>4, <2>2, <2>3 DEF WriteBegin
<1>5. CASE WriteSend(e)
  <2>1. wb[e] \in Buffers
    BY <1>1, <1>5 DEF PipeInv, AtWork, WriteSend
  <2>2. rCh' \in [End -> Seq(Buffers)]
    BY <1>1, <1>5, <2>1 DEF WriteSend, Send
  <2>3. sent' \in [End -> Seq(Nat)]
    BY <1>1, <1>5 DEF WriteSend, Send
  <2>4. QED
    BY <1>1, <1>5, <2>2, <2>3 DEF WriteSend, Send, WriteEnds
<1>6. CASE WriteFull(e)
  BY <1>1, <1>6 DEF WriteFull
<1>7. CASE WriteFails(e)
  <2>1. wb[e] \in Buffers
    BY <1>1, <1>7 DEF PipeInv, AtWork, WriteFails
  <2>2. QED
    BY <1>1, <1>7, <2>1 DEF WriteFails, WriteEnds
<1>8. CASE \E n \in ReadSizes(e) : ReadBegin(e, n)
  <2>1. PICK n \in ReadSizes(e) : ReadBegin(e, n)
    BY <1>8
  <2>2. want' \in [End -> Nat] /\ mayBlock' \in [End -> BOOLEAN]
    BY <1>1, <2>1 DEF ReadBegin
  <2>3. QED
    BY <1>1, <2>1, <2>2 DEF ReadBegin
<1>9. CASE ReadCopy(e)
  <2>1. PICK n \in Nat, bytes \in Seq(Byte) :
          /\ n <= want[e] /\ n <= bb[e]
          /\ got' = [got EXCEPT ![e] = got[e] \o bytes]
          /\ bb' = [bb EXCEPT ![e] = bb[e] - n]
          /\ want' = [want EXCEPT ![e] = want[e] - n]
    BY <1>9, Copies
  <2>2. got[e] \o bytes \in Seq(Byte) /\ bb[e] - n \in 0..MsgSize /\ want[e] - n \in Nat
    BY <1>1, <2>1
  <2>3. /\ got' \in [End -> Seq(Byte)] /\ bb' \in [End -> 0..MsgSize]
        /\ want' \in [End -> Nat]
    BY <1>1, <2>1, <2>2
  <2>4. QED
    BY <1>1, <1>9, <2>3 DEF ReadCopy
<1>10. CASE ReadNext(e)
  <2>1. pool' \in SUBSET Buffers
    BY <1>1, <1>10 DEF ReadNext, Released
  <2>2. CASE Take(e)
    BY <1>1, <1>10, <2>1, <2>2, Takes DEF ReadNext
  <2>3. CASE ~Take(e)
    BY <1>1, <1>10, <2>1, <2>3 DEF ReadNext
  <2>4. QED
    BY <2>2, <2>3
<1>11. CASE ReadTake(e)
  BY <1>1, <1>11, Takes DEF ReadTake
<1>12. CASE ReadWakes(e)
  BY <1>1, <1>12 DEF ReadWakes
<1>13. CASE ReadLast(e)
  <2>1. CASE Take(e)
    BY <1>1, <1>13, <2>1, Takes DEF ReadLast
  <2>2. CASE ~Take(e)
    BY <1>1, <1>13, <2>2 DEF ReadLast
  <2>3. QED
    BY <2>1, <2>2
<1>14. QED
  BY <1>2, <1>3, <1>4, <1>5, <1>6, <1>7, <1>8, <1>9, <1>10, <1>11, <1>12, <1>13 DEF PipeOp, PipeStep, Write, Read

\* What the steps of the kind Looks leave alone.
LEMMA LooksLeaves ==
  ASSUME PipeInv, NEW e \in End, Looks(e)
  PROVE  /\ UNCHANGED <<rCh, pool, mem, b, bb, wb, tries, sent, got, eof>>
         /\ stopped \subseteq stopped'
         /\ \A f \in End : wpc'[f] = "idle" <=> wpc[f] = "idle"
         /\ \A f \in End : rpc'[f] # rpc[f] => /\ rpc[f] = "idle" => rpc'[f] = "read"
                                               /\ rpc[f] # "idle" => rpc[f] = "block"
                                               /\ rpc'[f] = "last" => Stopped(f)
<1>1. wpc \in [End -> {"idle", "send", "block"}] /\ DOMAIN rpc = End
  BY DEF PipeInv, PipeTypes
<1>2. QED
  BY <1>1 DEF Looks, Close, WriteFull, ReadWakes, Passes, SetDeadline, ReadBegin, readVars, writeVars

LEMMA BoundsKept ==
  ASSUME PipeInv, NEW e \in End, PipeOp(e)
  PROVE  Bounds'
<1> USE DEF Bounds
<1>1. PipeTypes /\ Bounds
  BY DEF PipeInv
<1>2. CASE Looks(e)
  BY <1>1, <1>2, LooksLeaves
<1>3. CASE WriteBegin(e)
  <2>1. /\ tries' = [tries EXCEPT ![e] = tries[e] + 1] /\ tries[e] + 1 <= Writes(e)
        /\ UNCHANGED <<rCh, sent>>
        /\ \A f \in End : f # e => wpc'[f] = wpc[f]
    <3>1. Writes(e) \in Nat /\ tries[e] \in Nat /\ wpc \in [End -> {"idle", "send", "block"}]
      BY <1>1, PipeAssumption DEF PipeTypes
    <3>2. QED
      BY <1>3, <3>1 DEF WriteBegin
  <2>2. ASSUME NEW f \in End
        PROVE  /\ tries'[f] <= Writes(f) /\ tries'[f] \in Nat /\ tries[f] <= tries'[f]
               /\ wpc'[f] # "idle" => tries'[f] >= 1
    <3>1. tries[f] \in Nat /\ tries[e] \in Nat /\ tries[f] <= Writes(f)
      BY <1>1 DEF PipeTypes
    <3>2. CASE f = e
      <4>1. tries'[f] = tries[e] + 1
        BY <1>1, <2>1, <3>2 DEF PipeTypes
      <4>2. QED
        BY <2>1, <3>1, <3>2, <4>1
    <3>3. CASE f # e
      <4>1. tries'[f] = tries[f] /\ wpc'[f] = wpc[f]
        BY <1>1, <2>1, <3>3 DEF PipeTypes
      <4>2. QED
        BY <1>1, <3>1, <4>1
    <3>4. QED
      BY <3>2, <3>3
  <2>3. ASSUME NEW f \in End, NEW k \in 1..Len(sent[f])
        PROVE  sent[f][k] \in 1..tries'[f]
    <3>1. sent[f][k] \in 1..tries[f] /\ tries[f] \in Nat /\ tries'[f] \in Nat /\ tries[f] <= tries'[f]
      BY <1>1, <2>2 DEF PipeTypes
    <3>2. QED
      BY <3>1
  <2>4. QED
    BY <1>1, <2>1, <2>2, <2>3
<1>4. CASE WriteSend(e)
  <2> DEFINE p == Peer(e)
  <2>1. /\ p \in End /\ wpc[e] # "idle" /\ tries' = tries
        /\ Len(rCh[p]) < ChanCap /\ rCh' = [rCh EXCEPT ![p] = Append(rCh[p], wb[e])]
        /\ sent' = [sent EXCEPT ![e] = Append(sent[e], tries[e])]
        /\ wpc' = [wpc EXCEPT ![e] = "idle"]
    BY <1>4, Peers DEF WriteSend, Send, WriteEnds
  <2>2. wb[e] \in Buffers
    BY <1>1, <2>1 DEF PipeInv, PipeTypes, AtWork
  <2>3. /\ rCh[p] \in Seq(Buffers) /\ sent[e] \in Seq(Nat) /\ tries[e] \in Nat
        /\ ChanCap \in Nat
    BY <1>1, <2>1, PipeAssumption DEF PipeTypes
  <2>4. Len(Append(rCh[p], wb[e])) <= ChanCap
    BY <2>1, <2>2, <2>3, Appends
  <2>5. \A f \in End : Len(rCh'[f]) <= ChanCap
    BY <1>1, <2>1, <2>4 DEF PipeTypes
  <2>6. \A k \in 1..Len(Append(sent[e], tries[e])) : Append(sent[e], tries[e])[k] \in 1..tries[e]
    BY <1>1, <2>1, <2>3, Appends
  <2>7. \A f \in End : \A k \in 1..Len(sent'[f]) : sent'[f][k] \in 1..tries'[f]
    BY <1>1, <2>1, <2>6 DEF PipeTypes
  <2>8. QED
    BY <1>1, <2>1, <2>5, <2>7 DEF PipeTypes
<1>5. CASE WriteFails(e)
  BY <1>1, <1>5 DEF WriteFails, WriteEnds, PipeTypes
<1>6. CASE ReadCopy(e)
  BY <1>1, <1>6 DEF ReadCopy, writeVars
<1>7. CASE ReadNext(e) \/ ReadTake(e) \/ ReadLast(e)
  <2>1. UNCHANGED <<wpc, tries, sent>>
    BY <1>7 DEF ReadNext, ReadTake, ReadLast, writeVars
  <2>2. CASE Take(e)
    <3>1. Len(Tail(rCh[e])) <= Len(rCh[e]) /\ Len(rCh[e]) \in Nat /\ Len(Tail(rCh[e])) \in Nat
      BY <2>2, <1>1, Takes, Tails
    <3>2. \A f \in End : Len(rCh'[f]) <= ChanCap
      <4>1. ChanCap \in Nat /\ rCh \in [End -> Seq(Buffers)]
        BY <1>1, PipeAssumption DEF PipeTypes
      <4>2. rCh' = [rCh EXCEPT ![e] = Tail(rCh[e])]
        BY <1>1, <2>2, Takes
      <4>3. ASSUME NEW f \in End
            PROVE  Len(rCh'[f]) <= ChanCap
        <5>1. CASE f = e
          BY <1>1, <3>1, <4>1, <4>2, <5>1
        <5>2. CASE f # e
          BY <1>1, <4>1, <4>2, <5>2
        <5>3. QED
          BY <5>1, <5>2
      <4>4. QED
        BY <4>3
    <3>3. QED
      BY <1>1, <2>1, <3>2
  <2>3. CASE ~Take(e)
    BY <1>1, <1>7, <2>1, <2>3 DEF ReadNext, ReadTake, ReadLast
  <2>4. QED
    BY <2>2, <2>3
<1>8. QED
  BY <1>2, <1>3, <1>4, <1>5, <1>6, <1>7, StepKinds

\* AtWork at one end.
Work(e) ==
  /\ wpc[e] = "idle" <=> wb[e] = None
  /\ wpc[e] # "idle" => mem[wb[e]] = <<e, tries[e]>>
  /\ b[e] = None => bb[e] = 0
  /\ rpc[e] \in {"block", "late", "last"} => bb[e] = 0 /\ b[e] = None
  /\ rpc[e] = "last" => Stopped(e)

\* A step that reads at e.
LEMMA ReadWork ==
  ASSUME PipeInv, NEW e \in End, Work(e)', UNCHANGED <<stopped, mem, wpc, wb, tries>>,
         \A f \in End : f # e => b'[f] = b[f] /\ bb'[f] = bb[f] /\ rpc'[f] = rpc[f]
  PROVE  AtWork'
BY DEF PipeInv, AtWork, Work, Stopped

LEMMA WorkKept ==
  ASSUME PipeInv, NEW e \in End, PipeOp(e)
  PROVE  AtWork'
<1>1. PipeTypes /\ InUseOnce /\ AtWork /\ \A f \in End : Work(f)
  BY DEF PipeInv, AtWork, Work
<1>2. CASE Looks(e)
  BY <1>1, <1>2, LooksLeaves DEF Stopped, AtWork
<1>3. CASE WriteBegin(e)
  <2>1. UNCHANGED <<stopped, b, bb, rpc>> /\ wpc[e] = "idle"
    BY <1>3 DEF WriteBegin, readVars
  <2>2. CASE UNCHANGED <<wpc, wb, pool, mem>>
    BY <1>1, <1>3, <2>1, <2>2 DEF WriteBegin, AtWork, PipeTypes, Stopped
  <2>3. ASSUME NEW x \in pool, mem' = [mem EXCEPT ![x] = <<e, tries'[e]>>],
               wb' = [wb EXCEPT ![e] = x], wpc' = [wpc EXCEPT ![e] = "send"]
        PROVE  AtWork'
    <3>1. x \in Buffers /\ x # None
      BY <1>1, PipeAssumption DEF PipeTypes
    <3>2. ASSUME NEW f \in End
          PROVE  Work(f)'
      <4>1. CASE f = e
        BY <1>1, <2>1, <2>3, <3>1, <4>1 DEF Work, PipeTypes, Stopped
      <4>2. CASE f # e
        <5>1. wpc'[f] = wpc[f] /\ wb'[f] = wb[f] /\ tries'[f] = tries[f]
          BY <1>1, <1>3, <2>3, <4>2 DEF PipeTypes, WriteBegin
        <5>2. wb[f] # x
          BY <1>1 DEF InUseOnce
        <5>3. wb[f] \in Buffers => mem'[wb[f]] = mem[wb[f]]
          BY <1>1, <2>3, <5>2 DEF PipeTypes
        <5>4. QED
          BY <1>1, <2>1, <5>1, <5>3 DEF Work, PipeTypes, Stopped
      <4>3. QED
        BY <4>1, <4>2
    <3>3. QED
      BY <3>2 DEF AtWork, Work
  <2>4. QED
    BY <1>3, <2>2, <2>3 DEF WriteBegin
<1>4. CASE WriteSend(e)
  BY <1>1, <1>4, PipeAssumption DEF WriteSend, Send, WriteEnds, PipeTypes, Stopped, readVars, AtWork
<1>5. CASE WriteFails(e)
  BY <1>1, <1>5 DEF WriteFails, WriteEnds, PipeTypes, Stopped, readVars, AtWork
<1>6. CASE ReadCopy(e)
  <2>1. UNCHANGED <<stopped, mem, wpc, wb, tries, b>> /\ bb[e] > 0
    BY <1>6 DEF ReadCopy, writeVars
  <2>2. \A f \in End : f # e => bb'[f] = bb[f] /\ rpc'[f] = rpc[f]
    BY <1>1, <1>6 DEF ReadCopy, PipeTypes
  <2>3. b[e] # None /\ rpc'[e] \in {"idle", "read"}
    <3>1. b[e] # None
      <4>1. bb[e] \in Int /\ Work(e)
        BY <1>1, PipeAssumption DEF PipeTypes
      <4>2. bb[e] # 0
        BY <2>1, <4>1
      <4>3. QED
        BY <4>1, <4>2 DEF Work
    <3>2. PICK v \in {"idle", "read"} : rpc' = [rpc EXCEPT ![e] = v]
      <4>1. rpc' = [rpc EXCEPT ![e] = "idle"] \/ rpc' = [rpc EXCEPT ![e] = "read"]
        BY <1>6 DEF ReadCopy
      <4>2. QED
        BY <4>1
    <3>3. QED
      BY <1>1, <3>1, <3>2 DEF PipeTypes
  <2>4. QED
    BY <1>1, <2>1, <2>2, <2>3, ReadWork DEF Work
<1>7. CASE ReadNext(e) \/ ReadTake(e) \/ ReadLast(e)
  <2>1. UNCHANGED <<stopped, mem, wpc, wb, tries>>
    BY <1>7 DEF ReadNext, ReadTake, ReadLast, writeVars
  <2>2. CASE Take(e)
    <3> DEFINE first == rCh[e][1]
    <3>0. /\ b' = [b EXCEPT ![e] = first] /\ bb' = [bb EXCEPT ![e] = MsgSize]
          /\ rpc' = [rpc EXCEPT ![e] = "read"] /\ first \in Buffers
      BY <1>1, <2>2, Takes
    <3>1. b'[e] \in Buffers /\ rpc'[e] = "read"
      BY <1>1, <3>0 DEF PipeTypes
    <3>2. \A f \in End : f # e => b'[f] = b[f] /\ bb'[f] = bb[f] /\ rpc'[f] = rpc[f]
      BY <1>1, <3>0 DEF PipeTypes
    <3>3. QED
      BY <1>1, <2>1, <3>1, <3>2, ReadWork, PipeAssumption DEF Work
  <2>3. CASE ~Take(e)
    <3>1. \A f \in End : f # e => b'[f] = b[f] /\ bb'[f] = bb[f] /\ rpc'[f] = rpc[f]
      BY <1>1, <1>7, <2>3 DEF ReadNext, ReadTake, ReadLast, PipeTypes
    <3>2. b'[e] = None /\ bb'[e] = 0 /\ rpc'[e] \in {"idle", "block"}
      BY <1>1, <1>7, <2>3 DEF ReadNext, ReadTake, ReadLast, PipeTypes, Work
    <3>3. QED
      BY <1>1, <2>1, <3>1, <3>2, ReadWork DEF Work
  <2>4. QED
    BY <2>2, <2>3
<1>8. QED
  BY <1>2, <1>3, <1>4, <1>5, <1>6, <1>7, StepKinds

-----------------------------------------------------------------------------
(* The buffers stay private. *)

\* A channel after a buffer is taken out of it, and after one is sent.
LEMMA TakenFrom ==
  ASSUME PipeTypes, NEW e \in End, Take(e), NEW f \in End, NEW i \in 1..Len(rCh'[f])
  PROVE  \E j \in 1..Len(rCh[f]) :
           /\ rCh'[f][i] = rCh[f][j] /\ j = IF f = e THEN i + 1 ELSE i
           /\ f = e => j # 1
<1>1. rCh' = [rCh EXCEPT ![e] = Tail(rCh[e])] /\ rCh[e] \in Seq(Buffers) /\ rCh[e] # <<>>
  BY Takes
<1>2. CASE f = e
  <2>1. rCh'[f] = Tail(rCh[e])
    BY <1>1, <1>2 DEF PipeTypes
  <2>2. i \in 1..Len(Tail(rCh[e])) /\ i + 1 \in 1..Len(rCh[e]) /\ Tail(rCh[e])[i] = rCh[e][i + 1]
    <3>1. /\ Len(Tail(rCh[e])) = Len(rCh[e]) - 1 /\ Len(rCh[e]) \in Nat
          /\ \A k \in 1..Len(Tail(rCh[e])) : Tail(rCh[e])[k] = rCh[e][k + 1]
      BY <1>1, Tails
    <3>2. i \in 1..Len(Tail(rCh[e]))
      BY <2>1
    <3>3. QED
      BY <3>1, <3>2
  <2>3. i + 1 # 1
    BY <2>2
  <2>4. QED
    BY <1>2, <2>1, <2>2, <2>3
<1>3. CASE f # e
  BY <1>1, <1>3 DEF PipeTypes
<1>4. QED
  BY <1>2, <1>3

LEMMA SentTo ==
  ASSUME PipeTypes, NEW e \in End, NEW x \in Buffers, rCh' = [rCh EXCEPT ![e] = Append(rCh[e], x)],
         NEW f \in End, NEW i \in 1..Len(rCh'[f])
  PROVE  \/ i \in 1..Len(rCh[f]) /\ rCh'[f][i] = rCh[f][i]
         \/ f = e /\ i = Len(rCh[e]) + 1 /\ rCh'[f][i] = x
<1>1. CASE f = e
  <2>1. rCh'[f] = Append(rCh[e], x) /\ rCh[e] \in Seq(Buffers)
    BY <1>1 DEF PipeTypes
  <2>2. QED
    BY <1>1, <2>1, Appends
<1>2. CASE f # e
  BY <1>2 DEF PipeTypes
<1>3. QED
  BY <1>1, <1>2

\* A reader takes a buffer, and releases the one it had, if any.
LEMMA TakeOnce ==
  ASSUME PipeTypes, InUseOnce, NEW e \in End, Take(e), wb' = wb,
         pool' = pool \cup Released(e)
  PROVE  InUseOnce'
<1> DEFINE x == rCh[e][1]
<1>1. b' = [b EXCEPT ![e] = x] /\ x \in Buffers /\ 1 \in 1..Len(rCh[e]) /\ x # None
  BY Takes, Tails, PipeAssumption
<1>2. \A f \in End : b'[f] = IF f = e THEN x ELSE b[f]
  BY <1>1 DEF PipeTypes
<1>3. \A y : y \in pool' <=> y \in pool \/ (y = b[e] /\ y # None)
  BY DEF Released
<1>4. ASSUME NEW f \in End, NEW i \in 1..Len(rCh'[f])
      PROVE  /\ rCh'[f][i] \notin pool'
             /\ \A g \in End : rCh'[f][i] # b'[g] /\ rCh'[f][i] # wb'[g]
             /\ \A g \in End : \A k \in 1..Len(rCh'[g]) : rCh'[f][i] = rCh'[g][k] => f = g /\ i = k
  <2>1. PICK j \in 1..Len(rCh[f]) :
          /\ rCh'[f][i] = rCh[f][j] /\ j = IF f = e THEN i + 1 ELSE i
          /\ f = e => j # 1
    BY TakenFrom
  <2>2. rCh'[f][i] \notin pool'
    BY <1>3, <2>1 DEF InUseOnce
  <2>3. ASSUME NEW g \in End
        PROVE  rCh'[f][i] # b'[g] /\ rCh'[f][i] # wb'[g]
    BY <1>1, <1>2, <2>1 DEF InUseOnce
  <2>4. ASSUME NEW g \in End, NEW k \in 1..Len(rCh'[g]), rCh'[f][i] = rCh'[g][k]
        PROVE  f = g /\ i = k
    <3>1. PICK m \in 1..Len(rCh[g]) :
            rCh'[g][k] = rCh[g][m] /\ m = IF g = e THEN k + 1 ELSE k
      BY TakenFrom
    <3>2. f = g /\ j = m
      BY <2>1, <2>4, <3>1 DEF InUseOnce
    <3>3. QED
      BY <2>1, <3>1, <3>2
  <2>5. QED
    BY <2>2, <2>3, <2>4
<1>5. ASSUME NEW f \in End
      PROVE  b'[f] \notin pool' /\ wb'[f] \notin pool'
  BY <1>1, <1>2, <1>3 DEF InUseOnce
<1>6. ASSUME NEW f \in End, NEW g \in End
      PROVE  /\ f # g => (b'[f] # None => b'[f] # b'[g]) /\ (wb'[f] # None => wb'[f] # wb'[g])
             /\ b'[f] # None => b'[f] # wb'[g]
  BY <1>1, <1>2 DEF InUseOnce
<1>7. QED
  BY <1>4, <1>5, <1>6 DEF InUseOnce

LEMMA OnceKept ==
  ASSUME PipeInv, NEW e \in End, PipeOp(e)
  PROVE  InUseOnce'
<1>1. PipeTypes /\ InUseOnce /\ None \notin pool /\ None \notin Buffers
  BY PipeAssumption DEF PipeInv, PipeTypes
<1>2. CASE UNCHANGED <<rCh, pool, b, wb>>
  BY <1>1, <1>2 DEF InUseOnce
<1>3. CASE Looks(e)
  BY <1>2, <1>3, LooksLeaves
<1>4. CASE WriteBegin(e)
  <2>1. UNCHANGED <<rCh, b>>
    BY <1>4 DEF WriteBegin, readVars
  <2>2. CASE UNCHANGED <<wpc, wb, pool, mem>>
    BY <1>2, <2>1, <2>2
  <2>3. ASSUME NEW x \in pool, pool' = pool \ {x}, wb' = [wb EXCEPT ![e] = x]
        PROVE  InUseOnce'
    <3>1. \A f \in End : wb'[f] = IF f = e THEN x ELSE wb[f]
      BY <1>1, <2>3 DEF PipeTypes
    <3>2. QED
      BY <1>1, <2>1, <2>3, <3>1 DEF InUseOnce
  <2>4. QED
    BY <1>4, <2>2, <2>3 DEF WriteBegin
<1>5. CASE WriteSend(e)
  <2> DEFINE p == Peer(e)
             x == wb[e]
  <2>1. p \in End /\ rCh' = [rCh EXCEPT ![p] = Append(rCh[p], x)] /\ UNCHANGED <<pool, b>>
    BY <1>5, Peers DEF WriteSend, Send, readVars
  <2>2. x \in Buffers /\ x # None /\ \A f \in End : wb'[f] = IF f = e THEN None ELSE wb[f]
    BY <1>1, <1>5 DEF PipeInv, PipeTypes, AtWork, WriteSend, Send, WriteEnds
  <2>3. \A f \in End : \A i \in 1..Len(rCh'[f]) :
          \/ i \in 1..Len(rCh[f]) /\ rCh'[f][i] = rCh[f][i]
          \/ f = p /\ i = Len(rCh[p]) + 1 /\ rCh'[f][i] = x
    BY <1>1, <2>1, <2>2, SentTo
  <2>4. \A f \in End : \A i \in 1..Len(rCh[f]) : rCh[f][i] # None
    <3>1. \A f \in End : rCh[f] \in Seq(Buffers)
      BY <1>1 DEF PipeTypes
    <3>2. QED
      BY <1>1, <3>1
  <2>5. ASSUME NEW f \in End, NEW i \in 1..Len(rCh'[f])
        PROVE  /\ rCh'[f][i] \notin pool'
               /\ \A g \in End : rCh'[f][i] # b'[g] /\ rCh'[f][i] # wb'[g]
    BY <2>1, <2>2, <2>3, <2>4, <1>1 DEF InUseOnce
  <2>6. ASSUME NEW f \in End, NEW i \in 1..Len(rCh'[f]),
               NEW g \in End, NEW k \in 1..Len(rCh'[g]), rCh'[f][i] = rCh'[g][k]
        PROVE  f = g /\ i = k
    BY <2>2, <2>3, <2>6, <1>1 DEF InUseOnce
  <2>7. ASSUME NEW f \in End, NEW g \in End
        PROVE  /\ b'[f] \notin pool' /\ wb'[f] \notin pool'
               /\ f # g => (b'[f] # None => b'[f] # b'[g]) /\ (wb'[f] # None => wb'[f] # wb'[g])
               /\ b'[f] # None => b'[f] # wb'[g]
    BY <1>1, <2>1, <2>2 DEF InUseOnce
  <2>8. QED
    BY <2>5, <2>6, <2>7 DEF InUseOnce
<1>6. CASE WriteFails(e)
  <2>1. /\ UNCHANGED <<rCh, b>> /\ pool' = pool \cup {wb[e]}
        /\ \A f \in End : wb'[f] = IF f = e THEN None ELSE wb[f]
    BY <1>1, <1>6 DEF PipeTypes, WriteFails, WriteEnds, readVars
  <2>2. wb[e] \in Buffers /\ wb[e] # None
    BY <1>1, <1>6 DEF PipeInv, PipeTypes, AtWork, WriteFails
  <2>3. \A f \in End : \A i \in 1..Len(rCh[f]) : rCh[f][i] # None
    <3>1. \A f \in End : rCh[f] \in Seq(Buffers)
      BY <1>1 DEF PipeTypes
    <3>2. QED
      BY <1>1, <3>1
  <2>4. QED
    BY <1>1, <2>1, <2>2, <2>3 DEF InUseOnce
<1>7. CASE ReadCopy(e)
  BY <1>2, <1>7 DEF ReadCopy, writeVars
<1>8. CASE ReadNext(e)
  <2>1. CASE Take(e)
    BY <1>1, <1>8, <2>1, TakeOnce DEF ReadNext, writeVars
  <2>2. CASE ~Take(e)
    <3>1. UNCHANGED <<rCh, wb>> /\ pool' = pool \cup Released(e) /\ b' = [b EXCEPT ![e] = None]
      BY <1>8, <2>2 DEF ReadNext, writeVars
    <3>2. /\ \A f \in End : b'[f] = IF f = e THEN None ELSE b[f]
          /\ \A y : y \in pool' <=> y \in pool \/ (y = b[e] /\ y # None)
      BY <1>1, <3>1 DEF PipeTypes, Released
    <3>3. \A f \in End : \A i \in 1..Len(rCh[f]) : rCh[f][i] # None
      <4>1. \A f \in End : rCh[f] \in Seq(Buffers)
        BY <1>1 DEF PipeTypes
      <4>2. QED
        BY <1>1, <4>1
    <3>4. QED
      BY <1>1, <3>1, <3>2, <3>3 DEF InUseOnce
  <2>3. QED
    BY <2>1, <2>2
<1>9. CASE ReadTake(e) \/ ReadLast(e)
  <2>1. b[e] = None /\ UNCHANGED <<pool, wb>>
    BY <1>9 DEF PipeInv, AtWork, ReadTake, ReadLast, writeVars
  <2>2. pool' = pool \cup Released(e)
    BY <2>1 DEF Released
  <2>3. CASE Take(e)
    BY <1>1, <2>1, <2>2, <2>3, TakeOnce
  <2>4. CASE ~Take(e)
    BY <1>2, <1>9, <2>1, <2>4 DEF ReadTake, ReadLast
  <2>5. QED
    BY <2>3, <2>4
<1>10. QED
  BY <1>3, <1>4, <1>5, <1>6, <1>7, <1>8, <1>9, StepKinds

-----------------------------------------------------------------------------
(* The streams stay intact. *)

\* It suffices to show StreamAt with the number of Writes taken in the next state.
LEMMA StreamsNext ==
  ASSUME \A f \in End : \E k \in Int : k = Taken(f)' /\ StreamAt(f, k)'
  PROVE  StreamIntact'
<1>1. StreamIntact' <=> \A f \in End : StreamAt(f, Taken(f))'
  BY DEF StreamIntact, StreamAt, ReadIntact, Place, Taken
<1>2. ASSUME NEW f \in End
      PROVE  StreamAt(f, Taken(f))'
  <2>1. PICK k \in Int : k = Taken(f)' /\ StreamAt(f, k)'
    OBVIOUS
  <2>2. QED
    BY <2>1 DEF StreamAt
<1>3. QED
  BY <1>1, <1>2

\* A step that changes nothing of a stream that is in use.
LEMMA StreamSame ==
  ASSUME PipeInv, NEW f \in End, rCh'[f] = rCh[f], got'[f] = got[f], bb'[f] = bb[f],
         b'[f] = b[f], sent'[Peer(f)] = sent[Peer(f)],
         b[f] # None => mem'[b[f]] = mem[b[f]],
         \A i \in 1..Len(rCh[f]) : mem'[rCh[f][i]] = mem[rCh[f][i]]
  PROVE  \E k \in Int : k = Taken(f)' /\ StreamAt(f, k)'
<1>1. PICK k \in Int : k = Taken(f) /\ StreamAt(f, k)
  BY TakenMessages
<1>2. bb[f] > 0 => b[f] # None
  BY DEF PipeInv, AtWork
<1>3. k = Taken(f)'
  BY <1>1 DEF Taken
<1>4. ReadIntact(f, k)'
  BY <1>1 DEF StreamAt, ReadIntact, Place
<1>5. StreamAt(f, k)'
  BY <1>1, <1>2, <1>4 DEF StreamAt
<1>6. QED
  BY <1>3, <1>5

\* The stream of the end that copies n bytes.
LEMMA StreamCopied ==
  ASSUME PipeInv, NEW e \in End, ReadCopy(e)
  PROVE  \E k \in Int : k = Taken(e)' /\ StreamAt(e, k)'
<1>1. PICK n \in Nat, bytes \in Seq(Byte) :
        /\ n <= want[e] /\ n <= bb[e] /\ Len(bytes) = n
        /\ \A i \in 1..n : bytes[i] = <<mem[b[e]], MsgSize - bb[e] + i>>
        /\ got' = [got EXCEPT ![e] = got[e] \o bytes]
        /\ bb' = [bb EXCEPT ![e] = bb[e] - n]
  BY Copies
<1>2. PICK k \in Int :
        /\ k = Taken(e) /\ StreamAt(e, k)
        /\ k * MsgSize \in Int /\ Len(got[e]) + bb[e] = k * MsgSize
        /\ bb[e] > 0 => k >= 1
  BY TakenMessages
<1>3. /\ UNCHANGED <<rCh, mem, b, sent>> /\ bb[e] > 0 /\ bb[e] \in Nat /\ bb[e] <= MsgSize
      /\ MsgSize \in Nat \ {0} /\ got[e] \in Seq(Byte) /\ Len(got[e]) \in Nat
  BY PipeAssumption DEF ReadCopy, writeVars, PipeInv, PipeTypes
<1>4. /\ got'[e] = got[e] \o bytes /\ bb'[e] = bb[e] - n
  BY <1>1 DEF PipeInv, PipeTypes
<1>5. /\ Len(got'[e]) = Len(got[e]) + n
      /\ \A i \in 1..Len(got[e]) : got'[e][i] = got[e][i]
      /\ \A i \in 1..n : got'[e][Len(got[e]) + i] = <<mem[b[e]], MsgSize - bb[e] + i>>
  <2>1. /\ Len(got'[e]) = Len(got[e]) + n
        /\ \A i \in 1..Len(got[e]) : got'[e][i] = got[e][i]
        /\ \A i \in 1..n : got'[e][Len(got[e]) + i] = bytes[i]
    <3>1. /\ Len(got[e] \o bytes) = Len(got[e]) + Len(bytes)
          /\ \A i \in 1..Len(got[e]) : (got[e] \o bytes)[i] = got[e][i]
          /\ \A i \in 1..Len(bytes) : (got[e] \o bytes)[Len(got[e]) + i] = bytes[i]
      BY <1>3, Concats
    <3>2. Len(bytes) = n
      BY <1>1
    <3>3. QED
      BY <1>4, <3>1, <3>2
  <2>2. ASSUME NEW i \in 1..n
        PROVE  got'[e][Len(got[e]) + i] = <<mem[b[e]], MsgSize - bb[e] + i>>
    BY <1>1, <2>1
  <2>3. QED
    BY <2>1, <2>2
<1>6. k = Taken(e)'
  BY <1>2, <1>3 DEF Taken
<1>7. mem[b[e]] = <<Peer(e), sent[Peer(e)][k]>>
  BY <1>2, <1>3 DEF StreamAt
<1>8. ASSUME NEW m \in 1..k, NEW j \in 1..MsgSize, Place(m, j) <= Len(got'[e])
      PROVE  got'[e][Place(m, j)] = <<<<Peer(e), sent[Peer(e)][m]>>, j>>
  <2>1. PICK at \in Int : at = (m - 1) * MsgSize
    BY <1>3
  <2>2. PICK end \in Int : end = k * MsgSize
    BY <1>2
  <2>3. at >= 0 /\ Place(m, j) = at + j
    BY <1>3, <2>1, Starts DEF Place
  <2>4. CASE at + j <= Len(got[e])
    <3>1. got[e][at + j] = <<<<Peer(e), sent[Peer(e)][m]>>, j>>
      BY <1>2, <2>3, <2>4 DEF StreamAt, ReadIntact
    <3>2. at + j \in 1..Len(got[e])
      BY <1>3, <2>3, <2>4
    <3>3. QED
      BY <1>5, <2>3, <3>1, <3>2
  <2>5. CASE at + j > Len(got[e])
    <3>1. m = k
      <4>1. m < k => m * MsgSize + MsgSize <= k * MsgSize
        BY <1>3, Following
      <4>2. (m - 1) * MsgSize = m * MsgSize - MsgSize /\ m * MsgSize \in Int
        BY <1>3, Whole
      <4>3. m < k => at + MsgSize + MsgSize <= end
        <5>1. PICK after \in Int : after = m * MsgSize
          BY <4>2
        <5>2. at = after - MsgSize /\ (m < k => after + MsgSize <= end)
          BY <2>1, <2>2, <4>1, <4>2, <5>1
        <5>3. MsgSize \in Int
          BY <1>3
        <5>4. QED
          BY <5>2, <5>3
      <4>4. QED
        BY <1>2, <1>3, <2>2, <2>5, <4>3
    <3>2. at = end - MsgSize
      BY <1>3, <2>1, <2>2, <3>1, Whole
    <3>3. PICK have \in Nat, left \in Nat : have = Len(got[e]) /\ left = bb[e]
      BY <1>3
    <3>4. have + left = end /\ n <= left /\ left <= MsgSize /\ j \in Int
      BY <1>1, <1>2, <1>3, <2>2, <3>3
    <3>5. PICK i \in 1..n : have + i = at + j
      <4>1. at + j > have
        BY <2>5, <3>3
      <4>2. at + j <= have + n
        <5>1. at + j <= Len(got'[e])
          BY <1>8, <2>3
        <5>2. QED
          BY <1>5, <3>3, <5>1
      <4>3. at + j - have \in 1..n /\ have + (at + j - have) = at + j
        BY <1>1, <3>4, <4>1, <4>2
      <4>4. QED
        BY <4>3
    <3>6. MsgSize - left + i = j
      <4>1. MsgSize \in Int
        BY <1>3
      <4>2. i = end - MsgSize + j - have
        BY <3>2, <3>4, <3>5, <4>1
      <4>3. QED
        BY <3>4, <4>1, <4>2
    <3>7. got'[e][have + i] = <<mem[b[e]], MsgSize - left + i>>
      BY <1>5, <3>3, <3>5
    <3>8. QED
      BY <1>7, <2>3, <3>1, <3>5, <3>6, <3>7
  <2>6. QED
    BY <1>3, <2>3, <2>4, <2>5
<1>9. Len(got'[e]) + bb'[e] = k * MsgSize
  BY <1>1, <1>2, <1>3, <1>4, <1>5
<1>10. ReadIntact(e, k)'
  BY <1>3, <1>8 DEF ReadIntact, Place
<1>11. StreamAt(e, k)'
  BY <1>2, <1>3, <1>7, <1>9, <1>10 DEF StreamAt
<1>12. QED
  BY <1>6, <1>11

\* The stream of the end that takes a buffer when it has read the last one to its end.
LEMMA StreamTaken ==
  ASSUME PipeInv, NEW e \in End, Take(e), bb[e] = 0, UNCHANGED <<mem, sent, got>>
  PROVE  \E k \in Int : k = Taken(e)' /\ StreamAt(e, k)'
<1> DEFINE w == sent[Peer(e)]
<1>1. PICK k \in Int :
        /\ k = Taken(e) /\ StreamAt(e, k)
        /\ k * MsgSize \in Int /\ Len(got[e]) + bb[e] = k * MsgSize /\ k >= 0
  BY TakenMessages
<1>2. /\ rCh'[e] = Tail(rCh[e]) /\ rCh[e] \in Seq(Buffers) /\ rCh[e] # <<>>
      /\ b'[e] = rCh[e][1] /\ bb'[e] = MsgSize
  <2>1. /\ rCh' = [rCh EXCEPT ![e] = Tail(rCh[e])] /\ rCh[e] \in Seq(Buffers) /\ rCh[e] # <<>>
        /\ b' = [b EXCEPT ![e] = rCh[e][1]] /\ bb' = [bb EXCEPT ![e] = MsgSize]
    BY Takes DEF PipeInv
  <2>2. QED
    BY <2>1 DEF PipeInv, PipeTypes
<1>3. /\ Len(rCh'[e]) = Len(rCh[e]) - 1 /\ Len(rCh[e]) >= 1
      /\ \A i \in 1..Len(rCh'[e]) : rCh'[e][i] = rCh[e][i + 1]
  BY <1>2, Tails
<1>4. /\ Len(got[e]) \in Nat /\ Len(rCh[e]) \in Nat /\ Len(w) \in Nat /\ MsgSize \in Nat \ {0}
  <2>1. got[e] \in Seq(Byte) /\ w \in Seq(Nat)
    BY Peers DEF PipeInv, PipeTypes
  <2>2. Len(got[e]) \in Nat /\ Len(w) \in Nat /\ Len(rCh[e]) \in Nat
    BY <1>2, <2>1
  <2>3. QED
    BY <2>2, PipeAssumption
<1>5. k + 1 = Taken(e)'
  <2>1. PICK have \in Nat, queue \in Nat : have = Len(w) /\ queue = Len(rCh[e])
    BY <1>4
  <2>2. k = have - queue /\ Len(rCh'[e]) = queue - 1
    BY <1>1, <1>3, <2>1 DEF Taken
  <2>3. Taken(e)' = have - (queue - 1)
    BY <2>1, <2>2 DEF Taken
  <2>4. QED
    BY <2>2, <2>3
<1>6. PICK end \in Int : end = k * MsgSize /\ Len(got[e]) = end /\ (k + 1) * MsgSize = end + MsgSize
  BY <1>1, <1>4, Whole
<1>7. ReadIntact(e, k + 1)'
  <2>1. ASSUME NEW m \in 1..k + 1, NEW j \in 1..MsgSize, Place(m, j) <= Len(got[e])
        PROVE  got[e][Place(m, j)] = <<<<Peer(e), w[m]>>, j>>
    <3>1. m # k + 1
      <4>1. m = k + 1 => Place(m, j) = end + j
        BY <1>6 DEF Place
      <4>2. QED
        BY <1>4, <1>6, <2>1, <4>1
    <3>2. m \in 1..k
      BY <3>1
    <3>3. QED
      BY <1>1, <2>1, <3>2 DEF StreamAt, ReadIntact
  <2>2. QED
    BY <2>1 DEF ReadIntact, Place
<1>8. mem'[b'[e]] = <<Peer(e), w[k + 1]>>
  <2>1. \A i \in 1..Len(rCh[e]) : mem[rCh[e][i]] = <<Peer(e), w[k + i]>>
    BY <1>1 DEF StreamAt
  <2>2. 1 \in 1..Len(rCh[e])
    BY <1>3, <1>4
  <2>3. QED
    BY <1>2, <2>1, <2>2
<1>9. ASSUME NEW i \in 1..Len(rCh'[e])
      PROVE  mem'[rCh'[e][i]] = <<Peer(e), w[k + 1 + i]>>
  <2>1. i + 1 \in 1..Len(rCh[e]) /\ rCh'[e][i] = rCh[e][i + 1]
    BY <1>3, <1>4
  <2>2. mem[rCh[e][i + 1]] = <<Peer(e), w[k + (i + 1)]>>
    BY <1>1, <2>1 DEF StreamAt
  <2>3. k + (i + 1) = k + 1 + i
    BY <1>3, <1>4
  <2>4. QED
    BY <2>1, <2>2, <2>3
<1>10. Len(got'[e]) + bb'[e] = (k + 1) * MsgSize
  BY <1>2, <1>6
<1>11. StreamAt(e, k + 1)'
  BY <1>7, <1>8, <1>9, <1>10 DEF StreamAt
<1>12. QED
  BY <1>5, <1>11

\* The stream of the end that is sent a buffer.
LEMMA StreamSent ==
  ASSUME PipeInv, NEW e \in End, WriteSend(e)
  PROVE  \E k \in Int : k = Taken(Peer(e))' /\ StreamAt(Peer(e), k)'
<1> DEFINE p == Peer(e)
           w == sent[e]
<1>1. p \in End /\ Peer(p) = e
  BY Peers
<1>2. PICK k \in Int :
        /\ k = Taken(p) /\ StreamAt(p, k)
        /\ k >= 0 /\ k <= Len(sent[Peer(p)])
        /\ bb[p] > 0 => k >= 1
  BY <1>1, TakenMessages
<1>3. /\ rCh'[p] = Append(rCh[p], wb[e]) /\ sent'[e] = Append(w, tries[e])
      /\ UNCHANGED <<mem, b, bb, got>>
      /\ rCh[p] \in Seq(Buffers) /\ w \in Seq(Nat) /\ tries[e] \in Nat
  BY <1>1 DEF PipeInv, PipeTypes, WriteSend, Send, readVars
<1>4. wb[e] \in Buffers /\ mem[wb[e]] = <<e, tries[e]>>
  BY DEF PipeInv, PipeTypes, AtWork, WriteSend
<1>5. PICK have \in Nat, queue \in Nat : have = Len(w) /\ queue = Len(rCh[p])
  BY <1>3
<1>6. /\ Len(rCh'[p]) = queue + 1 /\ \A i \in 1..queue : rCh'[p][i] = rCh[p][i]
      /\ rCh'[p][queue + 1] = wb[e]
  BY <1>3, <1>4, <1>5, Appends
<1>7. /\ Len(sent'[e]) = have + 1 /\ \A i \in 1..have : sent'[e][i] = w[i]
      /\ sent'[e][have + 1] = tries[e]
  BY <1>3, <1>5, Appends
<1>8. k = have - queue /\ k <= have
  BY <1>1, <1>2, <1>5 DEF Taken
<1>9. k = Taken(p)'
  <2>1. Taken(p)' = (have + 1) - (queue + 1)
    BY <1>1, <1>6, <1>7 DEF Taken
  <2>2. QED
    BY <1>8, <2>1
<1>10. ReadIntact(p, k)'
  <2>1. ASSUME NEW m \in 1..k, NEW j \in 1..MsgSize, Place(m, j) <= Len(got[p])
        PROVE  got[p][Place(m, j)] = <<<<e, sent'[e][m]>>, j>>
    BY <1>1, <1>2, <1>7, <1>8, <2>1 DEF StreamAt, ReadIntact
  <2>2. QED
    BY <1>1, <1>3, <2>1 DEF ReadIntact, Place
<1>11. bb[p] > 0 => mem[b[p]] = <<e, sent'[e][k]>>
  <2>1. bb[p] > 0 => k \in 1..have
    BY <1>2, <1>8
  <2>2. QED
    BY <1>1, <1>2, <1>7, <2>1 DEF StreamAt
<1>12. ASSUME NEW i \in 1..Len(rCh'[p])
       PROVE  mem[rCh'[p][i]] = <<e, sent'[e][k + i]>>
  <2>1. CASE i = queue + 1
    <3>1. k + i = have + 1
      BY <1>8, <2>1
    <3>2. QED
      BY <1>4, <1>6, <1>7, <2>1, <3>1
  <2>2. CASE i \in 1..queue
    <3>1. k + i \in 1..have
      BY <1>2, <1>8, <2>2
    <3>2. mem[rCh[p][i]] = <<e, w[k + i]>>
      BY <1>1, <1>2, <1>5, <2>2 DEF StreamAt
    <3>3. QED
      BY <1>6, <1>7, <2>2, <3>1, <3>2
  <2>3. QED
    BY <1>6, <2>1, <2>2
<1>13. Len(got[p]) + bb[p] = k * MsgSize
  BY <1>2 DEF StreamAt
<1>14. StreamAt(p, k)'
  BY <1>1, <1>3, <1>10, <1>11, <1>12, <1>13 DEF StreamAt
<1>15. QED
  BY <1>9, <1>14

LEMMA StreamsKept ==
  ASSUME PipeInv, NEW e \in End, PipeOp(e)
  PROVE  StreamIntact'
<1>1. PipeTypes /\ InUseOnce /\ AtWork
  BY DEF PipeInv
<1>2. SUFFICES ASSUME NEW f \in End
               PROVE  \E k \in Int : k = Taken(f)' /\ StreamAt(f, k)'
  BY StreamsNext
<1>3. Peer(f) \in End /\ \A g \in End : Peer(g) = Peer(f) => g = f
  BY Peers
<1>4. CASE Looks(e)
  BY <1>4, LooksLeaves, StreamSame
<1>5. CASE WriteBegin(e)
  <2>1. UNCHANGED <<rCh, b, bb, got, sent>>
    BY <1>5 DEF WriteBegin, readVars
  <2>2. \A x \in Buffers \ pool : mem'[x] = mem[x]
    BY <1>1, <1>5 DEF WriteBegin, PipeTypes
  <2>3. b[f] # None => mem'[b[f]] = mem[b[f]]
    BY <1>1, <2>2 DEF InUseOnce, PipeTypes
  <2>4. ASSUME NEW i \in 1..Len(rCh[f])
        PROVE  mem'[rCh[f][i]] = mem[rCh[f][i]]
    <3>1. rCh[f] \in Seq(Buffers)
      BY <1>1 DEF PipeTypes
    <3>2. rCh[f][i] \in Buffers
      BY <3>1
    <3>3. rCh[f][i] \notin pool
      BY <1>1 DEF InUseOnce
    <3>4. QED
      BY <2>2, <3>2, <3>3
  <2>5. QED
    BY <2>1, <2>3, <2>4, StreamSame
<1>6. CASE WriteSend(e)
  <2>1. CASE f = Peer(e)
    BY <1>6, <2>1, StreamSent
  <2>2. CASE f # Peer(e)
    <3>1. Peer(f) # e
      BY <2>2, Peers
    <3>2. /\ UNCHANGED <<mem, b, bb, got>> /\ rCh'[f] = rCh[f]
          /\ sent'[Peer(f)] = sent[Peer(f)]
      BY <1>1, <1>3, <1>6, <2>2, <3>1 DEF WriteSend, Send, readVars, PipeTypes
    <3>3. QED
      BY <3>2, StreamSame
  <2>3. QED
    BY <2>1, <2>2
<1>7. CASE WriteFails(e)
  <2>1. UNCHANGED <<rCh, mem, b, bb, got, sent>>
    BY <1>7 DEF WriteFails, readVars
  <2>2. QED
    BY <2>1, StreamSame
<1>8. CASE ReadCopy(e)
  <2>1. CASE f = e
    BY <1>8, <2>1, StreamCopied
  <2>2. CASE f # e
    <3>1. UNCHANGED <<rCh, mem, b, sent>> /\ got'[f] = got[f] /\ bb'[f] = bb[f]
      BY <1>1, <1>8, <2>2 DEF ReadCopy, writeVars, PipeTypes
    <3>2. QED
      BY <3>1, StreamSame
  <2>3. QED
    BY <2>1, <2>2
<1>9. CASE ReadNext(e) \/ ReadTake(e) \/ ReadLast(e)
  <2>1. UNCHANGED <<mem, got, sent>> /\ bb[e] = 0
    BY <1>1, <1>9 DEF ReadNext, ReadTake, ReadLast, writeVars, AtWork
  <2>2. CASE Take(e) /\ f = e
    BY <2>1, <2>2, StreamTaken
  <2>3. CASE Take(e) /\ f # e
    <3>1. /\ rCh' = [rCh EXCEPT ![e] = Tail(rCh[e])]
          /\ b' = [b EXCEPT ![e] = rCh[e][1]] /\ bb' = [bb EXCEPT ![e] = MsgSize]
      BY <1>1, <2>3, Takes
    <3>2. rCh'[f] = rCh[f] /\ b'[f] = b[f] /\ bb'[f] = bb[f]
      BY <1>1, <2>3, <3>1 DEF PipeTypes
    <3>3. QED
      BY <2>1, <3>2, StreamSame
  <2>4. CASE ~Take(e)
    <3>1. UNCHANGED <<rCh, bb>> /\ (b'[f] = b[f] \/ (f = e /\ b'[f] = None))
      BY <1>1, <1>9, <2>4 DEF ReadNext, ReadTake, ReadLast, PipeTypes
    <3>2. CASE b'[f] = b[f]
      BY <2>1, <3>1, <3>2, StreamSame
    <3>3. CASE f = e
      <4>1. PICK k \in Int : k = Taken(e) /\ StreamAt(e, k)
        BY TakenMessages
      <4>2. k = Taken(e)'
        BY <2>1, <3>1, <4>1 DEF Taken
      <4>3. ReadIntact(e, k)'
        BY <2>1, <4>1 DEF StreamAt, ReadIntact, Place
      <4>4. StreamAt(e, k)'
        BY <2>1, <3>1, <4>1, <4>3 DEF StreamAt
      <4>5. QED
        BY <3>3, <4>2, <4>4
    <3>4. QED
      BY <3>1, <3>2, <3>3
  <2>5. QED
    BY <2>2, <2>3, <2>4
<1>10. QED
  BY <1>4, <1>5, <1>6, <1>7, <1>8, <1>9, StepKinds

-----------------------------------------------------------------------------
(* What is read before an EOF. *)

\* Every Write has been read that was sent to an end that has nothing left.
LEMMA AllRead ==
  ASSUME PipeInv, NEW e \in End, bb[e] = 0, rCh[e] = <<>>
  PROVE  Len(got[e]) >= before[e] * MsgSize
<1>1. PICK k \in Int :
        /\ k = Taken(e) /\ k * MsgSize \in Int /\ Len(got[e]) + bb[e] = k * MsgSize
  BY TakenMessages
<1>2. PICK have \in Nat, start \in Nat : have = Len(sent[Peer(e)]) /\ start = before[e]
  BY Peers DEF PipeInv, PipeTypes
<1>3. k = have /\ start <= have
  <2>1. Len(rCh[e]) = 0
    OBVIOUS
  <2>2. k = have - 0
    BY <1>1, <1>2, <2>1 DEF Taken
  <2>3. QED
    BY <1>2, <2>2 DEF PipeInv, Ends
<1>4. Len(got[e]) = k * MsgSize
  BY <1>1 DEF PipeInv, PipeTypes
<1>5. MsgSize \in Nat
  BY PipeAssumption
<1>6. start < have => start * MsgSize + MsgSize <= have * MsgSize
  BY <1>5, Following
<1>7. start * MsgSize <= have * MsgSize
  <2>1. start * MsgSize \in Int /\ have * MsgSize \in Int
    BY <1>5
  <2>2. CASE start = have
    BY <2>1, <2>2
  <2>3. CASE start < have
    BY <1>5, <1>6, <2>1, <2>3
  <2>4. QED
    BY <1>3, <2>2, <2>3
<1>8. QED
  BY <1>2, <1>3, <1>4, <1>7

LEMMA StoppedGrows ==
  ASSUME NEW e \in End, PipeOp(e)
  PROVE  stopped \subseteq stopped'
BY DEF PipeOp, PipeStep, Write, Read, Close, WriteBegin, WriteSend, Send, WriteFull, WriteFails, ReadBegin,
         ReadCopy, ReadNext, ReadTake, ReadWakes, ReadLast, Passes, SetDeadline

LEMMA EndsKept ==
  ASSUME PipeInv, NEW e \in End, PipeOp(e)
  PROVE  Ends' /\ EOFAfterAll'
<1>1. PipeTypes /\ AtWork /\ Ends /\ EOFAfterAll
  BY DEF PipeInv
<1>2. stopped \subseteq stopped'
  BY StoppedGrows
<1>3. \A f \in End : /\ Len(sent[f]) \in Nat /\ Len(sent'[f]) \in Nat /\ before[f] \in Nat
                     /\ Len(got[f]) \in Nat /\ Peer(f) \in End
  <2>1. sent' \in [End -> Seq(Nat)]
    BY TypesKept DEF PipeTypes
  <2>2. ASSUME NEW f \in End
        PROVE  sent[f] \in Seq(Nat) /\ sent'[f] \in Seq(Nat) /\ before[f] \in Nat /\ got[f] \in Seq(Byte)
    BY <1>1, <2>1 DEF PipeTypes
  <2>3. QED
    BY <2>2, Peers
<1>4. \A f \in End : Len(sent'[f]) >= Len(sent[f])
  <2>1. CASE WriteSend(e)
    <3>1. sent' = [sent EXCEPT ![e] = Append(sent[e], tries[e])] /\ tries[e] \in Nat /\ sent[e] \in Seq(Nat)
      BY <1>1, <2>1 DEF WriteSend, Send, PipeTypes
    <3>2. Len(Append(sent[e], tries[e])) = Len(sent[e]) + 1
      BY <3>1, Appends
    <3>3. QED
      BY <1>1, <1>3, <3>1, <3>2 DEF PipeTypes
  <2>2. CASE ~WriteSend(e)
    <3>1. sent' = sent
      BY <2>2 DEF PipeOp, PipeStep, Write, Read, Close, WriteBegin, WriteFull, WriteFails, ReadBegin,
         ReadCopy, ReadNext, ReadTake, ReadWakes, ReadLast, Passes, SetDeadline, writeVars
    <3>2. QED
      BY <1>3, <3>1
  <2>3. QED
    BY <2>1, <2>2
<1>5. \A f \in End : Len(got'[f]) >= Len(got[f])
  <2>1. CASE ReadCopy(e)
    <3>1. PICK n \in Nat, bytes \in Seq(Byte) :
            Len(bytes) = n /\ got' = [got EXCEPT ![e] = got[e] \o bytes]
      BY <2>1, Copies
    <3>2. got[e] \in Seq(Byte)
      BY <1>1 DEF PipeTypes
    <3>3. Len(got[e] \o bytes) = Len(got[e]) + n
      BY <3>1, <3>2, Concats
    <3>4. QED
      BY <1>1, <1>3, <3>1, <3>3 DEF PipeTypes
  <2>2. CASE ~ReadCopy(e)
    <3>1. got' = got
      BY <2>2 DEF PipeOp, PipeStep, Write, Read, Close, WriteBegin, WriteSend, Send, WriteFull, WriteFails,
         ReadBegin, ReadNext, ReadTake, ReadWakes, ReadLast, Passes, SetDeadline, readVars
    <3>2. QED
      BY <1>3, <3>1
  <2>3. QED
    BY <2>1, <2>2
<1>6. CASE Close(e[1])
  <2>1. /\ e[1] \notin stopped /\ UNCHANGED <<sent, got, eof>>
        /\ \A f \in End : before'[f] = IF f[1] = e[1] THEN Len(sent[Peer(f)]) ELSE before[f]
    BY <1>6 DEF Close, readVars, writeVars
  <2>2. \A f \in eof : f \in End /\ f[1] # e[1]
    BY <1>1, <2>1 DEF Ends, Stopped, PipeTypes
  <2>3. ASSUME NEW f \in End
        PROVE  before'[f] <= Len(sent'[Peer(f)])
    <3>1. PICK have \in Nat : have = Len(sent[Peer(f)]) /\ have = Len(sent'[Peer(f)])
      BY <1>3, <2>1
    <3>2. before[f] <= have
      BY <1>1, <3>1 DEF Ends
    <3>3. before'[f] = have \/ before'[f] = before[f]
      BY <2>1, <3>1
    <3>4. QED
      BY <3>1, <3>2, <3>3
  <2>4. \A f \in eof' : Stopped(f)'
    BY <1>1, <1>2, <2>1 DEF Ends, Stopped
  <2>5. QED
    BY <1>1, <2>1, <2>2, <2>3, <2>4 DEF Ends, EOFAfterAll
<1>7. CASE ~Close(e[1])
  <2>1. before' = before
    BY <1>7 DEF PipeOp, PipeStep, Write, Read, WriteBegin, WriteSend, Send, WriteFull, WriteFails, ReadBegin,
         ReadCopy, ReadNext, ReadTake, ReadWakes, ReadLast, Passes, SetDeadline
  <2>2. ASSUME NEW f \in End
        PROVE  before'[f] <= Len(sent'[Peer(f)])
    <3>1. PICK have \in Nat, more \in Nat : have = Len(sent[Peer(f)]) /\ more = Len(sent'[Peer(f)])
      BY <1>3
    <3>2. before[f] <= have /\ have <= more /\ before[f] \in Nat
      BY <1>1, <1>3, <1>4, <3>1 DEF Ends
    <3>3. QED
      BY <2>1, <3>1, <3>2
  <2>3. ASSUME NEW f \in eof'
        PROVE  Stopped(f)' /\ Len(got'[f]) >= before'[f] * MsgSize
    <3>1. CASE f \in eof
      <4>1. f \in End /\ Len(got[f]) >= before[f] * MsgSize /\ Stopped(f)
        BY <1>1, <3>1 DEF Ends, EOFAfterAll, PipeTypes
      <4>2. PICK n \in Int : n = before[f] * MsgSize
        BY <1>3, <4>1, PipeAssumption
      <4>3. Len(got'[f]) >= n
        <5>1. PICK have \in Nat, more \in Nat : have = Len(got[f]) /\ more = Len(got'[f])
          <6>1. got' \in [End -> Seq(Byte)]
            BY TypesKept DEF PipeTypes
          <6>2. QED
            BY <1>3, <4>1, <6>1
        <5>2. have >= n /\ more >= have
          BY <1>5, <4>1, <4>2, <5>1
        <5>3. QED
          BY <5>1, <5>2
      <4>4. QED
        BY <1>2, <2>1, <4>1, <4>2, <4>3 DEF Stopped
    <3>2. CASE f \notin eof
      <4>1. f = e /\ ReadLast(e) /\ rpc[e] = "last" /\ rCh[e] = <<>> /\ UNCHANGED <<got, stopped>>
        BY <3>2 DEF PipeOp, PipeStep, Write, Read, Close, WriteBegin, WriteSend, Send, WriteFull, WriteFails, ReadBegin,
         ReadCopy, ReadNext, ReadTake, ReadWakes, ReadLast, Passes, SetDeadline, readVars, LooksAgain
      <4>2. Stopped(e) /\ bb[e] = 0
        BY <1>1, <4>1 DEF AtWork
      <4>3. QED
        BY <2>1, <4>1, <4>2, AllRead DEF Stopped
    <3>3. QED
      BY <3>1, <3>2
  <2>4. QED
    BY <2>2, <2>3 DEF Ends, EOFAfterAll
<1>8. QED
  BY <1>6, <1>7

\* What a pipe does keeps its invariant, and so does what changes no pipe.
LEMMA PipeKept ==
  ASSUME PipeInv, NEW e \in End, PipeOp(e)
  PROVE  PipeInv'
BY TypesKept, BoundsKept, OnceKept, WorkKept, StreamsKept, EndsKept DEF PipeInv

LEMMA PipeSame ==
  ASSUME PipeInv, UNCHANGED pipeVars
  PROVE  PipeInv'
<1>1. /\ UNCHANGED <<stopped, rCh, pool, mem, rpc, b, bb, want, mayBlock, got, eof>>
      /\ UNCHANGED <<wpc, wb, tries, sent, passed, before>>
  BY DEF pipeVars, readVars, writeVars
<1>2. PipeTypes' /\ Bounds'
  <2>1. PipeTypes'
    <3>1. PipeTypes
      BY DEF PipeInv
    <3>2. QED
      BY <1>1, <3>1 DEF PipeTypes
  <2>2. Bounds'
    BY <1>1 DEF PipeInv, Bounds
  <2>3. QED
    BY <2>1, <2>2
<1>3. InUseOnce' /\ AtWork'
  <2>1. InUseOnce'
    BY <1>1 DEF PipeInv, InUseOnce
  <2>2. AtWork'
    BY <1>1 DEF PipeInv, AtWork, Stopped
  <2>3. QED
    BY <2>1, <2>2
<1>4. StreamIntact'
  BY <1>1 DEF PipeInv, StreamIntact
<1>5. Ends' /\ EOFAfterAll'
  BY <1>1 DEF PipeInv, Ends, Stopped, EOFAfterAll
<1>6. QED
  BY <1>2, <1>3, <1>4, <1>5 DEF PipeInv

LEMMA PipeStarts ==
  ASSUME PipeInit
  PROVE  PipeInv
<1>1. MsgSize \in Nat /\ ChanCap \in Nat /\ \A e \in End : Writes(e) \in Nat /\ Peer(e) \in End
  BY PipeAssumption, Peers
<1>2. PipeTypes
  <2>1. /\ rCh \in [End -> Seq(Buffers)] /\ sent \in [End -> Seq(Nat)] /\ got \in [End -> Seq(Byte)]
    BY DEF PipeInit
  <2>2. QED
    BY <1>1, <2>1 DEF PipeInit, PipeTypes
<1>3. Bounds /\ InUseOnce /\ AtWork
  BY <1>1, PipeAssumption DEF PipeInit, Bounds, InUseOnce, AtWork
<1>4. ASSUME NEW e \in End
      PROVE  Taken(e) = 0 /\ StreamAt(e, 0)
  <2>1. rCh[e] = <<>> /\ got[e] = <<>> /\ bb[e] = 0 /\ sent[Peer(e)] = <<>>
    BY <1>1 DEF PipeInit
  <2>2. QED
    BY <1>1, <2>1 DEF Taken, StreamAt, ReadIntact
<1>5. StreamIntact
  BY <1>4, StreamForm
<1>6. Ends /\ EOFAfterAll
  BY <1>1 DEF PipeInit, Ends, EOFAfterAll
<1>7. QED
  BY <1>2, <1>3, <1>5, <1>6 DEF PipeInv

-----------------------------------------------------------------------------
(* The listener.  A Dial has the lock from when it sends its connection until the  *)
(* connection is accepted, so that the channel holds one connection at most, the   *)
(* one of the Dial that has the lock.                                              *)

ListenerTypes ==
  /\ lock \in Pipes \cup {None}
  /\ closed \in BOOLEAN
  /\ conns \in Seq(Pipes) /\ accepted \in Seq(Pipes)
  /\ dpc \in [Pipes -> {"idle", "wait", "open", "refused"}]
  /\ cpc \in [Closers -> {"idle", "lock", "closed", "error"}]
  /\ acceptor \in {"accept", "error", "gone"}

LockHeld ==
  /\ \A p \in Pipes : dpc[p] = "wait" <=> lock = p
  /\ conns = <<>> \/ (lock # None /\ conns = <<lock>> /\ ~WasAccepted(lock))
  /\ closed => lock = None

Dials ==
  /\ \A p \in Pipes : WasAccepted(p) => dpc[p] \in {"wait", "open"}
  /\ \A p \in Pipes : dpc[p] = "open" => WasAccepted(p)
  /\ \A p \in Pipes : dpc[p] = "refused" => p \in stopped
  /\ \A i, j \in 1..Len(accepted) : accepted[i] = accepted[j] => i = j

IInv == PipeInv /\ ListenerTypes /\ LockHeld /\ Dials

LEMMA Starting == Init => IInv
<1>1. SUFFICES ASSUME Init PROVE IInv
  OBVIOUS
<1>2. PipeInv
  BY <1>1, PipeStarts DEF Init
<1>3. ListenerTypes
  <2>1. conns \in Seq(Pipes) /\ accepted \in Seq(Pipes)
    BY <1>1 DEF Init
  <2>2. QED
    BY <1>1, <2>1 DEF Init, ListenerTypes
<1>4. LockHeld /\ Dials
  BY <1>1, PipeAssumption DEF Init, LockHeld, Dials, WasAccepted
<1>5. QED
  BY <1>2, <1>3, <1>4 DEF IInv

\* A Dial that changes no more than the lock, conns and its own place.
LEMMA Dialling ==
  ASSUME IInv, NEW p \in Pipes, DialSends(p) \/ DialRefused(p) \/ DialReturns(p)
  PROVE  IInv'
<1>1. ListenerTypes /\ LockHeld /\ Dials /\ None \notin Pipes
  BY PipeAssumption DEF IInv
<1>2. CASE DialSends(p)
  <2>1. PipeInv'
    BY <1>2, PipeSame DEF IInv, DialSends
  <2>2. /\ dpc[p] = "idle" /\ lock = None /\ ~closed /\ lock' = p
        /\ conns' = Append(conns, p) /\ conns = <<>>
        /\ \A q \in Pipes : dpc'[q] = IF q = p THEN "wait" ELSE dpc[q]
        /\ UNCHANGED <<stopped, closed, cpc, acceptor, accepted>>
    BY <1>1, <1>2 DEF DialSends, Keep, LockHeld, ListenerTypes, pipeVars
  <2>3. ListenerTypes'
    BY <1>1, <1>2, <2>2 DEF ListenerTypes, DialSends
  <2>4. LockHeld'
    <3>1. conns' = <<p>>
      BY <2>2
    <3>2. ~WasAccepted(p)
      BY <1>1, <2>2 DEF Dials
    <3>3. QED
      BY <1>1, <2>2, <3>1, <3>2 DEF LockHeld, WasAccepted
  <2>5. Dials'
    BY <1>1, <2>2 DEF Dials, WasAccepted
  <2>6. QED
    BY <2>1, <2>3, <2>4, <2>5 DEF IInv
<1>3. CASE DialRefused(p)
  <2>1. <<p, 1>> \in End /\ PipeOp(<<p, 1>>)
    BY <1>3 DEF DialRefused, PipeOp, End
  <2>2. PipeInv'
    BY <2>1, PipeKept DEF IInv
  <2>3. /\ dpc[p] = "idle" /\ lock = None /\ stopped' = stopped \cup {p}
        /\ dpc' = [dpc EXCEPT ![p] = "refused"]
        /\ \A q \in Pipes : dpc'[q] = IF q = p THEN "refused" ELSE dpc[q]
        /\ UNCHANGED <<lock, closed, conns, cpc, acceptor, accepted>>
    BY <1>1, <1>3 DEF DialRefused, Close, ListenerTypes
  <2>4. ListenerTypes'
    BY <1>1, <2>3 DEF ListenerTypes
  <2>5. LockHeld' /\ Dials'
    BY <1>1, <2>3 DEF LockHeld, Dials, WasAccepted
  <2>6. QED
    BY <2>2, <2>4, <2>5 DEF IInv
<1>4. CASE DialReturns(p)
  <2>1. PipeInv'
    BY <1>4, PipeSame DEF IInv, DialReturns
  <2>2. /\ dpc[p] = "wait" /\ WasAccepted(p) /\ lock' = None /\ lock = p
        /\ dpc' = [dpc EXCEPT ![p] = "open"]
        /\ \A q \in Pipes : dpc'[q] = IF q = p THEN "open" ELSE dpc[q]
        /\ UNCHANGED <<stopped, closed, conns, cpc, acceptor, accepted>>
    BY <1>1, <1>4 DEF DialReturns, Unlock, LockHeld, ListenerTypes, pipeVars
  <2>3. ListenerTypes'
    BY <1>1, <2>2 DEF ListenerTypes
  <2>4. LockHeld' /\ Dials'
    BY <1>1, <2>2 DEF LockHeld, Dials, WasAccepted
  <2>5. QED
    BY <2>1, <2>3, <2>4 DEF IInv
<1>5. QED
  BY <1>2, <1>3, <1>4

LEMMA Accepting ==
  ASSUME IInv, Accept
  PROVE  IInv'
<1>1. ListenerTypes /\ LockHeld /\ Dials /\ None \notin Pipes /\ PipeInv'
  BY PipeAssumption, PipeSame DEF IInv, Accept
<1>2. /\ lock \in Pipes /\ conns = <<lock>> /\ ~WasAccepted(lock)
      /\ accepted \in Seq(Pipes)
      /\ UNCHANGED <<stopped, lock, closed, dpc, cpc, acceptor>>
  BY <1>1 DEF Accept, LockHeld, ListenerTypes, pipeVars
<1>3. accepted' = Append(accepted, lock) /\ conns' = <<>>
  BY <1>2 DEF Accept
<1>4. /\ accepted' \in Seq(Pipes) /\ Len(accepted') = Len(accepted) + 1
      /\ \A i \in 1..Len(accepted) : accepted'[i] = accepted[i]
      /\ accepted'[Len(accepted) + 1] = lock
      /\ Len(accepted) \in Nat
  BY <1>2, <1>3, Appends
<1>5. \A p : WasAccepted(p)' <=> WasAccepted(p) \/ p = lock
  <2>1. \A i : i \in 1..Len(accepted') <=> i \in 1..Len(accepted) \/ i = Len(accepted) + 1
    BY <1>4
  <2>2. QED
    BY <1>4, <2>1 DEF WasAccepted
<1>6. ListenerTypes' /\ LockHeld'
  BY <1>1, <1>2, <1>3, <1>4 DEF ListenerTypes, LockHeld
<1>7. \A i, j \in 1..Len(accepted') : accepted'[i] = accepted'[j] => i = j
  <2>1. \A i \in 1..Len(accepted) : accepted[i] # lock
    BY <1>2 DEF WasAccepted
  <2>2. \A i : i \in 1..Len(accepted') <=> i \in 1..Len(accepted) \/ i = Len(accepted) + 1
    BY <1>4
  <2>3. \A i, j \in 1..Len(accepted) : accepted[i] = accepted[j] => i = j
    BY <1>1 DEF Dials
  <2>4. QED
    BY <1>4, <2>1, <2>2, <2>3
<1>8. Dials'
  BY <1>1, <1>2, <1>5, <1>7 DEF Dials, LockHeld
<1>9. QED
  BY <1>1, <1>6, <1>8 DEF IInv

\* The other steps of the listener change no lock and no place of a Dial.
LEMMA Listening ==
  ASSUME IInv,
         \/ AcceptFails \/ AcceptorLeaves \/ UNCHANGED vars
         \/ \E c \in Closers : CloseBegin(c) \/ CloseListener(c)
  PROVE  IInv'
<1>1. ListenerTypes /\ LockHeld /\ Dials
  BY DEF IInv
<1>2. UNCHANGED <<pipeVars, lock, conns, dpc, accepted>> /\ (closed' = closed \/ (lock = None /\ closed'))
  BY DEF AcceptFails, AcceptorLeaves, vars, lnVars, CloseBegin, CloseListener
<1>3. ListenerTypes'
  BY <1>1, <1>2 DEF AcceptFails, AcceptorLeaves, vars, lnVars, CloseBegin, CloseListener, ListenerTypes
<1>4. LockHeld' /\ Dials'
  BY <1>1, <1>2 DEF LockHeld, Dials, WasAccepted, pipeVars
<1>5. QED
  BY <1>2, <1>3, <1>4, PipeSame DEF IInv

LEMMA Chatting ==
  ASSUME IInv, NEW e \in End, Chat(PipeStep(e), e)
  PROVE  IInv'
<1>1. PipeInv' /\ stopped \subseteq stopped'
  <2>1. PipeOp(e)
    BY DEF Chat, PipeOp
  <2>2. QED
    BY <2>1, PipeKept, StoppedGrows DEF IInv
<1>2. UNCHANGED <<lock, closed, conns, dpc, cpc, acceptor, accepted>>
  BY DEF Chat, lnVars
<1>3. ListenerTypes' /\ LockHeld' /\ Dials'
  BY <1>1, <1>2 DEF IInv, ListenerTypes, LockHeld, Dials, WasAccepted
<1>4. QED
  BY <1>1, <1>3 DEF IInv

\* The invariant holds in every reachable state, for any pipes, buffers and ends in use.
THEOREM Invariance == Spec => []IInv
<1>1. Init => IInv
  BY Starting
<1>2. IInv /\ [Next]_vars => IInv'
  <2>1. SUFFICES ASSUME IInv, [Next]_vars
                 PROVE  IInv'
    OBVIOUS
  <2>2. CASE \E p \in Pipes : DialSends(p) \/ DialRefused(p) \/ DialReturns(p)
    BY <2>1, <2>2, Dialling
  <2>3. CASE Accept
    BY <2>1, <2>3, Accepting
  <2>4. CASE \/ AcceptFails \/ AcceptorLeaves \/ UNCHANGED vars
             \/ \E c \in Closers : CloseBegin(c) \/ CloseListener(c)
    BY <2>1, <2>4, Listening
  <2>5. CASE \E e \in End : Chat(PipeStep(e), e)
    BY <2>1, <2>5, Chatting
  <2>6. QED
    BY <2>1, <2>2, <2>3, <2>4, <2>5 DEF Next
<1>3. QED
  BY <1>1, <1>2, PTL DEF Spec

\* Every variable keeps its type: no channel is overfull, no end writes more than it may.
THEOREM TypeCorrect == Spec => []TypeOK
<1>1. ASSUME IInv
      PROVE  TypeOK
  <2>1. ASSUME NEW e \in End
        PROVE  sent[e] \in Seq(1..tries[e])
    <3>1. sent[e] \in Seq(Nat) /\ \A k \in 1..Len(sent[e]) : sent[e][k] \in 1..tries[e]
      BY <1>1 DEF IInv, PipeInv, PipeTypes, Bounds
    <3>2. sent[e] \in [1..Len(sent[e]) -> Nat] /\ Len(sent[e]) \in Nat
      BY <3>1, LenProperties
    <3>3. sent[e] \in [1..Len(sent[e]) -> 1..tries[e]]
      BY <3>1, <3>2
    <3>4. QED
      BY <3>2, <3>3, SeqDef
  <2>2. PipeTypeOK
    BY <1>1, <2>1, PipeAssumption DEF IInv, PipeInv, PipeTypes, Bounds, PipeTypeOK
  <2>3. QED
    BY <1>1, <2>2 DEF IInv, ListenerTypes, TypeOK
<1>2. QED
  BY <1>1, Invariance, PTL

\* What arrives at an end is what the other end sent, whatever the pipes share.
THEOREM StreamsCorrect == Spec => []StreamIntact
<1>1. IInv => StreamIntact
  BY DEF IInv, PipeInv
<1>2. QED
  BY <1>1, Invariance, PTL

\* Nothing that was sent before a Close is behind an EOF.
THEOREM EOFCorrect == Spec => []EOFAfterAll
<1>1. IInv => EOFAfterAll
  BY DEF IInv, PipeInv
<1>2. QED
  BY <1>1, Invariance, PTL

\* A Dial that returns has been accepted, and no other; a closed channel is empty.
THEOREM DialCorrect == Spec => []DialMeansAccepted
<1>1. IInv => DialMeansAccepted
  BY DEF IInv, LockHeld, Dials, DialMeansAccepted
<1>2. QED
  BY <1>1, Invariance, PTL

=============================================================================
