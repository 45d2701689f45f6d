--------------------------- MODULE ServeConnProofs ---------------------------
(* Theorems about ServeConn, for every value of its constants: any number of *)
(* connections, of pooled objects and of requests, and any buffer sizes.     *)
EXTENDS ServeConn, SequenceTheorems, TLAPS

Places == {"new", "top", "read", "handle", "leave", "done"}

\* The loop goes on.
Looping(c) == pc[c] \in {"new", "top", "read", "handle"}

-----------------------------------------------------------------------------
(* What comes from the pools. *)

\* use says which of the objects a connection has, pool which of them are free.
Private(use, pool, objects) ==
  /\ use \in [Conns -> objects \cup {None}] /\ pool \subseteq objects
  /\ \A c \in Conns : use[c] # None =>
       use[c] \notin pool /\ \A d \in Conns \ {c} : use[d] # use[c]

PoolInv ==
  /\ pc \in [Conns -> Places]
  /\ Private(br, free, Readers)
  /\ Private(bw, freeWriters, Writers)
  /\ Private(ctx, freeCtxs, Contexts)
  /\ \A c \in Conns : /\ ctx[c] # None <=> pc[c] \in {"top", "read", "handle", "leave"}
                      /\ pc[c] = "read" => br[c] # None

-----------------------------------------------------------------------------
(* What a response goes through. *)

AResponse == (Conns \cup {None}) \X Nat

ResponseTypes ==
  /\ wbuf \in [Writers -> Seq(AResponse)] /\ resp \in [Contexts -> Seq(AResponse)]
  /\ out \in [Conns -> Seq(AResponse)] /\ answered \in [Conns -> Nat]
  /\ ended \in [Conns -> {"no", "eof", "reset", "deadline", "timeout", "limit", "write", "stop"}]

\* While the loop goes on nothing is left in the writer or the context, and what the
\* client was sent is one response for each body, except for the one in hand.
Clean(c) ==
  Looping(c) =>
    /\ Len(out[c]) = answered[c]
    /\ Len(bodies[c]) = answered[c] + (IF pc[c] = "handle" THEN 1 ELSE 0)
    /\ ctx[c] # None => resp[ctx[c]] = <<>>
    /\ bw[c] # None => wbuf[bw[c]] = <<>>

OwnResponses(c) ==
  \A k \in 1..Len(out[c]) :
    \/ k <= answered[c] /\ out[c][k] = <<c, k>>
    \/ k = answered[c] + 1 /\ ended[c] = "timeout" /\ out[c][k] = TimeoutResponse

ResponseInv ==
  /\ ResponseTypes
  /\ \A x \in freeCtxs : resp[x] = <<>>
  /\ \A c \in Conns : Clean(c) /\ OwnResponses(c)

-----------------------------------------------------------------------------
(* What a request goes through. *)

Buffered(c) == IF br[c] = None THEN <<>> ELSE buf[br[c]]

\* s \o t, under a name of its own: the provers then reason from CatLaws alone.
Cat(s, t) == s \o t

\* All that the handler has not been given, from the next byte on.
Stream(c) == Cat(Cat(Cat(raw[c], Buffered(c)), wire[c]), rest[c])

\* The k-th request, of n bytes and a newline.
Line(k, n) == Append([i \in 1..n |-> <<k, i>>], Newline)

DataInv ==
  /\ sizes \in [Conns -> Seq(BodySizes)] /\ rest \in [Conns -> Seq(Byte)]
  /\ wire \in [Conns -> Seq(Byte)] /\ raw \in [Conns -> Seq(Char)]
  /\ buf \in [Readers -> Seq(Byte)] /\ bodies \in [Conns -> Seq(Seq(Char))]
  /\ \A r \in Readers : Len(buf[r]) <= ReadBufferSize
  /\ \A c \in Conns : Len(sizes[c]) <= MaxRequests
  /\ \A c \in Conns : pc[c] # "read" => raw[c] = <<>>

\* Of a client that waits there is at most one request under way, and it is whole.
Whole(c) ==
  Looping(c) =>
    \/ Len(sizes[c]) = Len(bodies[c]) /\ Stream(c) = <<>>
    \/ /\ Len(sizes[c]) = Len(bodies[c]) + 1 /\ pc[c] # "handle"
       /\ Stream(c) = Line(Len(sizes[c]), sizes[c][Len(sizes[c])])

Intact(c) ==
  \A k \in 1..Len(bodies[c]) :
    k <= Len(sizes[c]) /\ bodies[c][k] = [i \in 1..sizes[c][k] |-> <<k, i>>]

WholeInv == \A c \in Conns \ Pipelining : Whole(c) /\ Intact(c)

\* What is left of a client's requests in s, of L bytes: num[k] is the request of the
\* k-th byte, pos[k] its place in it.  They go up together, and from one request to the
\* next past a newline.
Numbered(s, L, sz, num, pos) ==
  /\ \A k \in 1..L :
       /\ pos[k] <= sz[num[k]] + 1
       /\ s[k] = IF pos[k] = sz[num[k]] + 1 THEN Newline ELSE <<num[k], pos[k]>>
  /\ \A j, k \in 1..L : j < k =>
       \/ num[j] = num[k] /\ pos[k] - pos[j] = k - j
       \/ num[j] < num[k] /\ \E q \in j..k - 1 : s[q] = Newline
  /\ L # 0 => s[L] = Newline

Requested(s, L, sz, lo, hi) ==
  \E num \in [1..L -> lo..hi], pos \in [1..L -> Nat \ {0}] : Numbered(s, L, sz, num, pos)

Requests(s, sz, lo) == Requested(s, Len(s), sz, lo, Len(sz))

\* The end of the k-th request, of n bytes.
EndOf(body, k, n) == \E lost \in 0..n : body = [m \in 1..n - lost |-> <<k, lost + m>>]

\* Each of the N bodies is the end of one request up to the hi-th.
Ending(seq, N, sz, of) ==
  /\ \A i, j \in 1..N : i < j => of[i] < of[j]
  /\ \A i \in 1..N : i <= of[i] /\ EndOf(seq[i], of[i], sz[of[i]])

Endings(seq, N, sz, hi) == \E of \in [1..N -> 1..hi] : Ending(seq, N, sz, of)

Ends(seq, sz, hi) == Endings(seq, Len(seq), sz, hi)

\* The bodies are ends of requests that go before what is left of the stream.
TailInv ==
  \A c \in Conns : \E next \in 1..Len(sizes[c]) + 1 :
    Ends(bodies[c], sizes[c], next - 1) /\ (Looping(c) => Requests(Stream(c), sizes[c], next))

IInv == PoolInv /\ DataInv /\ ResponseInv /\ WholeInv /\ TailInv

-----------------------------------------------------------------------------
(* The pools: an object is taken, used, and returned. *)

LEMMA Taken ==
  ASSUME NEW use, NEW pool, NEW objects, Private(use, pool, objects), None \notin objects,
         NEW c \in Conns, use[c] = None, NEW x \in pool
  PROVE  Private([use EXCEPT ![c] = x], pool \ {x}, objects)
BY DEF Private

LEMMA Returned ==
  ASSUME NEW use, NEW pool, NEW objects, Private(use, pool, objects),
         NEW c \in Conns, use[c] # None
  PROVE  Private([use EXCEPT ![c] = None], pool \cup {use[c]}, objects)
BY DEF Private

LEMMA ReaderAcquired ==
  ASSUME PoolInv, NEW c \in Conns, AcquireReader(c)
  PROVE  /\ Private(br, free, Readers)'
         /\ br'[c] # None /\ \A d \in Conns \ {c} : br'[d] = br[d]
<1>1. CASE br[c] # None /\ UNCHANGED <<br, buf, free>>
  BY <1>1 DEF PoolInv, Private
<1>2. ASSUME br[c] = None, NEW r \in free, br' = [br EXCEPT ![c] = r], free' = free \ {r}
      PROVE  /\ Private(br, free, Readers)'
             /\ br'[c] # None /\ \A d \in Conns \ {c} : br'[d] = br[d]
  BY <1>2, Taken, ServeConnAssumption DEF PoolInv, Private
<1>3. QED
  BY <1>1, <1>2 DEF AcquireReader

LEMMA ReaderReleased ==
  ASSUME PoolInv, NEW c \in Conns, Release(c), br[c] # None
  PROVE  /\ Private(br, free, Readers)'
         /\ br'[c] = None /\ \A d \in Conns \ {c} : br'[d] = br[d]
<1>1. br' = [br EXCEPT ![c] = None] /\ free' = free \cup {br[c]}
  BY DEF Release
<1>2. QED
  BY <1>1, Returned DEF PoolInv, Private

\* The writer that serveConn writes to is its own, or was free; what it holds then is
\* what goes first.
LEMMA WriterUsed ==
  ASSUME PoolInv, NEW c \in Conns, NEW body, Write(c, body) \/ WriteBroken(c, body)
  PROVE  \E w \in Writers :
           /\ Private(bw, freeWriters, Writers)'
           /\ bw'[c] = w /\ \A d \in Conns \ {c} : bw'[d] = bw[d] /\ bw[d] # w
           /\ bw[c] \in {None, w}
           /\ \/ /\ out' = [out EXCEPT ![c] = @ \o ResetPending(c, w) \o body]
                 /\ wbuf' = [wbuf EXCEPT ![w] = <<>>]
              \/ /\ out' = out
                 /\ wbuf' = [wbuf EXCEPT ![w] = ResetPending(c, w) \o body]
<1>1. PICK w \in IF bw[c] = None THEN freeWriters ELSE {bw[c]} :
        /\ bw' = [bw EXCEPT ![c] = w] /\ freeWriters' = freeWriters \ {w}
        /\ \/ /\ out' = [out EXCEPT ![c] = @ \o ResetPending(c, w) \o body]
              /\ wbuf' = [wbuf EXCEPT ![w] = <<>>]
           \/ /\ out' = out
              /\ wbuf' = [wbuf EXCEPT ![w] = ResetPending(c, w) \o body]
  BY DEF Write, WriteBroken
<1>2. w \in Writers /\ bw[c] \in {None, w} /\ \A d \in Conns \ {c} : bw[d] # w
  BY <1>1, ServeConnAssumption DEF PoolInv, Private
<1>3. bw'[c] = w /\ \A d \in Conns \ {c} : bw'[d] = bw[d]
  BY <1>1 DEF PoolInv, Private
<1>4. Private(bw, freeWriters, Writers)'
  <2>1. CASE bw[c] = None
    BY <1>1, <2>1, Taken, ServeConnAssumption DEF PoolInv
  <2>2. CASE bw[c] # None
    BY <1>1, <2>2 DEF PoolInv, Private
  <2>3. QED
    BY <2>1, <2>2
<1>5. QED
  BY <1>1, <1>2, <1>3, <1>4

-----------------------------------------------------------------------------
(* The pools through every step. *)

LEMMA PoolStep ==
  ASSUME PoolInv, [Next]_vars
  PROVE  PoolInv'
<1> USE ServeConnAssumption
<1>1. ASSUME UNCHANGED <<pc, br, free, bw, freeWriters, ctx, freeCtxs>>
      PROVE  PoolInv'
  BY <1>1 DEF PoolInv, Private
<1>2. ASSUME NEW c \in Conns, Begin(c) PROVE PoolInv'
  <2>1. PICK x \in freeCtxs : ctx' = [ctx EXCEPT ![c] = x] /\ freeCtxs' = freeCtxs \ {x}
    BY <1>2 DEF Begin
  <2>2. ctx[c] = None /\ x \in Contexts
    BY <1>2 DEF Begin, PoolInv, Private
  <2>3. Private(ctx, freeCtxs, Contexts)'
    BY <2>1, <2>2, Taken DEF PoolInv
  <2>4. Private(br, free, Readers)' /\ Private(bw, freeWriters, Writers)'
    BY <1>2 DEF Begin, PoolInv, Private, readVars, writeVars
  <2>5. QED
    BY <1>2, <2>1, <2>2, <2>3, <2>4 DEF Begin, PoolInv, Private, readVars, Places
<1>3. ASSUME NEW c \in Conns, Top(c) \/ DeadlineFails(c) PROVE PoolInv'
  <2>1. /\ Private(br, free, Readers)'
        /\ br'[c] # None /\ \A d \in Conns \ {c} : br'[d] = br[d]
    BY <1>3, ReaderAcquired DEF Top, DeadlineFails
  <2>2. /\ pc[c] = "top" /\ UNCHANGED <<bw, freeWriters, ctx, freeCtxs>>
        /\ pc' = [pc EXCEPT ![c] = "read"] \/ pc' = [pc EXCEPT ![c] = "leave"]
    BY <1>3 DEF Top, DeadlineFails, writeVars, ctxVars
  <2>3. QED
    BY <2>1, <2>2 DEF PoolInv, Private, Places
<1>4. ASSUME NEW c \in Conns, Read(c) PROVE PoolInv'
  <2>1. /\ pc[c] = "read" /\ UNCHANGED <<bw, freeWriters, ctx, freeCtxs>>
        /\ pc' = pc \/ pc' = [pc EXCEPT ![c] = "handle"]
        /\ UNCHANGED <<br, free>> \/ (Release(c) /\ pc' # pc)
    BY <1>4 DEF Read, Deliver, writeVars, ctxVars, PoolInv
  <2>2. br[c] # None
    BY <2>1 DEF PoolInv
  <2>3. CASE UNCHANGED <<br, free>>
    BY <2>1, <2>3 DEF PoolInv, Private, Places
  <2>4. CASE Release(c) /\ pc' # pc
    BY <2>1, <2>2, <2>4, ReaderReleased DEF PoolInv, Private, Places
  <2>5. QED
    BY <2>1, <2>3, <2>4
<1>5. ASSUME NEW c \in Conns, NEW why, Fail(c, why) PROVE PoolInv'
  <2>1. /\ pc[c] = "read" /\ pc' = [pc EXCEPT ![c] = "leave"] /\ Release(c)
        /\ UNCHANGED <<ctx, freeCtxs>> /\ TellError(c, why)
    BY <1>5 DEF Fail, Break, ctxVars
  <2>2. Private(bw, freeWriters, Writers)'
    <3>1. CASE UNCHANGED writeVars
      BY <3>1 DEF writeVars, PoolInv, Private
    <3>2. CASE Write(c, ErrorResponse(c, why))
      BY <3>2, WriterUsed
    <3>3. CASE WriteBroken(c, ErrorResponse(c, why))
      BY <3>3, WriterUsed
    <3>4. \/ UNCHANGED writeVars
          \/ Write(c, ErrorResponse(c, why))
          \/ WriteBroken(c, ErrorResponse(c, why))
      BY <2>1 DEF TellError
    <3>5. QED
      BY <3>1, <3>2, <3>3, <3>4
  <2>3. br[c] # None
    BY <2>1 DEF PoolInv
  <2>4. /\ Private(br, free, Readers)'
        /\ br'[c] = None /\ \A d \in Conns \ {c} : br'[d] = br[d]
    BY <2>1, <2>3, ReaderReleased
  <2>5. pc' \in [Conns -> Places] /\ pc'[c] = "leave" /\ \A d \in Conns \ {c} : pc'[d] = pc[d]
    BY <2>1 DEF PoolInv, Places
  <2>6. Private(ctx, freeCtxs, Contexts)' /\ ctx' = ctx
    BY <2>1 DEF PoolInv, Private
  <2>7. QED
    BY <2>1, <2>2, <2>4, <2>5, <2>6 DEF PoolInv
<1>6. ASSUME NEW c \in Conns, Respond(c) \/ WriteFails(c) PROVE PoolInv'
  <2>1. /\ pc[c] = "handle" /\ UNCHANGED <<br, free, ctx, freeCtxs>>
        /\ pc' = [pc EXCEPT ![c] = "leave"] \/ pc' = [pc EXCEPT ![c] = "top"]
        /\ Write(c, Answer(c)) \/ WriteBroken(c, Answer(c))
    BY <1>6 DEF Respond, WriteFails, readVars, ctxVars
  <2>2. Private(bw, freeWriters, Writers)'
    BY <2>1, WriterUsed
  <2>3. QED
    BY <2>1, <2>2 DEF PoolInv, Private, Places
<1>7. ASSUME NEW c \in Conns, Leave(c) PROVE PoolInv'
  <2>1. /\ pc[c] = "leave" /\ pc' = [pc EXCEPT ![c] = "done"]
        /\ ctx' = [ctx EXCEPT ![c] = None] /\ freeCtxs' = freeCtxs \cup {ctx[c]}
        /\ bw' = [bw EXCEPT ![c] = None]
        /\ freeWriters' = freeWriters \cup ({bw[c]} \ {None})
    BY <1>7 DEF Leave
  <2>2. Private(ctx, freeCtxs, Contexts)'
    BY <2>1, Returned DEF PoolInv
  <2>3. Private(bw, freeWriters, Writers)'
    <3>1. CASE bw[c] = None
      BY <2>1, <3>1 DEF PoolInv, Private
    <3>2. CASE bw[c] # None
      <4>1. bw' = [bw EXCEPT ![c] = None] /\ freeWriters' = freeWriters \cup {bw[c]}
        BY <2>1, <3>2
      <4>2. QED
        BY <3>2, <4>1, Returned DEF PoolInv
    <3>3. QED
      BY <3>1, <3>2
  <2>4. Private(br, free, Readers)' /\ \A d \in Conns \ {c} : br'[d] = br[d]
    <3>1. CASE br[c] = None
      BY <1>7, <3>1 DEF Leave, ReleaseRest, PoolInv, Private
    <3>2. CASE br[c] # None
      BY <1>7, <3>2, ReaderReleased DEF Leave, ReleaseRest
    <3>3. QED
      BY <3>1, <3>2
  <2>5. QED
    BY <2>1, <2>2, <2>3, <2>4 DEF PoolInv, Private, Places
<1>8. CASE \/ Shutdown \/ ShutdownReturns \/ UNCHANGED vars
           \/ \E c \in Conns : Compose(c) \/ Arrive(c) \/ Hangup(c)
  BY <1>1, <1>8 DEF Shutdown, ShutdownReturns, Compose, Arrive, Hangup, vars, readVars, writeVars, ctxVars
<1>9. QED
  BY <1>2, <1>3, <1>4, <1>5, <1>6, <1>7, <1>8
     DEF Next, Serve, ReadLimit, ReadEOF, ReadReset, TimesOut

-----------------------------------------------------------------------------
(* The bytes: sequences are cut in two, and put together again. *)

LEMMA CatLaws ==
  ASSUME NEW S
  PROVE  /\ \A s, t, u \in Seq(S) : Cat(s, t) \in Seq(S) /\ Cat(Cat(s, t), u) = Cat(s, Cat(t, u))
         /\ \A s \in Seq(S) : Cat(<<>>, s) = s /\ Cat(s, <<>>) = s
BY ConcatAssociative, ConcatProperties, ConcatEmptySeq DEF Cat

LEMMA CatAssociative ==
  ASSUME NEW S, NEW s \in Seq(S), NEW t \in Seq(S), NEW u \in Seq(S)
  PROVE  Cat(Cat(s, t), u) = Cat(s, Cat(t, u))
BY CatLaws

LEMMA Grouped ==
  ASSUME NEW S, NEW x \in Seq(S), NEW l \in Seq(S), NEW w \in Seq(S), NEW r \in Seq(S)
  PROVE  Cat(Cat(Cat(x, l), w), r) = Cat(x, Cat(Cat(l, w), r))
BY CatLaws

LEMMA Splits ==
  ASSUME NEW S, NEW s \in Seq(S), NEW n \in 0..Len(s)
  PROVE  /\ First(s, n) \in Seq(S) /\ Len(First(s, n)) = n
         /\ After(s, n) \in Seq(S) /\ Len(After(s, n)) = Len(s) - n
         /\ First(s, n) \o After(s, n) = s
         /\ \A i \in 1..n : First(s, n)[i] = s[i]
         /\ \A i \in 1..Len(s) - n : After(s, n)[i] = s[n + i]
<1>1. Len(s) \in Nat /\ n \in Int /\ \A i \in 1..Len(s) : s[i] \in S
  BY LenProperties
<1>2. /\ First(s, n) \in Seq(S) /\ Len(First(s, n)) = n
      /\ \A i \in 1..n : First(s, n)[i] = s[i]
  BY <1>1, SubSeqProperties, \A i \in 1..n : s[i] \in S DEF First
<1>3. /\ After(s, n) \in Seq(S) /\ Len(After(s, n)) = Len(s) - n
      /\ \A i \in 1..Len(s) - n : After(s, n)[i] = s[n + i]
  BY <1>1, SubSeqProperties, \A i \in n + 1..Len(s) : s[i] \in S DEF After
<1>4. First(s, n) \o After(s, n) = SubSeq(s, 1, Len(s))
  <2>1. 1 \in 1..Len(s) + 1 /\ n \in 1 - 1..Len(s) /\ Len(s) \in n..Len(s)
    BY <1>1
  <2>2. SubSeq(s, 1, n) \o SubSeq(s, n + 1, Len(s)) = SubSeq(s, 1, Len(s))
    BY <2>1, ConcatAdjacentSubSeq
  <2>3. QED
    BY <2>2 DEF First, After
<1>5. SubSeq(s, 1, Len(s)) = s
  BY SubSeqFull
<1>6. QED
  BY <1>2, <1>3, <1>4, <1>5

LEMMA Remainder ==
  ASSUME NEW a \in Nat, NEW m \in Nat \ {0} PROVE m - (a % m) \in Nat
OBVIOUS

\* At most n of s, and the rest.
LEMMA Cut ==
  ASSUME NEW S, NEW s \in Seq(S), NEW n \in Nat
  PROVE  /\ First(s, Least(n, Len(s))) \in Seq(S) /\ After(s, Least(n, Len(s))) \in Seq(S)
         /\ First(s, Least(n, Len(s))) \o After(s, Least(n, Len(s))) = s
         /\ Len(First(s, Least(n, Len(s)))) = Least(n, Len(s))
         /\ Len(First(s, Least(n, Len(s)))) <= n
         /\ Len(After(s, Least(n, Len(s)))) <= Len(s)
<1>1. Len(s) \in Nat
  BY LenProperties
<1>2. PICK m \in 0..Len(s) : m = Least(n, Len(s)) /\ m <= n
  BY <1>1 DEF Least
<1>3. /\ First(s, m) \in Seq(S) /\ After(s, m) \in Seq(S) /\ First(s, m) \o After(s, m) = s
      /\ Len(First(s, m)) = m /\ Len(After(s, m)) = Len(s) - m
  BY Splits
<1>4. QED
  BY <1>1, <1>2, <1>3

LEMMA WantedNat ==
  ASSUME NEW c \in Conns, raw[c] \in Seq(Char), Limit(c) > 0
  PROVE  Wanted(c) \in Nat
<1>1. Len(raw[c]) \in Nat /\ InnerSize \in Nat \ {0} /\ MaxRequestBodySize \in Nat
  BY LenProperties, ServeConnAssumption
<1>2. InnerSize - (Len(raw[c]) % InnerSize) \in Nat
  BY <1>1, Remainder
<1>3. Limit(c) \in Nat
  BY <1>1 DEF Limit
<1>4. QED
  BY <1>2, <1>3 DEF Wanted, Least

\* What br.Read gives and what it leaves is what was there.
LEMMA ChunkParts ==
  ASSUME NEW c \in Conns, wire[c] \in Seq(Byte), raw[c] \in Seq(Char),
         buf[br[c]] \in Seq(Byte), Len(buf[br[c]]) <= ReadBufferSize, Limit(c) > 0
  PROVE  /\ Chunk(c).bytes \in Seq(Byte) /\ Chunk(c).wire \in Seq(Byte)
         /\ Chunk(c).buffer \in Seq(Byte) /\ Len(Chunk(c).buffer) <= ReadBufferSize
         /\ Cat(Cat(Chunk(c).bytes, Chunk(c).buffer), Chunk(c).wire) = Cat(buf[br[c]], wire[c])
<1>1. PICK n \in Nat : n = Wanted(c)
  BY WantedNat
<1>2. PICK r : r = br[c]
  OBVIOUS
<1>3. /\ Len(buf[r]) \in Nat /\ Len(wire[c]) \in Nat /\ ReadBufferSize \in Nat
      /\ Len(buf[r]) <= ReadBufferSize /\ buf[r] \in Seq(Byte)
  BY <1>2, LenProperties, ServeConnAssumption
<1>4. CASE buf[r] # <<>>
  <2>1. PICK first, after : first = First(buf[r], Least(n, Len(buf[r])))
                         /\ after = After(buf[r], Least(n, Len(buf[r])))
    OBVIOUS
  <2>2. first \in Seq(Byte) /\ after \in Seq(Byte) /\ Cat(first, after) = buf[r]
        /\ Len(after) <= Len(buf[r]) /\ Len(after) \in Nat
    BY <1>3, <2>1, Cut, LenProperties DEF Cat
  <2>3. Chunk(c).bytes = first /\ Chunk(c).buffer = after /\ Chunk(c).wire = wire[c]
    BY <1>1, <1>2, <1>4, <2>1 DEF Chunk
  <2>4. Len(after) <= ReadBufferSize
    BY <1>3, <2>2
  <2>5. QED
    BY <1>2, <2>2, <2>3, <2>4
<1>5. CASE buf[r] = <<>> /\ n >= ReadBufferSize
  <2>1. PICK first, after : first = First(wire[c], Least(n, Len(wire[c])))
                         /\ after = After(wire[c], Least(n, Len(wire[c])))
    OBVIOUS
  <2>2. first \in Seq(Byte) /\ after \in Seq(Byte) /\ Cat(first, after) = wire[c]
    BY <2>1, Cut DEF Cat
  <2>3. Chunk(c).bytes = first /\ Chunk(c).buffer = <<>> /\ Chunk(c).wire = after
    BY <1>1, <1>2, <1>5, <2>1 DEF Chunk
  <2>4. Cat(first, <<>>) = first /\ Cat(<<>>, wire[c]) = wire[c]
    BY <2>2, CatLaws
  <2>5. QED
    BY <1>2, <1>3, <1>5, <2>2, <2>3, <2>4, EmptySeq
<1>6. CASE buf[r] = <<>> /\ ~(n >= ReadBufferSize)
  <2>1. PICK fill, left : fill = First(wire[c], Least(ReadBufferSize, Len(wire[c])))
                       /\ left = After(wire[c], Least(ReadBufferSize, Len(wire[c])))
    OBVIOUS
  <2>2. /\ fill \in Seq(Byte) /\ left \in Seq(Byte) /\ Cat(fill, left) = wire[c]
        /\ Len(fill) = Least(ReadBufferSize, Len(wire[c])) /\ Len(fill) <= ReadBufferSize
    BY <1>3, <2>1, Cut DEF Cat
  <2>3. PICK first, after : first = First(fill, Least(n, Len(fill)))
                         /\ after = After(fill, Least(n, Len(fill)))
    OBVIOUS
  <2>4. /\ first \in Seq(Byte) /\ after \in Seq(Byte) /\ Cat(first, after) = fill
        /\ Len(after) <= Len(fill) /\ Len(after) \in Nat /\ Len(fill) \in Nat
    BY <2>2, <2>3, Cut, LenProperties DEF Cat
  <2>5. left = After(wire[c], Len(fill))
    BY <2>1, <2>2
  <2>6. Chunk(c).bytes = first /\ Chunk(c).buffer = after /\ Chunk(c).wire = left
    BY <1>1, <1>2, <1>6, <2>1, <2>3, <2>5 DEF Chunk
  <2>7. Cat(<<>>, wire[c]) = wire[c]
    BY CatLaws
  <2>8. Len(after) <= ReadBufferSize
    BY <1>3, <2>2, <2>4
  <2>9. QED
    BY <1>2, <1>6, <2>2, <2>4, <2>6, <2>7, <2>8
<1>7. QED
  BY <1>1, <1>3, <1>4, <1>5, <1>6

LEMMA CatElements ==
  ASSUME NEW S, NEW s \in Seq(S), NEW t \in Seq(S)
  PROVE  /\ Len(Cat(s, t)) = Len(s) + Len(t)
         /\ \A k \in 1..Len(s) : Cat(s, t)[k] = s[k]
         /\ \A i \in 1..Len(t) : Cat(s, t)[Len(s) + i] = t[i]
<1>1. Len(s) \in Nat /\ Len(t) \in Nat /\ Len(s \o t) = Len(s) + Len(t)
  BY LenProperties, ConcatProperties
<1>2. \A k \in 1..Len(s) + Len(t) : (s \o t)[k] = IF k <= Len(s) THEN s[k] ELSE t[k - Len(s)]
  BY ConcatProperties
<1>3. \A i \in 1..Len(t) : /\ Len(s) + i \in 1..Len(s) + Len(t) /\ ~(Len(s) + i <= Len(s))
                            /\ (Len(s) + i) - Len(s) = i
  BY <1>1
<1>4. \A k \in 1..Len(s) : k \in 1..Len(s) + Len(t) /\ k <= Len(s)
  BY <1>1
<1>5. QED
  BY <1>1, <1>2, <1>3, <1>4 DEF Cat

LEMMA Joined ==
  ASSUME NEW S, NEW s \in Seq(S), NEW t \in Seq(S)
  PROVE  /\ After(Cat(s, t), Len(s)) = t
         /\ \A i \in 0..Len(s) : First(Cat(s, t), i) = First(s, i)
         /\ Cat(s, t) \in Seq(S) /\ Len(Cat(s, t)) = Len(s) + Len(t)
         /\ \A i \in 1..Len(s) : Cat(s, t)[i] = s[i]
         /\ \A i \in 1..Len(t) : Cat(s, t)[Len(s) + i] = t[i]
<1>1. /\ Cat(s, t) \in Seq(S) /\ Len(Cat(s, t)) = Len(s) + Len(t) /\ Len(s) \in Nat /\ Len(t) \in Nat
      /\ \A i \in 1..Len(s) + Len(t) :
           Cat(s, t)[i] = IF i <= Len(s) THEN s[i] ELSE t[i - Len(s)]
  BY ConcatProperties, LenProperties DEF Cat
<1>2. /\ Len(s) \in 0..Len(Cat(s, t))
      /\ \A i \in 1..Len(s) : Cat(s, t)[i] = s[i]
      /\ \A i \in 1..Len(t) : Cat(s, t)[Len(s) + i] = t[i]
  <2>1. Len(s) \in 0..Len(Cat(s, t)) /\ \A i \in 1..Len(s) : Cat(s, t)[i] = s[i]
    BY <1>1
  <2>2. ASSUME NEW i \in 1..Len(t) PROVE Cat(s, t)[Len(s) + i] = t[i]
    <3>1. Len(s) \in Nat /\ Len(t) \in Nat /\ i \in 1..Len(t)
      BY <1>1
    <3>2. PICK k : k = Len(s) + i
      OBVIOUS
    <3>3. k \in 1..Len(s) + Len(t) /\ ~(k <= Len(s)) /\ k - Len(s) = i
      BY <3>1, <3>2
    <3>4. QED
      BY <1>1, <3>2, <3>3
  <2>3. QED
    BY <2>1, <2>2
<1>3. /\ After(Cat(s, t), Len(s)) \in Seq(S) /\ Len(After(Cat(s, t), Len(s))) = Len(t)
      /\ \A i \in 1..Len(t) : After(Cat(s, t), Len(s))[i] = Cat(s, t)[Len(s) + i]
  <2>1. /\ After(Cat(s, t), Len(s)) \in Seq(S)
        /\ Len(After(Cat(s, t), Len(s))) = Len(Cat(s, t)) - Len(s)
        /\ \A i \in 1..Len(Cat(s, t)) - Len(s) : After(Cat(s, t), Len(s))[i] = Cat(s, t)[Len(s) + i]
    BY <1>1, <1>2, Splits
  <2>2. Len(Cat(s, t)) - Len(s) = Len(t)
    BY <1>1
  <2>3. QED
    BY <2>1, <2>2
<1>4. \A i \in 1..Len(t) : After(Cat(s, t), Len(s))[i] = t[i]
  BY <1>2, <1>3
<1>5. After(Cat(s, t), Len(s)) = t
  BY <1>3, <1>4, SeqEqual
<1>6. ASSUME NEW i \in 0..Len(s) PROVE First(Cat(s, t), i) = First(s, i)
  <2>1. /\ First(s, i) \in Seq(S) /\ Len(First(s, i)) = i
        /\ \A j \in 1..i : First(s, i)[j] = s[j]
    BY Splits
  <2>2. i \in 0..Len(Cat(s, t))
    BY <1>1
  <2>3. /\ First(Cat(s, t), i) \in Seq(S) /\ Len(First(Cat(s, t), i)) = i
        /\ \A j \in 1..i : First(Cat(s, t), i)[j] = Cat(s, t)[j]
    BY <1>1, <2>2, Splits
  <2>4. \A j \in 1..i : j \in 1..Len(s)
    BY <1>1
  <2>5. \A j \in 1..i : First(Cat(s, t), i)[j] = First(s, i)[j]
    BY <1>2, <2>1, <2>3, <2>4
  <2>6. QED
    BY <2>1, <2>3, <2>5, SeqEqual
<1>7. QED
  BY <1>1, <1>2, <1>5, <1>6

LEMMA Trimmed ==
  ASSUME NEW S, NEW s \in Seq(S), NEW i \in 1..Len(s)
  PROVE  Trim(First(s, i)) = First(s, i - 1)
<1>1. Len(s) \in Nat /\ i \in 0..Len(s) /\ i - 1 \in 0..Len(s)
  BY LenProperties
<1>2. /\ First(s, i) \in Seq(S) /\ Len(First(s, i)) = i
      /\ \A j \in 1..i : First(s, i)[j] = s[j]
  BY <1>1, Splits
<1>3. /\ First(s, i - 1) \in Seq(S) /\ Len(First(s, i - 1)) = i - 1
      /\ \A j \in 1..i - 1 : First(s, i - 1)[j] = s[j]
  BY <1>1, Splits
<1>4. i - 1 \in 0..Len(First(s, i))
  BY <1>1, <1>2
<1>5. /\ First(First(s, i), i - 1) \in Seq(S) /\ Len(First(First(s, i), i - 1)) = i - 1
      /\ \A j \in 1..i - 1 : First(First(s, i), i - 1)[j] = First(s, i)[j]
  BY <1>2, <1>4, Splits
<1>6. \A j \in 1..i - 1 : First(First(s, i), i - 1)[j] = First(s, i - 1)[j]
  <2>1. \A j \in 1..i - 1 : j \in 1..i
    BY <1>1
  <2>2. QED
    BY <1>2, <1>3, <1>5, <2>1
<1>7. First(First(s, i), i - 1) = First(s, i - 1)
  BY <1>3, <1>5, <1>6, SeqEqual
<1>8. QED
  BY <1>2, <1>7 DEF Trim

LEMMA OfElements ==
  ASSUME NEW S, NEW T, NEW s \in Seq(S), \A i \in 1..Len(s) : s[i] \in T
  PROVE  s \in Seq(T)
<1>1. Len(s) \in Int /\ SubSeq(s, 1, Len(s)) = s
  BY LenProperties, SubSeqFull
<1>2. SubSeq(s, 1, Len(s)) \in Seq(T)
  BY <1>1, SubSeqProperties
<1>3. QED
  BY <1>1, <1>2

\* A Read of br leaves the stream as it is, or takes the body at its head from it, the
\* newline, and perhaps more.
LEMMA ReadTakes ==
  ASSUME PoolInv, DataInv, NEW c \in Conns, Read(c)
  PROVE  /\ Stream(c) \in Seq(Byte)
         /\ wire' \in [Conns -> Seq(Byte)] /\ raw' \in [Conns -> Seq(Char)]
         /\ buf' \in [Readers -> Seq(Byte)] /\ \A r \in Readers : Len(buf'[r]) <= ReadBufferSize
         /\ \/ /\ UNCHANGED <<pc, br, free, bodies>>
               /\ Stream(c)' = Stream(c)
            \/ \E i \in 1..Len(Stream(c)) : \E m \in i..Len(Stream(c)) :
                 /\ Stream(c)[i] = Newline /\ ~Contains(First(Stream(c), i - 1), Newline)
                 /\ Stream(c)' = After(Stream(c), m)
                 /\ raw' = [raw EXCEPT ![c] = <<>>] /\ pc' = [pc EXCEPT ![c] = "handle"]
                 /\ First(Stream(c), i - 1) \in Seq(Char)
                 /\ bodies' = [bodies EXCEPT ![c] = Append(@, First(Stream(c), i - 1))]
<1>1. PICK r \in Readers : r = br[c] /\ \A d \in Conns \ {c} : br[d] # r
  BY DEF Read, PoolInv, Private
<1>2. /\ wire[c] \in Seq(Byte) /\ raw[c] \in Seq(Char) /\ raw[c] \in Seq(Byte)
      /\ rest[c] \in Seq(Byte) /\ buf[r] \in Seq(Byte) /\ Len(buf[r]) <= ReadBufferSize
  BY SeqMonotonic, Char \subseteq Byte DEF DataInv, Byte
<1>3. PICK bytes \in Seq(Byte), left \in Seq(Byte), wired \in Seq(Byte) :
        /\ Chunk(c).bytes = bytes /\ Chunk(c).buffer = left /\ Chunk(c).wire = wired
        /\ Len(left) <= ReadBufferSize /\ Cat(Cat(bytes, left), wired) = Cat(buf[r], wire[c])
  BY <1>1, <1>2, ChunkParts DEF Read
<1>4. PICK all \in Seq(Byte) : all = Cat(raw[c], bytes)
  BY <1>2, CatLaws
<1>5. PICK tail \in Seq(Byte) : tail = Cat(Cat(left, wired), rest[c])
  BY <1>2, CatLaws
<1>6. Stream(c) = Cat(all, tail)
  <2>1. Stream(c) = Cat(Cat(Cat(raw[c], buf[r]), wire[c]), rest[c])
    BY <1>1, ServeConnAssumption DEF Stream, Buffered
  <2>2. PICK x \in Seq(Byte), l \in Seq(Byte), w \in Seq(Byte), y \in Seq(Byte) :
          x = raw[c] /\ l = buf[r] /\ w = wire[c] /\ y = rest[c]
    BY <1>2
  <2>3. Cat(Cat(Cat(x, l), w), y) = Cat(x, Cat(Cat(l, w), y))
    BY Grouped
  <2>4. Cat(Cat(Cat(bytes, left), wired), y) = Cat(bytes, Cat(Cat(left, wired), y))
    BY Grouped
  <2>5. Cat(Cat(x, bytes), tail) = Cat(x, Cat(bytes, tail))
    BY CatAssociative
  <2>6. Cat(Cat(Cat(bytes, left), wired), y) = Cat(bytes, tail)
    BY <1>5, <2>2, <2>4
  <2>7. Cat(Cat(l, w), y) = Cat(bytes, tail)
    BY <1>3, <2>2, <2>6
  <2>8. Stream(c) = Cat(x, Cat(bytes, tail))
    BY <2>1, <2>2, <2>3, <2>7
  <2>9. QED
    BY <1>4, <2>2, <2>5, <2>8
<1>7. Stream(c) \in Seq(Byte) /\ Len(Stream(c)) = Len(all) + Len(tail)
      /\ Len(all) \in Nat /\ Len(tail) \in Nat
  <2>1. Cat(all, tail) \in Seq(Byte)
    BY Joined
  <2>2. Len(Cat(all, tail)) = Len(all) + Len(tail)
    BY Joined
  <2>3. Len(all) \in Nat /\ Len(tail) \in Nat
    BY LenProperties
  <2>4. QED
    BY <1>6, <2>1, <2>2, <2>3
<1>8. /\ buf' = [buf EXCEPT ![r] = left] /\ wire' = [wire EXCEPT ![c] = wired] /\ rest' = rest
      /\ \/ ~Contains(bytes, Newline) /\ raw' = [raw EXCEPT ![c] = all] /\ UNCHANGED <<pc, br, free, bodies>>
         \/ \E i \in 1..Len(all) :
              all[i] = Newline /\ ~Contains(First(all, i - 1), Newline) /\ Deliver(c, First(all, i), left)
  BY <1>1, <1>3, <1>4 DEF Read, clientVars, Cat
<1>9. /\ wire' \in [Conns -> Seq(Byte)] /\ wire'[c] = wired /\ rest'[c] = rest[c]
      /\ buf' \in [Readers -> Seq(Byte)] /\ buf'[r] = left
      /\ \A q \in Readers : Len(buf'[q]) <= ReadBufferSize
  BY <1>3, <1>8 DEF DataInv
<1>10. CASE /\ ~Contains(bytes, Newline) /\ raw' = [raw EXCEPT ![c] = all]
            /\ UNCHANGED <<pc, br, free, bodies>>
  <2>1. all \in Seq(Char)
    <3>1. /\ Len(all) = Len(raw[c]) + Len(bytes) /\ Len(bytes) \in Nat /\ Len(raw[c]) \in Nat
          /\ \A i \in 1..Len(raw[c]) + Len(bytes) :
               all[i] = IF i <= Len(raw[c]) THEN raw[c][i] ELSE bytes[i - Len(raw[c])]
      BY <1>2, <1>4, ConcatProperties, LenProperties DEF Cat
    <3>2. \A i \in 1..Len(bytes) : bytes[i] \in Char
      BY <1>10, ElementOfSeq DEF Contains, Byte
    <3>3. \A i \in 1..Len(raw[c]) : raw[c][i] \in Char
      BY <1>2, ElementOfSeq
    <3>4. ASSUME NEW i \in 1..Len(all) PROVE all[i] \in Char
      <4>1. CASE i <= Len(raw[c])
        <5>1. i \in 1..Len(raw[c]) /\ i \in 1..Len(raw[c]) + Len(bytes)
          BY <3>1, <4>1
        <5>2. QED
          BY <3>1, <3>3, <4>1, <5>1
      <4>2. CASE ~(i <= Len(raw[c]))
        <5>1. /\ Len(bytes) \in Nat /\ Len(raw[c]) \in Nat /\ Len(all) = Len(raw[c]) + Len(bytes)
          BY <3>1
        <5>2. PICK k : k = i - Len(raw[c])
          OBVIOUS
        <5>3. k \in 1..Len(bytes)
          BY <4>2, <5>1, <5>2
        <5>4. all[i] = bytes[k]
          BY <3>1, <4>2, <5>1, <5>2
        <5>5. QED
          BY <3>2, <5>3, <5>4
      <4>3. QED
        BY <4>1, <4>2
    <3>5. QED
      BY <3>4, OfElements
  <2>2. raw' \in [Conns -> Seq(Char)] /\ raw'[c] = all
    BY <1>10, <2>1 DEF DataInv
  <2>3. Stream(c)' = Cat(Cat(Cat(all, left), wired), rest[c])
    BY <1>1, <1>9, <1>10, <2>2, ServeConnAssumption DEF Stream, Buffered
  <2>4. Stream(c)' = Cat(all, tail)
    BY <1>2, <1>5, <2>3, Grouped
  <2>5. QED
    BY <1>6, <1>7, <1>9, <1>10, <2>2, <2>4
<1>11. ASSUME NEW i \in 1..Len(all), all[i] = Newline, ~Contains(First(all, i - 1), Newline),
              Deliver(c, First(all, i), left)
       PROVE  /\ raw' \in [Conns -> Seq(Char)]
              /\ i \in 1..Len(Stream(c)) /\ Len(all) \in i..Len(Stream(c))
              /\ Stream(c)[i] = Newline /\ ~Contains(First(Stream(c), i - 1), Newline)
              /\ Stream(c)' = After(Stream(c), Len(all))
              /\ raw' = [raw EXCEPT ![c] = <<>>] /\ pc' = [pc EXCEPT ![c] = "handle"]
              /\ First(Stream(c), i - 1) \in Seq(Char)
              /\ bodies' = [bodies EXCEPT ![c] = Append(@, First(Stream(c), i - 1))]
  <2>1. i \in Nat /\ i - 1 \in 0..Len(all) /\ i \in 1..Len(Stream(c)) /\ Len(all) \in i..Len(Stream(c))
    BY <1>7
  <2>2. First(Stream(c), i - 1) = First(all, i - 1) /\ After(Stream(c), Len(all)) = tail
    <3>1. PICK k \in 0..Len(all) : k = i - 1
      BY <2>1
    <3>2. First(Cat(all, tail), k) = First(all, k) /\ After(Cat(all, tail), Len(all)) = tail
      BY Joined
    <3>3. QED
      BY <1>6, <3>1, <3>2
  <2>3. Stream(c)[i] = Newline
    <3>1. Cat(all, tail)[i] = all[i]
      BY Joined
    <3>2. QED
      BY <1>6, <1>11, <3>1
  <2>4. Trim(First(all, i)) = First(all, i - 1)
    BY Trimmed
  <2>5. First(all, i - 1) \in Seq(Char)
    <3>1. /\ First(all, i - 1) \in Seq(Byte) /\ Len(First(all, i - 1)) \in Nat
      BY <2>1, Splits, LenProperties
    <3>2. \A j \in 1..Len(First(all, i - 1)) : First(all, i - 1)[j] \in Char
      BY <1>11, <3>1, ElementOfSeq DEF Contains, Byte
    <3>3. QED
      BY <3>1, <3>2, OfElements
  <2>6. raw' = [raw EXCEPT ![c] = <<>>] /\ raw' \in [Conns -> Seq(Char)] /\ raw'[c] = <<>>
    BY <1>11, EmptySeq DEF Deliver, DataInv
  <2>7. Buffered(c)' = left
    BY <1>1, <1>9, <1>11, ServeConnAssumption DEF Deliver, Release, Buffered, PoolInv, Private
  <2>8. Stream(c)' = Cat(Cat(Cat(<<>>, left), wired), rest[c])
    BY <1>9, <2>6, <2>7 DEF Stream
  <2>9. Cat(<<>>, left) = left
    BY CatLaws
  <2>10. QED
    BY <1>5, <1>11, <2>1, <2>2, <2>3, <2>4, <2>5, <2>6, <2>8, <2>9 DEF Deliver
<1>12. QED
  BY <1>7, <1>8, <1>9, <1>10, <1>11

LEMMA LineProperties ==
  ASSUME NEW k \in 1..MaxRequests, NEW n \in Nat
  PROVE  /\ Line(k, n) \in Seq(Byte) /\ Len(Line(k, n)) = n + 1
         /\ \A i \in 1..n : Line(k, n)[i] = <<k, i>>
         /\ Line(k, n)[n + 1] = Newline
<1>1. [i \in 1..n |-> <<k, i>>] \in [1..n -> Byte]
  BY DEF Byte, Char
<1>2. [i \in 1..n |-> <<k, i>>] \in Seq(Byte)
  BY <1>1, SeqDef
<1>3. PICK body \in Seq(Byte) : body = [i \in 1..n |-> <<k, i>>]
  BY <1>2
<1>4. Len(body) = n /\ \A i \in 1..n : body[i] = <<k, i>>
  BY <1>3, LenProperties
<1>5. Line(k, n) = Append(body, Newline) /\ Newline \in Byte
  BY <1>3 DEF Line, Byte
<1>6. QED
  BY <1>4, <1>5, AppendProperties

-----------------------------------------------------------------------------
(* The stream of each connection through every step. *)

\* A step is a request composed, a body taken, or neither.
Unmoved(c) ==
  /\ sizes'[c] = sizes[c] /\ bodies'[c] = bodies[c]
  /\ Looping(c)' => /\ Looping(c) /\ Stream(c)' = Stream(c)
                    /\ pc'[c] = "handle" => pc[c] = "handle"

Composed(c) ==
  \E n \in BodySizes :
    /\ Len(sizes[c]) < MaxRequests
    /\ c \in Pipelining \/ answered[c] = Len(sizes[c])
    /\ sizes'[c] = Append(sizes[c], n) /\ bodies'[c] = bodies[c] /\ pc'[c] = pc[c]
    /\ Stream(c)' = Cat(Stream(c), Line(Len(sizes[c]) + 1, n))

Took(c) ==
  /\ pc[c] = "read" /\ pc'[c] = "handle" /\ sizes'[c] = sizes[c]
  /\ \E i \in 1..Len(Stream(c)) : \E m \in i..Len(Stream(c)) :
       /\ Stream(c)[i] = Newline /\ ~Contains(First(Stream(c), i - 1), Newline)
       /\ Stream(c)' = After(Stream(c), m)
       /\ First(Stream(c), i - 1) \in Seq(Char)
       /\ bodies'[c] = Append(bodies[c], First(Stream(c), i - 1))

LEMMA StreamTyped ==
  ASSUME PoolInv, DataInv, NEW c \in Conns
  PROVE  /\ Stream(c) \in Seq(Byte)
         /\ Cat(raw[c], Buffered(c)) \in Seq(Byte)
         /\ Cat(Cat(raw[c], Buffered(c)), wire[c]) \in Seq(Byte)
<1>1. /\ wire[c] \in Seq(Byte) /\ raw[c] \in Seq(Char) /\ rest[c] \in Seq(Byte)
      /\ Buffered(c) \in Seq(Byte)
  BY EmptySeq DEF DataInv, PoolInv, Private, Buffered
<1>2. raw[c] \in Seq(Byte)
  BY <1>1, SeqMonotonic, Char \subseteq Byte DEF Byte
<1>3. QED
  BY <1>1, <1>2, CatLaws DEF Stream

LEMMA DataStep ==
  ASSUME PoolInv, DataInv, [Next]_vars
  PROVE  DataInv'
<1> USE ServeConnAssumption
<1>1. ASSUME UNCHANGED <<sizes, rest, wire, bodies, buf>>, raw' \in [Conns -> Seq(Char)],
             \A c \in Conns : pc'[c] # "read" => raw'[c] = <<>>
      PROVE  DataInv'
  BY <1>1 DEF DataInv
<1>2. ASSUME NEW c \in Conns, Begin(c) \/ Respond(c) \/ WriteFails(c) \/ Leave(c) PROVE DataInv'
  <2>1. UNCHANGED <<sizes, rest, wire, bodies, buf, raw>> /\ pc[c] # "read"
    BY <1>2 DEF Begin, Respond, WriteFails, Leave, readVars, clientVars
  <2>2. \A e \in Conns : pc'[e] # "read" => pc[e] # "read"
    BY <1>2, <2>1 DEF Begin, Respond, WriteFails, Leave, PoolInv
  <2>3. QED
    BY <1>1, <2>1, <2>2 DEF DataInv
<1>3. ASSUME NEW c \in Conns, Top(c) \/ DeadlineFails(c) PROVE DataInv'
  <2>1. /\ UNCHANGED <<sizes, rest, wire, bodies>> /\ AcquireReader(c) /\ pc[c] = "top"
        /\ \/ raw' = raw /\ pc' = [pc EXCEPT ![c] = "leave"]
           \/ raw' = [raw EXCEPT ![c] = <<>>] /\ pc' = [pc EXCEPT ![c] = "read"]
    BY <1>3 DEF Top, DeadlineFails, clientVars
  <2>2. buf' \in [Readers -> Seq(Byte)] /\ \A r \in Readers : Len(buf'[r]) <= ReadBufferSize
    <3>1. \A r \in Readers : buf'[r] = buf[r] \/ buf'[r] = <<>>
      BY <2>1 DEF AcquireReader, ResetBuffer, DataInv
    <3>2. buf' = buf \/ \E r \in free : buf' = [buf EXCEPT ![r] = <<>>]
      BY <2>1 DEF AcquireReader, ResetBuffer
    <3>3. buf' \in [Readers -> Seq(Byte)]
      <4>1. <<>> \in Seq(Byte)
        BY EmptySeq
      <4>2. QED
        BY <3>2, <4>1 DEF DataInv
    <3>4. Len(<<>>) <= ReadBufferSize
      BY EmptySeq
    <3>5. QED
      BY <3>1, <3>3, <3>4 DEF DataInv
  <2>3. raw' \in [Conns -> Seq(Char)] /\ raw'[c] = <<>> /\ \A e \in Conns \ {c} : raw'[e] = raw[e]
    BY <2>1, EmptySeq DEF DataInv
  <2>4. \A e \in Conns : pc'[e] # "read" => raw'[e] = <<>>
    BY <2>1, <2>3 DEF DataInv, PoolInv
  <2>5. QED
    BY <2>1, <2>2, <2>3, <2>4 DEF DataInv
<1>4. ASSUME NEW c \in Conns, Read(c) PROVE DataInv'
  <2>1. pc[c] = "read" /\ UNCHANGED <<sizes, rest>>
    BY <1>4 DEF Read, clientVars
  <2>2. /\ wire' \in [Conns -> Seq(Byte)] /\ raw' \in [Conns -> Seq(Char)]
        /\ buf' \in [Readers -> Seq(Byte)] /\ \A r \in Readers : Len(buf'[r]) <= ReadBufferSize
    BY <1>4, ReadTakes
  <2>3. CASE UNCHANGED <<pc, bodies>>
    <3>1. \A e \in Conns : pc'[e] # "read" => raw'[e] = raw[e]
      BY <1>4, <2>1, <2>3 DEF Read, Deliver, DataInv
    <3>2. QED
      BY <2>1, <2>2, <2>3, <3>1 DEF DataInv
  <2>4. ASSUME NEW body \in Seq(Char), raw' = [raw EXCEPT ![c] = <<>>],
               pc' = [pc EXCEPT ![c] = "handle"], bodies' = [bodies EXCEPT ![c] = Append(@, body)]
        PROVE  DataInv'
    <3>1. bodies' \in [Conns -> Seq(Seq(Char))]
      BY <2>4, AppendProperties DEF DataInv
    <3>2. \A e \in Conns : pc'[e] # "read" => raw'[e] = <<>>
      BY <2>4 DEF DataInv, PoolInv
    <3>3. QED
      BY <2>1, <2>2, <3>1, <3>2 DEF DataInv
  <2>5. QED
    BY <1>4, <2>3, <2>4, ReadTakes
<1>5. ASSUME NEW c \in Conns, NEW why, Fail(c, why) PROVE DataInv'
  <2>1. /\ UNCHANGED <<sizes, rest, wire, bodies, buf>> /\ raw' = [raw EXCEPT ![c] = <<>>]
        /\ pc' = [pc EXCEPT ![c] = "leave"]
    BY <1>5 DEF Fail, Break, clientVars
  <2>2. raw' \in [Conns -> Seq(Char)]
    BY <2>1, EmptySeq DEF DataInv
  <2>3. QED
    BY <1>1, <2>1, <2>2 DEF DataInv, PoolInv
<1>6. ASSUME NEW c \in Conns, Compose(c) PROVE DataInv'
  <2>1. UNCHANGED <<wire, bodies, buf, raw, pc>>
    BY <1>6 DEF Compose, readVars
  <2>2. PICK n \in BodySizes :
          /\ Len(sizes[c]) < MaxRequests
          /\ sizes' = [sizes EXCEPT ![c] = Append(@, n)]
          /\ rest' = [rest EXCEPT ![c] = Line(Len(sizes[c]) + 1, n)]
    BY <1>6 DEF Compose, Line
  <2>3. sizes[c] \in Seq(BodySizes) /\ Len(sizes[c]) \in Nat
    BY LenProperties DEF DataInv
  <2>4. Append(sizes[c], n) \in Seq(BodySizes) /\ Len(Append(sizes[c], n)) = Len(sizes[c]) + 1
    BY <2>3, AppendProperties
  <2>5. n \in Nat /\ Len(sizes[c]) + 1 \in 1..MaxRequests
    BY <2>2, <2>3
  <2>6. Line(Len(sizes[c]) + 1, n) \in Seq(Byte)
    BY <2>5, LineProperties
  <2>7. sizes' \in [Conns -> Seq(BodySizes)] /\ rest' \in [Conns -> Seq(Byte)]
    BY <2>2, <2>4, <2>6 DEF DataInv
  <2>8. ASSUME NEW e \in Conns PROVE Len(sizes'[e]) <= MaxRequests
    BY <2>2, <2>4, <2>5 DEF DataInv
  <2>9. QED
    BY <2>1, <2>7, <2>8 DEF DataInv
<1>7. ASSUME NEW c \in Conns, Arrive(c) PROVE DataInv'
  <2>1. UNCHANGED <<sizes, bodies, buf, raw, pc>>
    BY <1>7 DEF Arrive, readVars
  <2>2. PICK n \in 1..Len(rest[c]) :
          /\ wire' = [wire EXCEPT ![c] = @ \o First(rest[c], n)]
          /\ rest' = [rest EXCEPT ![c] = After(@, n)]
    BY <1>7 DEF Arrive
  <2>3. /\ rest[c] \in Seq(Byte) /\ wire[c] \in Seq(Byte) /\ n \in 0..Len(rest[c])
    BY LenProperties DEF DataInv
  <2>4. First(rest[c], n) \in Seq(Byte) /\ After(rest[c], n) \in Seq(Byte)
    BY <2>3, Splits
  <2>5. wire[c] \o First(rest[c], n) \in Seq(Byte)
    BY <2>3, <2>4, ConcatProperties
  <2>6. QED
    BY <2>1, <2>2, <2>4, <2>5 DEF DataInv
<1>8. CASE Shutdown \/ ShutdownReturns \/ UNCHANGED vars \/ \E c \in Conns : Hangup(c)
  <2>1. UNCHANGED <<sizes, rest, wire, pc, buf, raw, bodies>>
    BY <1>8 DEF Shutdown, ShutdownReturns, Hangup, vars, readVars, clientVars
  <2>2. QED
    BY <2>1 DEF DataInv
<1>9. QED
  BY <1>2, <1>3, <1>4, <1>5, <1>6, <1>7, <1>8
     DEF Next, Serve, ReadLimit, ReadEOF, ReadReset, TimesOut

LEMMA StreamStep ==
  ASSUME PoolInv, DataInv, [Next]_vars, NEW d \in Conns
  PROVE  Unmoved(d) \/ Composed(d) \/ Took(d)
<1> USE ServeConnAssumption
<1>1. ASSUME sizes'[d] = sizes[d], bodies'[d] = bodies[d], Looping(d)' => Looping(d),
             pc'[d] = "handle" => pc[d] = "handle",
             Looping(d)' => /\ raw'[d] = raw[d] /\ wire'[d] = wire[d] /\ rest'[d] = rest[d]
                            /\ Buffered(d)' = Buffered(d)
      PROVE  Unmoved(d)
  BY <1>1 DEF Unmoved, Stream
<1>2. ASSUME NEW c \in Conns, Begin(c) PROVE Unmoved(d)
  <2>1. UNCHANGED <<sizes, rest, wire, br, buf, raw, bodies>>
    BY <1>2 DEF Begin, clientVars, readVars
  <2>2. pc[c] = "new" /\ pc' = [pc EXCEPT ![c] = "top"]
    BY <1>2 DEF Begin
  <2>3. (Looping(d)' => Looping(d)) /\ (pc'[d] = "handle" => pc[d] = "handle")
    BY <2>2 DEF PoolInv, Looping
  <2>4. Buffered(d)' = Buffered(d)
    BY <2>1 DEF Buffered
  <2>5. QED
    BY <1>1, <2>1, <2>3, <2>4
<1>3. ASSUME NEW c \in Conns, AcquireReader(c)
      PROVE  Buffered(d)' = Buffered(d) \/ (d = c /\ Buffered(d)' = <<>> /\ Buffered(d) = <<>>)
  <2>1. CASE br[c] # None /\ UNCHANGED <<br, buf, free>>
    BY <2>1 DEF Buffered
  <2>2. CASE br[c] = None /\ \E r \in free : br' = [br EXCEPT ![c] = r] /\ buf' = [buf EXCEPT ![r] = <<>>]
    <3>1. PICK r \in free : br' = [br EXCEPT ![c] = r] /\ buf' = [buf EXCEPT ![r] = <<>>]
      BY <2>2
    <3>2. r \in Readers /\ r # None /\ (br[d] # None => br[d] \in Readers /\ br[d] # r)
      BY ServeConnAssumption DEF PoolInv, Private
    <3>3. CASE d = c
      <4>1. br'[c] = r /\ buf'[r] = <<>>
        BY <3>1, <3>2 DEF PoolInv, Private, DataInv
      <4>2. QED
        BY <2>2, <3>2, <3>3, <4>1 DEF Buffered
    <3>4. CASE d # c
      <4>1. br'[d] = br[d] /\ (br[d] # None => buf'[br[d]] = buf[br[d]])
        BY <3>1, <3>2, <3>4 DEF PoolInv, Private, DataInv
      <4>2. QED
        BY <4>1 DEF Buffered
    <3>5. QED
      BY <3>3, <3>4
  <2>3. QED
    BY <1>3, <2>1, <2>2 DEF AcquireReader, ResetBuffer
<1>4. ASSUME NEW c \in Conns, Top(c) PROVE Unmoved(d)
  <2>1. Buffered(d)' = Buffered(d)
    BY <1>3, <1>4 DEF Top
  <2>2. raw'[d] = raw[d] /\ wire' = wire /\ rest' = rest /\ sizes' = sizes /\ bodies' = bodies
    BY <1>4 DEF Top, DataInv, clientVars
  <2>3. QED
    BY <1>1, <1>4, <2>1, <2>2 DEF Top, PoolInv, Looping
<1>5. ASSUME NEW c \in Conns, DeadlineFails(c) PROVE Unmoved(d)
  <2>1. Buffered(d)' = Buffered(d)
    BY <1>3, <1>5 DEF DeadlineFails
  <2>2. QED
    BY <1>1, <1>5, <2>1 DEF DeadlineFails, PoolInv, Looping, clientVars
<1>6. ASSUME NEW c \in Conns, Read(c), d = c PROVE Unmoved(d) \/ Took(d)
  <2>1. pc[c] = "read" /\ sizes' = sizes
    BY <1>6 DEF Read, clientVars
  <2>2. CASE UNCHANGED <<pc, br, free, bodies>> /\ Stream(c)' = Stream(c)
    BY <1>6, <2>1, <2>2 DEF Unmoved, Looping
  <2>3. CASE \E i \in 1..Len(Stream(c)) : \E m \in i..Len(Stream(c)) :
               /\ Stream(c)[i] = Newline /\ ~Contains(First(Stream(c), i - 1), Newline)
               /\ Stream(c)' = After(Stream(c), m)
               /\ raw' = [raw EXCEPT ![c] = <<>>] /\ pc' = [pc EXCEPT ![c] = "handle"]
               /\ First(Stream(c), i - 1) \in Seq(Char)
               /\ bodies' = [bodies EXCEPT ![c] = Append(@, First(Stream(c), i - 1))]
    BY <1>6, <2>1, <2>3 DEF Took, PoolInv, DataInv
  <2>4. QED
    BY <1>6, <2>2, <2>3, ReadTakes
<1>7. ASSUME NEW c \in Conns, Read(c), d # c PROVE Unmoved(d)
  <2>1. /\ sizes' = sizes /\ rest' = rest /\ wire'[d] = wire[d] /\ raw'[d] = raw[d]
        /\ bodies'[d] = bodies[d] /\ pc'[d] = pc[d] /\ br'[d] = br[d]
        /\ br[d] # None => buf'[br[d]] = buf[br[d]]
    <3>1. /\ sizes' = sizes /\ rest' = rest
          /\ \E b, w, r : /\ buf' = [buf EXCEPT ![br[c]] = b] /\ wire' = [wire EXCEPT ![c] = w]
                         /\ raw' = [raw EXCEPT ![c] = r]
          /\ bodies' = bodies \/ \E l : bodies' = [bodies EXCEPT ![c] = Append(@, l)]
          /\ pc' = pc \/ pc' = [pc EXCEPT ![c] = "handle"]
          /\ br' = br \/ br' = [br EXCEPT ![c] = None]
      BY <1>7 DEF Read, Deliver, Release, clientVars
    <3>2. br[d] # None => br[d] # br[c]
      BY <1>7 DEF Read, PoolInv, Private
    <3>3. wire'[d] = wire[d] /\ raw'[d] = raw[d] /\ bodies'[d] = bodies[d]
      BY <1>7, <3>1 DEF DataInv
    <3>4. pc'[d] = pc[d] /\ br'[d] = br[d]
      BY <1>7, <3>1 DEF PoolInv, Private
    <3>5. br[d] # None => buf'[br[d]] = buf[br[d]]
      BY <3>1, <3>2 DEF PoolInv, Private, DataInv
    <3>6. QED
      BY <3>1, <3>3, <3>4, <3>5
  <2>2. QED
    BY <1>1, <2>1 DEF Looping, Buffered
<1>8. ASSUME NEW c \in Conns, NEW why, Fail(c, why) PROVE Unmoved(d)
  <2>1. d # c => br'[d] = br[d]
    BY <1>8 DEF Fail, Release, PoolInv, Private
  <2>2. QED
    BY <1>1, <1>8, <2>1 DEF Fail, Break, PoolInv, DataInv, Looping, Buffered, clientVars
<1>9. ASSUME NEW c \in Conns, Respond(c) \/ WriteFails(c) PROVE Unmoved(d)
  <2>1. /\ pc[c] = "handle" /\ UNCHANGED <<sizes, rest, wire, br, buf, raw, bodies>>
        /\ pc' = [pc EXCEPT ![c] = "leave"] \/ pc' = [pc EXCEPT ![c] = "top"]
    BY <1>9 DEF Respond, WriteFails, readVars, clientVars
  <2>2. QED
    BY <1>1, <2>1 DEF PoolInv, Looping, Buffered
<1>10. ASSUME NEW c \in Conns, Leave(c) PROVE Unmoved(d)
  <2>1. d # c => br'[d] = br[d]
    BY <1>10 DEF Leave, ReleaseRest, Release, PoolInv, Private
  <2>2. QED
    BY <1>1, <1>10, <2>1 DEF Leave, PoolInv, Looping, Buffered, clientVars
<1>11. ASSUME NEW c \in Conns, Compose(c) PROVE Unmoved(d) \/ Composed(d)
  <2>1. /\ UNCHANGED <<br, buf, raw, wire, bodies, pc>> /\ rest[c] = <<>>
    BY <1>11 DEF Compose, readVars
  <2>2. PICK n \in BodySizes :
          /\ sizes' = [sizes EXCEPT ![c] = Append(@, n)]
          /\ rest' = [rest EXCEPT ![c] = Line(Len(sizes[c]) + 1, n)]
    BY <1>11 DEF Compose, Line
  <2>3. CASE d # c
    BY <1>1, <2>1, <2>2, <2>3 DEF DataInv, Looping, Buffered
  <2>4. CASE d = c
    <3>1. /\ rest'[c] = Line(Len(sizes[c]) + 1, n) /\ sizes'[c] = Append(sizes[c], n)
      BY <2>2 DEF DataInv
    <3>2. Stream(c) = Cat(Cat(Cat(raw[c], Buffered(c)), wire[c]), <<>>)
      BY <2>1 DEF Stream
    <3>3. Cat(Cat(raw[c], Buffered(c)), wire[c]) \in Seq(Byte)
      BY StreamTyped
    <3>4. Stream(c) = Cat(Cat(raw[c], Buffered(c)), wire[c])
      BY <3>2, <3>3, CatLaws
    <3>5. Stream(c)' = Cat(Stream(c), Line(Len(sizes[c]) + 1, n))
      BY <2>1, <3>1, <3>4 DEF Stream, Buffered
    <3>6. QED
      BY <1>11, <2>1, <2>4, <3>1, <3>5 DEF Compose, Composed
  <2>5. QED
    BY <2>3, <2>4
<1>12. ASSUME NEW c \in Conns, Arrive(c) PROVE Unmoved(d)
  <2>1. UNCHANGED <<sizes, br, buf, raw, bodies, pc>>
    BY <1>12 DEF Arrive, readVars
  <2>2. PICK n \in 1..Len(rest[c]) :
          /\ wire' = [wire EXCEPT ![c] = @ \o First(rest[c], n)]
          /\ rest' = [rest EXCEPT ![c] = After(@, n)]
    BY <1>12 DEF Arrive
  <2>3. CASE d # c
    BY <1>1, <2>1, <2>2, <2>3 DEF DataInv, Looping, Buffered
  <2>4. CASE d = c
    <3>1. /\ rest[c] \in Seq(Byte) /\ wire[c] \in Seq(Byte) /\ n \in 0..Len(rest[c])
      BY LenProperties DEF DataInv
    <3>2. PICK sent, left : sent = First(rest[c], n) /\ left = After(rest[c], n)
      OBVIOUS
    <3> sent \in Seq(Byte) /\ left \in Seq(Byte) /\ Cat(sent, left) = rest[c]
      BY <3>1, <3>2, Splits DEF Cat
    <3>3. wire'[c] = Cat(wire[c], sent) /\ rest'[c] = left
      BY <2>2, <3>2 DEF DataInv, Cat
    <3>4. PICK head \in Seq(Byte) : head = Cat(raw[c], Buffered(c))
      BY StreamTyped
    <3>5. Cat(Cat(head, wire[c]), Cat(sent, left)) = Cat(Cat(Cat(head, wire[c]), sent), left)
      <4>1. PICK front \in Seq(Byte) : front = Cat(head, wire[c])
        BY <3>4, StreamTyped
      <4>2. Cat(Cat(front, sent), left) = Cat(front, Cat(sent, left))
        BY CatAssociative
      <4>3. QED
        BY <4>1, <4>2
    <3>6. Cat(Cat(head, wire[c]), sent) = Cat(head, Cat(wire[c], sent))
      BY <3>1, CatAssociative
    <3>7. Stream(c)' = Stream(c)
      BY <2>1, <3>2, <3>3, <3>4, <3>5, <3>6 DEF Stream, Buffered
    <3>8. QED
      BY <2>1, <2>4, <3>7 DEF Unmoved, Looping
  <2>5. QED
    BY <2>3, <2>4
<1>13. CASE Shutdown \/ ShutdownReturns \/ UNCHANGED vars \/ \E c \in Conns : Hangup(c)
  <2>1. UNCHANGED <<sizes, rest, wire, pc, br, buf, raw, bodies>>
    BY <1>13 DEF Shutdown, ShutdownReturns, Hangup, vars, readVars, clientVars
  <2>2. QED
    BY <1>1, <2>1 DEF Looping, Buffered
<1>14. QED
  BY <1>2, <1>4, <1>5, <1>6, <1>7, <1>8, <1>9, <1>10, <1>11, <1>12, <1>13
     DEF Next, Serve, ReadLimit, ReadEOF, ReadReset, TimesOut

-----------------------------------------------------------------------------
(* The responses through every step. *)

\* While the loop goes on nothing goes before what serveConn writes, and the others
\* are left alone.
LEMMA WriteClean ==
  ASSUME PoolInv, ResponseInv, NEW c \in Conns, Looping(c), ctx[c] # None,
         NEW body \in Seq(AResponse), Write(c, body) \/ WriteBroken(c, body),
         NEW left \in Seq(AResponse), resp' = [resp EXCEPT ![ctx[c]] = left]
  PROVE  /\ wbuf' \in [Writers -> Seq(AResponse)] /\ resp' \in [Contexts -> Seq(AResponse)]
         /\ out' \in [Conns -> Seq(AResponse)] /\ resp'[ctx[c]] = left
         /\ \A x \in freeCtxs : resp'[x] = <<>>
         /\ \/ out'[c] = out[c] /\ ~Write(c, body)
            \/ out'[c] = out[c] \o body /\ wbuf'[bw'[c]] = <<>>
         /\ \A d \in Conns \ {c} :
              /\ out'[d] = out[d] /\ bw'[d] = bw[d]
              /\ ctx[d] # None => resp'[ctx[d]] = resp[ctx[d]]
              /\ bw[d] # None => wbuf'[bw[d]] = wbuf[bw[d]]
<1>1. PICK w \in Writers :
        /\ bw'[c] = w /\ \A d \in Conns \ {c} : bw'[d] = bw[d] /\ bw[d] # w
        /\ bw[c] \in {None, w}
        /\ \/ /\ out' = [out EXCEPT ![c] = @ \o ResetPending(c, w) \o body]
              /\ wbuf' = [wbuf EXCEPT ![w] = <<>>]
           \/ /\ out' = out
              /\ wbuf' = [wbuf EXCEPT ![w] = ResetPending(c, w) \o body]
  BY WriterUsed
<1>2. ResetPending(c, w) = <<>>
  BY <1>1 DEF ResponseInv, Clean, ResetPending
<1>3. /\ out[c] \in Seq(AResponse) /\ out[c] \o body \in Seq(AResponse)
      /\ out[c] \o <<>> = out[c] /\ <<>> \o body = body /\ <<>> \in Seq(AResponse)
  BY ConcatEmptySeq, ConcatProperties, EmptySeq DEF ResponseInv, ResponseTypes
<1>4. \/ out' = [out EXCEPT ![c] = out[c] \o body] /\ wbuf' = [wbuf EXCEPT ![w] = <<>>]
      \/ out' = out /\ wbuf' = [wbuf EXCEPT ![w] = body]
  BY <1>1, <1>2, <1>3
<1>5. /\ wbuf' \in [Writers -> Seq(AResponse)] /\ out' \in [Conns -> Seq(AResponse)]
      /\ \A d \in Conns \ {c} : out'[d] = out[d] /\ bw'[d] = bw[d]
                                /\ (bw[d] # None => wbuf'[bw[d]] = wbuf[bw[d]])
  <2>1. wbuf \in [Writers -> Seq(AResponse)] /\ out \in [Conns -> Seq(AResponse)]
    BY DEF ResponseInv, ResponseTypes
  <2>2. wbuf' \in [Writers -> Seq(AResponse)] /\ out' \in [Conns -> Seq(AResponse)]
    BY <1>3, <1>4, <2>1
  <2>3. ASSUME NEW d \in Conns \ {c}
        PROVE  out'[d] = out[d] /\ bw'[d] = bw[d] /\ (bw[d] # None => wbuf'[bw[d]] = wbuf[bw[d]])
    <3>1. bw'[d] = bw[d] /\ bw[d] # w /\ bw[d] \in Writers \cup {None}
      BY <1>1 DEF PoolInv, Private
    <3>2. QED
      BY <1>4, <2>1, <3>1
  <2>4. QED
    BY <2>2, <2>3
<1>6. ctx[c] \in Contexts /\ ctx[c] \notin freeCtxs /\ freeCtxs \subseteq Contexts
      /\ \A d \in Conns \ {c} : ctx[d] # ctx[c] /\ (ctx[d] # None => ctx[d] \in Contexts)
  BY DEF PoolInv, Private
<1>7. /\ resp' \in [Contexts -> Seq(AResponse)] /\ resp'[ctx[c]] = left
      /\ \A x \in freeCtxs : resp'[x] = <<>>
      /\ \A d \in Conns \ {c} : ctx[d] # None => resp'[ctx[d]] = resp[ctx[d]]
  BY <1>6 DEF ResponseInv, ResponseTypes
<1>8. Write(c, body) => out' = [out EXCEPT ![c] = out[c] \o body] /\ wbuf'[bw'[c]] = <<>>
  <2>1. SUFFICES ASSUME Write(c, body)
                 PROVE  out' = [out EXCEPT ![c] = out[c] \o body] /\ wbuf'[bw'[c]] = <<>>
    OBVIOUS
  <2>2. PICK v \in IF bw[c] = None THEN freeWriters ELSE {bw[c]} :
          /\ bw' = [bw EXCEPT ![c] = v] /\ wbuf' = [wbuf EXCEPT ![v] = <<>>]
          /\ out' = [out EXCEPT ![c] = @ \o ResetPending(c, v) \o body]
    BY <2>1 DEF Write
  <2>3. v = w
    BY <1>1, <2>2 DEF PoolInv, Private
  <2>4. QED
    BY <1>1, <1>2, <1>3, <2>2, <2>3 DEF ResponseInv, ResponseTypes
<1>9. \/ out'[c] = out[c] /\ ~Write(c, body)
      \/ out'[c] = out[c] \o body /\ wbuf'[bw'[c]] = <<>>
  BY <1>1, <1>4, <1>8 DEF ResponseInv, ResponseTypes
<1>10. QED
  BY <1>5, <1>7, <1>9

LEMMA OneMore ==
  ASSUME NEW S, NEW s \in Seq(S), NEW e \in S
  PROVE  /\ Len(s \o <<e>>) = Len(s) + 1 /\ (s \o <<e>>)[Len(s) + 1] = e
         /\ \A k \in 1..Len(s) : (s \o <<e>>)[k] = s[k]
<1>1. s \o <<e>> = Append(s, e)
  BY AppendIsConcat
<1>2. QED
  BY <1>1, AppendProperties

LEMMA ResponsesTyped ==
  /\ TimeoutResponse \in AResponse /\ \A c \in Conns, n \in Nat : <<c, n>> \in AResponse
  /\ <<>> \in Seq(AResponse) /\ <<TimeoutResponse>> \in Seq(AResponse)
  /\ \A c \in Conns, n \in Nat : <<<<c, n>>>> \in Seq(AResponse)
<1>1. TimeoutResponse \in AResponse /\ \A c \in Conns, n \in Nat : <<c, n>> \in AResponse
  BY DEF AResponse, TimeoutResponse
<1>2. QED
  BY <1>1

\* What a timeout tells the client comes after all its responses.
LEMMA FailStep ==
  ASSUME PoolInv, DataInv, ResponseInv, NEW c \in Conns,
         NEW why \in {"limit", "eof", "reset", "timeout"}, Fail(c, why)
  PROVE  /\ ResponseTypes' /\ OwnResponses(c)'
         /\ \A x \in freeCtxs : resp'[x] = <<>>
         /\ \A d \in Conns \ {c} :
              /\ out'[d] = out[d] /\ bw'[d] = bw[d] /\ answered'[d] = answered[d]
              /\ ctx[d] # None => resp'[ctx[d]] = resp[ctx[d]]
              /\ bw[d] # None => wbuf'[bw[d]] = wbuf[bw[d]]
<1>1. /\ pc[c] = "read" /\ ended' = [ended EXCEPT ![c] = why] /\ TellError(c, why)
  BY DEF Fail
<1>2. /\ Looping(c) /\ ctx[c] # None /\ resp[ctx[c]] = <<>> /\ Len(out[c]) = answered[c]
      /\ answered[c] \in Nat /\ out[c] \in Seq(AResponse)
  BY <1>1 DEF PoolInv, Looping, ResponseInv, ResponseTypes, Clean
<1>3. \A k \in 1..Len(out[c]) : k <= answered[c] /\ out[c][k] = <<c, k>>
  BY <1>2 DEF ResponseInv, OwnResponses
<1>4. /\ ended' \in [Conns -> {"no", "eof", "reset", "deadline", "timeout", "limit", "write", "stop"}]
      /\ ended'[c] = why
  BY <1>1 DEF ResponseInv, ResponseTypes
<1>5. CASE UNCHANGED writeVars
  <2>1. UNCHANGED <<bw, wbuf, resp, answered, out>>
    BY <1>5 DEF writeVars
  <2>2. QED
    BY <1>3, <1>4, <2>1 DEF ResponseInv, ResponseTypes, OwnResponses
<1>6. CASE /\ why \in {"timeout", "reset"} /\ answered' = answered
           /\ Write(c, ErrorResponse(c, why)) \/ WriteBroken(c, ErrorResponse(c, why))
           /\ resp' = [resp EXCEPT ![ctx[c]] = <<>>]
  <2>1. PICK body \in Seq(AResponse) :
          /\ body = ErrorResponse(c, why)
          /\ body = <<>> \/ (why = "timeout" /\ body = <<TimeoutResponse>>)
    BY <1>2, ResponsesTyped DEF ErrorResponse
  <2>2. /\ wbuf' \in [Writers -> Seq(AResponse)] /\ resp' \in [Contexts -> Seq(AResponse)]
        /\ out' \in [Conns -> Seq(AResponse)] /\ \A x \in freeCtxs : resp'[x] = <<>>
        /\ out'[c] = out[c] \/ out'[c] = out[c] \o body
        /\ \A d \in Conns \ {c} :
             /\ out'[d] = out[d] /\ bw'[d] = bw[d]
             /\ ctx[d] # None => resp'[ctx[d]] = resp[ctx[d]]
             /\ bw[d] # None => wbuf'[bw[d]] = wbuf[bw[d]]
    BY <1>2, <1>6, <2>1, WriteClean, ResponsesTyped
  <2>3. OwnResponses(c)'
    <3>1. CASE out'[c] = out[c]
      BY <1>3, <1>6, <3>1 DEF OwnResponses
    <3>2. CASE out'[c] = out[c] \o <<>>
      BY <1>2, <3>1, <3>2, ConcatEmptySeq
    <3>3. CASE why = "timeout" /\ out'[c] = out[c] \o <<TimeoutResponse>>
      <4>1. /\ Len(out'[c]) = answered[c] + 1 /\ out'[c][answered[c] + 1] = TimeoutResponse
            /\ \A k \in 1..answered[c] : out'[c][k] = out[c][k]
        <5>1. PICK sent \in Seq(AResponse) : sent = out[c]
          BY <1>2
        <5>2. TimeoutResponse \in AResponse
          BY ResponsesTyped
        <5>3. /\ Len(sent \o <<TimeoutResponse>>) = Len(sent) + 1
              /\ (sent \o <<TimeoutResponse>>)[Len(sent) + 1] = TimeoutResponse
              /\ \A k \in 1..Len(sent) : (sent \o <<TimeoutResponse>>)[k] = sent[k]
          BY <5>2, OneMore
        <5>4. QED
          BY <1>2, <3>3, <5>1, <5>3
      <4>2. ASSUME NEW k \in 1..answered[c] + 1
            PROVE  \/ k <= answered'[c] /\ out'[c][k] = <<c, k>>
                   \/ k = answered'[c] + 1 /\ ended'[c] = "timeout" /\ out'[c][k] = TimeoutResponse
        <5>1. CASE k = answered[c] + 1
          BY <1>4, <1>6, <3>3, <4>1, <5>1
        <5>2. CASE k # answered[c] + 1
          <6>1. k \in 1..answered[c]
            BY <1>2, <5>2
          <6>2. QED
            BY <1>2, <1>3, <1>6, <4>1, <6>1
        <5>3. QED
          BY <5>1, <5>2
      <4>3. QED
        BY <4>1, <4>2 DEF OwnResponses
    <3>4. QED
      BY <2>1, <2>2, <3>1, <3>2, <3>3
  <2>4. QED
    BY <1>4, <1>6, <2>2, <2>3 DEF ResponseInv, ResponseTypes
<1>7. QED
  BY <1>1, <1>5, <1>6 DEF TellError

LEMMA ResponseStep ==
  ASSUME PoolInv, PoolInv', DataInv, ResponseInv, [Next]_vars
  PROVE  ResponseInv'
<1> USE ServeConnAssumption
<1>1. ASSUME NEW c \in Conns, ResponseTypes', Clean(c)', OwnResponses(c)',
             \A x \in freeCtxs' : resp'[x] = <<>>,
             \A d \in Conns \ {c} :
               /\ pc'[d] = pc[d] /\ bodies'[d] = bodies[d] /\ answered'[d] = answered[d]
               /\ out'[d] = out[d] /\ ended'[d] = ended[d] /\ ctx'[d] = ctx[d] /\ bw'[d] = bw[d]
               /\ ctx[d] # None => resp'[ctx[d]] = resp[ctx[d]]
               /\ bw[d] # None => wbuf'[bw[d]] = wbuf[bw[d]]
      PROVE  ResponseInv'
  <2>1. ASSUME NEW d \in Conns \ {c} PROVE Clean(d)' /\ OwnResponses(d)'
    <3>1. /\ pc'[d] = pc[d] /\ bodies'[d] = bodies[d] /\ answered'[d] = answered[d]
          /\ out'[d] = out[d] /\ ended'[d] = ended[d] /\ ctx'[d] = ctx[d] /\ bw'[d] = bw[d]
          /\ ctx[d] # None => resp'[ctx[d]] = resp[ctx[d]]
          /\ bw[d] # None => wbuf'[bw[d]] = wbuf[bw[d]]
      BY <1>1
    <3>2. Clean(d) /\ OwnResponses(d)
      BY DEF ResponseInv
    <3>3. Clean(d)'
      BY <3>1, <3>2 DEF Clean, Looping
    <3>4. OwnResponses(d)'
      BY <3>1, <3>2 DEF OwnResponses
    <3>5. QED
      BY <3>3, <3>4
  <2>2. QED
    BY <1>1, <2>1 DEF ResponseInv
<1>2. ASSUME NEW c \in Conns, Begin(c) PROVE ResponseInv'
  <2>1. PICK x \in freeCtxs : ctx' = [ctx EXCEPT ![c] = x] /\ freeCtxs' = freeCtxs \ {x}
    BY <1>2 DEF Begin
  <2>2. /\ pc[c] = "new" /\ pc' = [pc EXCEPT ![c] = "top"]
        /\ UNCHANGED <<bodies, bw, wbuf, resp, answered, out, ended>>
    BY <1>2 DEF Begin, writeVars
  <2>3. ctx'[c] = x /\ pc'[c] = "top" /\ \A d \in Conns \ {c} : ctx'[d] = ctx[d] /\ pc'[d] = pc[d]
    BY <2>1, <2>2 DEF PoolInv, Private
  <2>4. Clean(c)' /\ OwnResponses(c)'
    BY <2>1, <2>2, <2>3 DEF ResponseInv, Clean, OwnResponses, Looping
  <2>5. QED
    BY <1>1, <2>1, <2>2, <2>3, <2>4 DEF ResponseInv, ResponseTypes
<1>3. ASSUME NEW c \in Conns, Top(c) \/ DeadlineFails(c) PROVE ResponseInv'
  <2>1. /\ pc[c] = "top" /\ UNCHANGED <<bodies, bw, wbuf, resp, answered, out, ctx, freeCtxs>>
        /\ \/ pc' = [pc EXCEPT ![c] = "read"] /\ ended' = ended
           \/ pc' = [pc EXCEPT ![c] = "leave"] /\ ended' = [ended EXCEPT ![c] = "deadline"]
    BY <1>3 DEF Top, DeadlineFails, writeVars, ctxVars
  <2>2. /\ \A k \in 1..Len(out[c]) : k <= answered[c] /\ out[c][k] = <<c, k>>
        /\ Len(out[c]) = answered[c] /\ Clean(c)
    <3>1. Clean(c) /\ OwnResponses(c) /\ Looping(c) /\ answered[c] \in Nat
      BY <2>1 DEF ResponseInv, ResponseTypes, Looping
    <3>2. Len(out[c]) = answered[c]
      BY <3>1 DEF Clean
    <3>3. \A k \in 1..Len(out[c]) : k <= answered[c] /\ k # answered[c] + 1
      BY <3>1, <3>2
    <3>4. QED
      BY <3>1, <3>2, <3>3 DEF OwnResponses
  <2>3. ResponseTypes' /\ \A d \in Conns \ {c} : pc'[d] = pc[d] /\ ended'[d] = ended[d]
    BY <2>1 DEF ResponseInv, ResponseTypes, PoolInv
  <2>4. pc'[c] \in {"read", "leave"}
    BY <2>1 DEF PoolInv
  <2>5. Clean(c)' /\ OwnResponses(c)'
    BY <2>1, <2>2, <2>4 DEF Clean, OwnResponses, Looping
  <2>6. QED
    BY <1>1, <2>1, <2>3, <2>5 DEF ResponseInv
<1>4. ASSUME NEW c \in Conns, Read(c) PROVE ResponseInv'
  <2>1. pc[c] = "read" /\ UNCHANGED <<bw, wbuf, resp, answered, out, ctx, freeCtxs, ended>>
    BY <1>4 DEF Read, writeVars, ctxVars
  <2>2. CASE UNCHANGED <<pc, bodies>>
    BY <2>1, <2>2 DEF ResponseInv, ResponseTypes, Clean, OwnResponses, Looping
  <2>3. ASSUME NEW body \in Seq(Char), pc' = [pc EXCEPT ![c] = "handle"],
               bodies' = [bodies EXCEPT ![c] = Append(@, body)]
        PROVE  ResponseInv'
    <3>1. Len(bodies[c]) = answered[c] /\ answered[c] \in Nat
      <4>1. answered[c] \in Nat /\ Looping(c) /\ Clean(c)
        BY <2>1 DEF ResponseInv, ResponseTypes, Looping
      <4>2. Len(bodies[c]) = answered[c] + 0
        BY <2>1, <4>1 DEF Clean
      <4>3. QED
        BY <4>1, <4>2
    <3> bodies[c] \in Seq(Seq(Char))
      BY DEF DataInv
    <3>2. Len(bodies'[c]) = answered[c] + 1
      <4>1. Len(Append(bodies[c], body)) = Len(bodies[c]) + 1
        BY AppendProperties
      <4>2. QED
        BY <2>3, <3>1, <4>1 DEF DataInv
    <3>3. \A d \in Conns \ {c} : bodies'[d] = bodies[d] /\ pc'[d] = pc[d]
      BY <2>3 DEF DataInv, PoolInv
    <3>4. pc'[c] = "handle"
      BY <2>3 DEF PoolInv
    <3>5. Clean(c)' /\ OwnResponses(c)'
      BY <2>1, <3>2, <3>4 DEF ResponseInv, Clean, OwnResponses, Looping
    <3>6. QED
      BY <1>1, <2>1, <3>3, <3>5 DEF ResponseInv, ResponseTypes
  <2>4. CASE \E i \in 1..Len(Stream(c)) :
               /\ pc' = [pc EXCEPT ![c] = "handle"] /\ First(Stream(c), i - 1) \in Seq(Char)
               /\ bodies' = [bodies EXCEPT ![c] = Append(@, First(Stream(c), i - 1))]
    BY <2>3, <2>4
  <2>5. QED
    BY <1>4, <2>2, <2>4, ReadTakes
<1>5. ASSUME NEW c \in Conns, NEW why \in {"limit", "eof", "reset", "timeout"}, Fail(c, why)
      PROVE  ResponseInv'
  <2>1. /\ pc' = [pc EXCEPT ![c] = "leave"] /\ ended' = [ended EXCEPT ![c] = why]
        /\ UNCHANGED <<bodies, ctx, freeCtxs>>
    BY <1>5 DEF Fail, Break, ctxVars
  <2>2. Clean(c)' /\ \A d \in Conns \ {c} : pc'[d] = pc[d] /\ ended'[d] = ended[d]
    BY <2>1 DEF PoolInv, ResponseInv, ResponseTypes, Clean, Looping
  <2>3. /\ ResponseTypes' /\ OwnResponses(c)'
        /\ \A x \in freeCtxs : resp'[x] = <<>>
        /\ \A d \in Conns \ {c} :
             /\ out'[d] = out[d] /\ bw'[d] = bw[d] /\ answered'[d] = answered[d]
             /\ ctx[d] # None => resp'[ctx[d]] = resp[ctx[d]]
             /\ bw[d] # None => wbuf'[bw[d]] = wbuf[bw[d]]
    BY <1>5, FailStep
  <2>4. QED
    BY <1>1, <2>1, <2>2, <2>3
<1>6. ASSUME NEW c \in Conns, Respond(c) \/ WriteFails(c) PROVE ResponseInv'
  <2>1. /\ pc[c] = "handle" /\ UNCHANGED <<bodies, ctx, freeCtxs>>
        /\ Write(c, Answer(c)) \/ WriteBroken(c, Answer(c))
    BY <1>6 DEF Respond, WriteFails, ctxVars
  <2>2. /\ Looping(c) /\ ctx[c] # None /\ Len(out[c]) = answered[c] /\ answered[c] \in Nat
        /\ Len(bodies[c]) = answered[c] + 1 /\ out[c] \in Seq(AResponse)
    BY <2>1 DEF PoolInv, Looping, ResponseInv, ResponseTypes, Clean
  <2>3. Answer(c) = <<<<c, answered[c] + 1>>>> /\ Answer(c) \in Seq(AResponse)
    BY <2>2, ResponsesTyped DEF Answer
  <2>4. PICK left \in Seq(AResponse) :
          resp' = [resp EXCEPT ![ctx[c]] = left] /\ (Respond(c) => left = <<>>)
    BY <1>6, <2>3, ResponsesTyped DEF Respond, WriteFails
  <2>5. /\ wbuf' \in [Writers -> Seq(AResponse)] /\ resp' \in [Contexts -> Seq(AResponse)]
        /\ out' \in [Conns -> Seq(AResponse)] /\ resp'[ctx[c]] = left
        /\ \A x \in freeCtxs : resp'[x] = <<>>
        /\ \/ out'[c] = out[c] /\ ~Write(c, Answer(c))
           \/ out'[c] = out[c] \o Answer(c) /\ wbuf'[bw'[c]] = <<>>
        /\ \A d \in Conns \ {c} :
             /\ out'[d] = out[d] /\ bw'[d] = bw[d]
             /\ ctx[d] # None => resp'[ctx[d]] = resp[ctx[d]]
             /\ bw[d] # None => wbuf'[bw[d]] = wbuf[bw[d]]
    BY <2>1, <2>2, <2>3, <2>4, WriteClean
  <2>6. \A k \in 1..Len(out[c]) : k <= answered[c] /\ out[c][k] = <<c, k>>
    BY <2>2 DEF ResponseInv, OwnResponses
  <2>7. CASE Respond(c)
    <3>1. /\ answered' = [answered EXCEPT ![c] = @ + 1]
          /\ pc' = [pc EXCEPT ![c] = IF stop THEN "leave" ELSE "top"]
          /\ ended' = [ended EXCEPT ![c] = IF stop THEN "stop" ELSE @]
      BY <2>7 DEF Respond
    <3>2. /\ ResponseTypes' /\ answered'[c] = answered[c] + 1 /\ pc'[c] \in {"leave", "top"}
          /\ \A d \in Conns \ {c} : answered'[d] = answered[d] /\ pc'[d] = pc[d] /\ ended'[d] = ended[d]
      BY <2>5, <3>1 DEF ResponseInv, ResponseTypes, PoolInv
    <3>3. out'[c] = out[c] \o <<<<c, answered[c] + 1>>>> /\ wbuf'[bw'[c]] = <<>>
      BY <2>3, <2>5, <2>7 DEF Respond
    <3>4. /\ Len(out'[c]) = answered[c] + 1 /\ out'[c][answered[c] + 1] = <<c, answered[c] + 1>>
          /\ \A k \in 1..answered[c] : out'[c][k] = out[c][k]
      <4>1. PICK n \in Nat : n = answered[c] + 1 /\ n = Len(out[c]) + 1
        BY <2>2
      <4>2. PICK e \in AResponse : e = <<c, n>>
        BY ResponsesTyped
      <4>3. out[c] \in Seq(AResponse)
        BY <2>2
      <4>4. /\ Len(out[c] \o <<e>>) = n /\ (out[c] \o <<e>>)[n] = e
            /\ \A k \in 1..Len(out[c]) : (out[c] \o <<e>>)[k] = out[c][k]
        <5>1. /\ Len(out[c] \o <<e>>) = Len(out[c]) + 1 /\ (out[c] \o <<e>>)[Len(out[c]) + 1] = e
              /\ \A k \in 1..Len(out[c]) : (out[c] \o <<e>>)[k] = out[c][k]
          BY <4>3, OneMore
        <5>2. QED
          BY <4>1, <5>1
      <4>5. out'[c] = out[c] \o <<e>>
        BY <3>3, <4>1, <4>2
      <4>6. QED
        BY <2>2, <4>1, <4>2, <4>4, <4>5
    <3>5. OwnResponses(c)'
      <4>1. ASSUME NEW k \in 1..answered[c] + 1
            PROVE  k <= answered'[c] /\ out'[c][k] = <<c, k>>
        <5>1. CASE k = answered[c] + 1
          BY <2>2, <3>2, <3>4, <5>1
        <5>2. CASE k # answered[c] + 1
          <6>1. k \in 1..answered[c] /\ k <= answered[c] + 1
            BY <2>2, <5>2
          <6>2. QED
            BY <2>2, <2>6, <3>2, <3>4, <6>1
        <5>3. QED
          BY <5>1, <5>2
      <4>2. QED
        BY <3>4, <4>1 DEF OwnResponses
    <3>6. /\ Len(out'[c]) = answered'[c] /\ Len(bodies'[c]) = answered'[c] + 0
          /\ resp'[ctx'[c]] = <<>>
      BY <2>1, <2>2, <2>4, <2>5, <2>7, <3>2, <3>4
    <3>7. Clean(c)'
      BY <3>2, <3>3, <3>6 DEF Clean
    <3>8. QED
      BY <1>1, <2>1, <2>5, <3>2, <3>5, <3>7
  <2>8. CASE WriteFails(c)
    <3>1. /\ answered' = answered /\ pc' = [pc EXCEPT ![c] = "leave"] /\ out' = out
          /\ ended' = [ended EXCEPT ![c] = "write"]
      BY <2>8 DEF WriteFails
    <3>2. /\ ResponseTypes' /\ pc'[c] = "leave"
          /\ \A d \in Conns \ {c} : pc'[d] = pc[d] /\ ended'[d] = ended[d]
      BY <2>5, <3>1 DEF ResponseInv, ResponseTypes, PoolInv
    <3>3. Clean(c)' /\ OwnResponses(c)'
      BY <2>6, <3>1, <3>2 DEF Clean, Looping, OwnResponses
    <3>4. QED
      BY <1>1, <2>1, <2>5, <3>1, <3>2, <3>3
  <2>9. QED
    BY <1>6, <2>7, <2>8
<1>8. ASSUME NEW c \in Conns, Leave(c) PROVE ResponseInv'
  <2>1. /\ pc[c] = "leave" /\ pc' = [pc EXCEPT ![c] = "done"]
        /\ bw' = [bw EXCEPT ![c] = None] /\ ctx' = [ctx EXCEPT ![c] = None]
        /\ freeCtxs' = freeCtxs \cup {ctx[c]} /\ resp' = [resp EXCEPT ![ctx[c]] = <<>>]
        /\ UNCHANGED <<bodies, wbuf, answered, out, ended>>
    BY <1>8 DEF Leave, ResetResponse
  <2>2. ctx[c] \in Contexts /\ <<>> \in Seq(AResponse)
    BY <2>1, EmptySeq DEF PoolInv, Private
  <2>3. resp' \in [Contexts -> Seq(AResponse)] /\ \A x \in freeCtxs' : resp'[x] = <<>>
    BY <2>1, <2>2 DEF ResponseInv, ResponseTypes
  <2>4. pc'[c] = "done" /\ \A d \in Conns \ {c} :
          /\ pc'[d] = pc[d] /\ ctx'[d] = ctx[d] /\ bw'[d] = bw[d]
          /\ ctx[d] # None => resp'[ctx[d]] = resp[ctx[d]]
    BY <2>1, <2>2 DEF PoolInv, Private, ResponseInv, ResponseTypes
  <2>5. Clean(c)' /\ OwnResponses(c)'
    BY <2>1, <2>4 DEF ResponseInv, Clean, OwnResponses, Looping
  <2>6. QED
    BY <1>1, <2>1, <2>3, <2>4, <2>5 DEF ResponseInv, ResponseTypes
<1>9. CASE \/ Shutdown \/ ShutdownReturns \/ UNCHANGED vars
           \/ \E c \in Conns : Compose(c) \/ Arrive(c) \/ Hangup(c)
  <2>1. UNCHANGED <<pc, bodies, bw, wbuf, resp, answered, out, ctx, freeCtxs, ended>>
    BY <1>9 DEF Shutdown, ShutdownReturns, Compose, Arrive, Hangup, vars, readVars, writeVars, ctxVars
  <2>2. QED
    BY <2>1 DEF ResponseInv, ResponseTypes, Clean, OwnResponses, Looping
<1>10. QED
  BY <1>2, <1>3, <1>4, <1>5, <1>6, <1>8, <1>9
     DEF Next, Serve, ReadLimit, ReadEOF, ReadReset, TimesOut

-----------------------------------------------------------------------------
(* The bodies of a client that waits. *)

LEMMA NewlineFirst ==
  ASSUME NEW k \in 1..MaxRequests, NEW n \in Nat, NEW i \in 1..n + 1, Line(k, n)[i] = Newline
  PROVE  /\ i = n + 1 /\ First(Line(k, n), i - 1) = [j \in 1..n |-> <<k, j>>]
         /\ \A m \in i..Len(Line(k, n)) : After(Line(k, n), m) = <<>>
<1>1. /\ Line(k, n) \in Seq(Byte) /\ Len(Line(k, n)) = n + 1
      /\ \A j \in 1..n : Line(k, n)[j] = <<k, j>>
  BY LineProperties
<1>2. i = n + 1
  <2>1. SUFFICES ASSUME i # n + 1 PROVE FALSE
    OBVIOUS
  <2>2. i \in 1..n /\ <<k, i>> = <<0, 0>>
    BY <1>1, <2>1 DEF Newline
  <2>3. QED
    BY <2>2, ServeConnAssumption
<1>3. n \in 0..Len(Line(k, n)) /\ i - 1 = n
  BY <1>1, <1>2
<1>4. /\ First(Line(k, n), n) \in Seq(Byte) /\ Len(First(Line(k, n), n)) = n
      /\ \A j \in 1..n : First(Line(k, n), n)[j] = <<k, j>>
  <2>1. PICK s \in Seq(Byte) : s = Line(k, n)
    BY <1>1
  <2>2. /\ First(s, n) \in Seq(Byte) /\ Len(First(s, n)) = n
        /\ \A j \in 1..n : First(s, n)[j] = s[j]
    <3>1. n \in 0..Len(s)
      BY <1>3, <2>1
    <3>2. QED
      BY <3>1, Splits
  <2>3. QED
    BY <1>1, <2>1, <2>2
<1>5. First(Line(k, n), n) = [j \in 1..n |-> <<k, j>>]
  BY <1>4, LenProperties
<1>6. ASSUME NEW m \in i..Len(Line(k, n)) PROVE After(Line(k, n), m) = <<>>
  <2>1. m = Len(Line(k, n)) /\ m \in 0..Len(Line(k, n))
    BY <1>1, <1>2
  <2>2. After(Line(k, n), m) \in Seq(Byte) /\ Len(After(Line(k, n), m)) = 0
    BY <1>1, <2>1, Splits
  <2>3. QED
    BY <2>2, EmptySeq
<1>7. QED
  BY <1>2, <1>3, <1>5, <1>6

LEMMA WholeStep ==
  ASSUME PoolInv, DataInv, ResponseInv, WholeInv, [Next]_vars
  PROVE  WholeInv'
<1> SUFFICES ASSUME NEW c \in Conns \ Pipelining
             PROVE  Whole(c)' /\ Intact(c)'
  BY DEF WholeInv
<1> USE ServeConnAssumption
<1>1. /\ sizes[c] \in Seq(BodySizes) /\ Len(sizes[c]) \in Nat /\ Len(sizes[c]) <= MaxRequests
      /\ bodies[c] \in Seq(Seq(Char)) /\ Len(bodies[c]) \in Nat /\ BodySizes \subseteq Nat
      /\ Whole(c) /\ Intact(c)
  BY LenProperties DEF DataInv, WholeInv
<1>2. CASE Unmoved(c)
  BY <1>1, <1>2 DEF Unmoved, Whole, Intact
<1>3. CASE Composed(c)
  <2>1. PICK n \in BodySizes :
          /\ Len(sizes[c]) < MaxRequests /\ answered[c] = Len(sizes[c])
          /\ sizes'[c] = Append(sizes[c], n) /\ bodies'[c] = bodies[c] /\ pc'[c] = pc[c]
          /\ Stream(c)' = Cat(Stream(c), Line(Len(sizes[c]) + 1, n))
    BY <1>3 DEF Composed
  <2>2. /\ Len(sizes'[c]) = Len(sizes[c]) + 1 /\ sizes'[c][Len(sizes[c]) + 1] = n
        /\ \A k \in 1..Len(sizes[c]) : sizes'[c][k] = sizes[c][k]
    BY <1>1, <2>1, AppendProperties
  <2>3. Intact(c)'
    <3>1. ASSUME NEW k \in 1..Len(bodies[c])
          PROVE  k <= Len(sizes'[c]) /\ bodies[c][k] = [i \in 1..sizes'[c][k] |-> <<k, i>>]
      <4>1. k \in 1..Len(sizes[c]) /\ bodies[c][k] = [i \in 1..sizes[c][k] |-> <<k, i>>]
        BY <1>1 DEF Intact
      <4>2. QED
        <5>1. sizes'[c][k] = sizes[c][k] /\ k <= Len(sizes[c]) /\ k <= Len(sizes[c]) + 1
          BY <1>1, <2>2, <4>1
        <5>2. QED
          BY <2>2, <4>1, <5>1
    <3>2. QED
      BY <2>1, <3>1 DEF Intact
  <2>4. CASE Looping(c)
    <3>1. \/ pc[c] = "handle" /\ Len(bodies[c]) = Len(sizes[c]) + 1
          \/ pc[c] # "handle" /\ Len(bodies[c]) = Len(sizes[c]) + 0
      BY <2>1, <2>4 DEF ResponseInv, Clean
    <3>2. \/ Len(sizes[c]) = Len(bodies[c]) /\ Stream(c) = <<>>
          \/ Len(sizes[c]) = Len(bodies[c]) + 1
      BY <1>1, <2>4 DEF Whole
    <3>3. pc[c] # "handle" /\ Stream(c) = <<>> /\ Len(sizes[c]) = Len(bodies[c])
      BY <1>1, <3>1, <3>2
    <3>4. Line(Len(sizes[c]) + 1, n) \in Seq(Byte)
      <4>1. Len(sizes[c]) + 1 \in 1..MaxRequests /\ n \in Nat
        BY <1>1, <2>1
      <4>2. QED
        BY <4>1, LineProperties
    <3>5. Stream(c)' = Line(Len(sizes'[c]), sizes'[c][Len(sizes'[c])])
      BY <2>1, <2>2, <3>3, <3>4, CatLaws
    <3>6. Len(sizes'[c]) = Len(bodies'[c]) + 1 /\ pc'[c] # "handle"
      BY <2>1, <2>2, <3>3
    <3>7. QED
      BY <2>3, <3>5, <3>6 DEF Whole
  <2>5. CASE ~Looping(c)
    BY <2>1, <2>3, <2>5 DEF Whole, Looping
  <2>6. QED
    BY <2>4, <2>5
<1>4. CASE Took(c)
  <2>1. PICK i \in 1..Len(Stream(c)), m \in 1..Len(Stream(c)) :
          /\ m >= i
          /\ pc[c] = "read" /\ pc'[c] = "handle" /\ sizes'[c] = sizes[c]
          /\ Stream(c)[i] = Newline /\ Stream(c)' = After(Stream(c), m)
          /\ First(Stream(c), i - 1) \in Seq(Char)
          /\ bodies'[c] = Append(bodies[c], First(Stream(c), i - 1))
    BY <1>4 DEF Took
  <2>2. PICK k \in Int : k = Len(sizes[c])
    BY <1>1
  <2>3. PICK n : n = sizes[c][k]
    OBVIOUS
  <2>4. k = Len(bodies[c]) + 1 /\ Stream(c) = Line(k, n)
    <3>1. Stream(c) # <<>>
      BY <2>1, EmptySeq
    <3>2. QED
      BY <1>1, <2>1, <2>2, <2>3, <3>1 DEF Whole, Looping
  <2>5. k \in 1..MaxRequests /\ k \in 1..Len(sizes[c])
    BY <1>1, <2>2, <2>4
  <2>6. n \in Nat
    BY <1>1, <2>3, <2>5, ElementOfSeq
  <2>7. Len(Line(k, n)) = n + 1
    BY <2>5, <2>6, LineProperties
  <2>8. i \in 1..n + 1 /\ m \in i..Len(Line(k, n)) /\ Line(k, n)[i] = Newline
    BY <2>1, <2>4, <2>7
  <2>9. First(Stream(c), i - 1) = [j \in 1..n |-> <<k, j>>] /\ Stream(c)' = <<>>
    BY <2>1, <2>4, <2>5, <2>6, <2>8, NewlineFirst
  <2>10. /\ Len(bodies'[c]) = k /\ bodies'[c][k] = [j \in 1..n |-> <<k, j>>]
         /\ \A j \in 1..Len(bodies[c]) : bodies'[c][j] = bodies[c][j]
    BY <1>1, <2>1, <2>4, <2>9, AppendProperties
  <2>11. Intact(c)'
    <3>1. ASSUME NEW j \in 1..k
          PROVE  j <= Len(sizes[c]) /\ bodies'[c][j] = [l \in 1..sizes[c][j] |-> <<j, l>>]
      <4>1. CASE j = k
        BY <2>3, <2>5, <2>10, <4>1
      <4>2. CASE j # k
        <5>1. j \in 1..Len(bodies[c])
          <6>1. PICK N \in Nat : N = Len(bodies[c])
            BY <1>1
          <6>2. j \in 1..N + 1 /\ j # N + 1
            BY <2>4, <4>2, <6>1
          <6>3. j \in 1..N
            BY <6>2
          <6>4. QED
            BY <6>1, <6>3
        <5>2. bodies'[c][j] = bodies[c][j]
          BY <2>10, <5>1
        <5>3. j <= Len(sizes[c]) /\ bodies[c][j] = [l \in 1..sizes[c][j] |-> <<j, l>>]
          BY <1>1, <5>1 DEF Intact
        <5>4. QED
          BY <5>2, <5>3
      <4>3. QED
        BY <4>1, <4>2
    <3>2. QED
      BY <2>1, <2>10, <3>1 DEF Intact
  <2>12. QED
    BY <2>1, <2>2, <2>9, <2>10, <2>11 DEF Whole
<1>5. QED
  BY <1>2, <1>3, <1>4, StreamStep

-----------------------------------------------------------------------------
(* The bodies of any client. *)

\* t is s, and after it the R-th request, of n bytes.
Follows(s, t, sz, sz2, L, M, lo, R, n) ==
  /\ L \in Nat /\ M \in Nat /\ lo \in Nat /\ R \in Nat \ {0} /\ n \in Nat
  /\ lo <= R /\ M = L + (n + 1) /\ Requested(s, L, sz, lo, R - 1)
  /\ \A k \in 1..L : t[k] = s[k]
  /\ \A i \in 1..n : t[L + i] = <<R, i>>
  /\ t[M] = Newline /\ sz2[R] = n
  /\ \A k \in lo..R - 1 : sz2[k] = sz[k]

LEMMA LastBetween ==
  ASSUME NEW L \in Nat, NEW M \in Nat, NEW j \in 1..L, NEW k \in L + 1..M
  PROVE  L \in j..k - 1 /\ L \in 1..L /\ L # 0
OBVIOUS

LEMMA FollowsRequests ==
  ASSUME NEW s, NEW t, NEW sz, NEW sz2, NEW L, NEW M, NEW lo, NEW R, NEW n,
         Follows(s, t, sz, sz2, L, M, lo, R, n)
  PROVE  Requested(t, M, sz2, lo, R)
<1>a. /\ L \in Nat /\ M \in Nat /\ lo \in Nat /\ R \in Nat \ {0} /\ n \in Nat
      /\ lo <= R /\ M = L + (n + 1) /\ Requested(s, L, sz, lo, R - 1)
      /\ \A k \in 1..L : t[k] = s[k]
      /\ \A i \in 1..n : t[L + i] = <<R, i>>
      /\ t[M] = Newline /\ sz2[R] = n
      /\ \A k \in lo..R - 1 : sz2[k] = sz[k]
  BY DEF Follows
<1> USE <1>a
<1>0. PICK num \in [1..L -> lo..R - 1], pos \in [1..L -> Nat \ {0}] : Numbered(s, L, sz, num, pos)
  BY DEF Requested
<1>1. PICK num2 : num2 = [k \in 1..M |-> IF k <= L THEN num[k] ELSE R]
  OBVIOUS
<1>2. PICK pos2 : pos2 = [k \in 1..M |-> IF k <= L THEN pos[k] ELSE k - L]
  OBVIOUS
<1>3. \A k \in 1..L : /\ num2[k] = num[k] /\ pos2[k] = pos[k] /\ k \in 1..M
                      /\ num[k] \in lo..R - 1 /\ pos[k] \in Nat \ {0}
  BY <1>1, <1>2
<1>4. \A k \in L + 1..M : num2[k] = R /\ pos2[k] = k - L /\ k - L \in Nat \ {0} /\ k \in 1..M
  BY <1>1, <1>2
<1>5. \A k \in 1..M : k \in 1..L \/ k \in L + 1..M
  OBVIOUS
<1>6. num2 \in [1..M -> lo..R]
  <2>1. R \in lo..R /\ \A j \in lo..R - 1 : j \in lo..R
    OBVIOUS
  <2>2. \A k \in 1..L : num2[k] \in lo..R
    BY <1>3, <2>1
  <2>3. \A k \in L + 1..M : num2[k] \in lo..R
    BY <1>4, <2>1
  <2>4. \A k \in 1..M : num2[k] \in lo..R
    BY <1>5, <2>2, <2>3
  <2>5. QED
    BY <1>1, <2>4
<1>7. pos2 \in [1..M -> Nat \ {0}]
  <2>1. \A k \in 1..M : pos2[k] \in Nat \ {0}
    BY <1>3, <1>4, <1>5
  <2>2. QED
    BY <1>2, <2>1
<1>8. ASSUME NEW k \in 1..M
      PROVE  /\ pos2[k] <= sz2[num2[k]] + 1
             /\ t[k] = IF pos2[k] = sz2[num2[k]] + 1 THEN Newline ELSE <<num2[k], pos2[k]>>
  <2>1. CASE k \in 1..L
    <3>1. sz2[num[k]] = sz[num[k]] /\ t[k] = s[k] /\ num2[k] = num[k] /\ pos2[k] = pos[k]
      BY <1>3, <2>1
    <3>2. /\ pos[k] <= sz[num[k]] + 1
          /\ s[k] = IF pos[k] = sz[num[k]] + 1 THEN Newline ELSE <<num[k], pos[k]>>
      BY <1>0, <2>1 DEF Numbered
    <3>3. QED
      BY <3>1, <3>2
  <2>2. CASE k = M
    <3>1. num2[k] = R /\ pos2[k] = n + 1 /\ t[k] = Newline /\ sz2[num2[k]] = n
      BY <1>4, <2>2
    <3>2. QED
      BY <3>1
  <2>3. CASE k \in L + 1..M - 1
    <3>1. PICK i \in 1..n : k = L + i
      <4>1. k - L \in 1..n /\ k = L + (k - L)
        BY <2>3
      <4>2. QED
        BY <4>1
    <3>2. num2[k] = R /\ pos2[k] = i /\ t[k] = <<R, i>> /\ sz2[num2[k]] = n
      BY <1>4, <2>3, <3>1
    <3>3. i # n + 1 /\ i <= n + 1
      OBVIOUS
    <3>4. QED
      BY <3>2, <3>3
  <2>4. QED
    BY <1>5, <2>1, <2>2, <2>3
<1>9. ASSUME NEW j \in 1..M, NEW k \in 1..M, j < k
      PROVE  \/ num2[j] = num2[k] /\ pos2[k] - pos2[j] = k - j
             \/ num2[j] < num2[k] /\ \E q \in j..k - 1 : t[q] = Newline
  <2>1. CASE k \in 1..L
    <3>1. j \in 1..L
      BY <1>9, <2>1
    <3>2. \A q \in j..k - 1 : t[q] = s[q]
      <4>1. \A q \in j..k - 1 : q \in 1..L
        BY <2>1, <3>1
      <4>2. QED
        BY <4>1
    <3>3. \/ num[j] = num[k] /\ pos[k] - pos[j] = k - j
          \/ num[j] < num[k] /\ \E q \in j..k - 1 : s[q] = Newline
      BY <1>0, <1>9, <2>1, <3>1 DEF Numbered
    <3>4. num2[j] = num[j] /\ pos2[j] = pos[j] /\ num2[k] = num[k] /\ pos2[k] = pos[k]
      BY <1>3, <2>1, <3>1
    <3>5. (\E q \in j..k - 1 : s[q] = Newline) => \E q \in j..k - 1 : t[q] = Newline
      BY <3>2
    <3>6. QED
      BY <3>3, <3>4, <3>5
  <2>2. CASE k \in L + 1..M /\ j \in 1..L
    <3>1. L \in j..k - 1 /\ L \in 1..L /\ L # 0
      BY <1>0, <2>2, LastBetween
    <3>2. num2[j] < num2[k]
      <4>1. num2[k] = R /\ num2[j] = num[j] /\ num[j] \in lo..R - 1
        BY <1>3, <1>4, <2>2
      <4>2. QED
        BY <4>1
    <3>3. t[L] = Newline
      BY <1>0, <3>1 DEF Numbered
    <3>4. QED
      BY <3>1, <3>2, <3>3
  <2>3. CASE k \in L + 1..M /\ j \in L + 1..M
    <3>1. num2[j] = R /\ num2[k] = R /\ pos2[j] = j - L /\ pos2[k] = k - L
      BY <1>4, <2>3
    <3>2. (k - L) - (j - L) = k - j
      OBVIOUS
    <3>3. QED
      BY <3>1, <3>2
  <2>4. QED
    BY <1>5, <2>1, <2>2, <2>3, <1>9
<1>10. Numbered(t, M, sz2, num2, pos2)
  BY <1>8, <1>9 DEF Numbered
<1>11. QED
  BY <1>6, <1>7, <1>10 DEF Requested

\* i is the place of the first newline in s, and t what follows the m-th byte.
Begins(s, t, sz, L, M, lo, R, num, pos, i, m) ==
  /\ L \in Nat /\ M \in Nat /\ lo \in Nat /\ R \in Nat /\ (\A k \in lo..R : sz[k] \in Nat)
  /\ num \in [1..L -> lo..R] /\ pos \in [1..L -> Nat \ {0}] /\ Numbered(s, L, sz, num, pos)
  /\ i \in 1..L /\ s[i] = Newline /\ (\A j \in 1..i - 1 : s[j] # Newline)
  /\ m \in i..L /\ M = L - m /\ (\A j \in 1..M : t[j] = s[m + j])

\* The i - 1 elements of s before the i-th are the end of the k-th request, of n bytes.
Headed(s, i, k, n) ==
  \E lost \in 0..n : n - lost = i - 1 /\ \A j \in 1..i - 1 : s[j] = <<k, lost + j>>

LEMMA BeginsWithEnd ==
  ASSUME NEW s, NEW t, NEW sz, NEW L, NEW M, NEW lo, NEW R, NEW num, NEW pos, NEW i, NEW m,
         Begins(s, t, sz, L, M, lo, R, num, pos, i, m)
  PROVE  Headed(s, i, num[i], sz[num[i]])
<1>a. /\ L \in Nat /\ M \in Nat /\ lo \in Nat /\ R \in Nat /\ (\A k \in lo..R : sz[k] \in Nat)
      /\ num \in [1..L -> lo..R] /\ pos \in [1..L -> Nat \ {0}] /\ Numbered(s, L, sz, num, pos)
      /\ i \in 1..L /\ s[i] = Newline /\ (\A j \in 1..i - 1 : s[j] # Newline)
      /\ m \in i..L /\ M = L - m /\ (\A j \in 1..M : t[j] = s[m + j])
  BY DEF Begins
<1> USE <1>a
<1>1. PICK k \in lo..R : k = num[i]
  OBVIOUS
<1>2. PICK n \in Nat : n = sz[k]
  OBVIOUS
<1>3. pos[i] = n + 1
  <2>1. s[i] = IF pos[i] = n + 1 THEN Newline ELSE <<num[i], pos[i]>>
    BY <1>1, <1>2 DEF Numbered
  <2>2. pos[i] # 0
    OBVIOUS
  <2>3. <<num[i], pos[i]>> # Newline
    BY <2>2 DEF Newline
  <2>4. QED
    BY <2>1, <2>3
<1>4. ASSUME NEW j \in 1..i - 1
      PROVE  pos[j] = (n + 1) - (i - j) /\ pos[j] \in Nat \ {0} /\ s[j] = <<k, (n + 1) - (i - j)>>
  <2>1. j \in 1..L /\ j < i /\ \A q \in j..i - 1 : q \in 1..i - 1
    OBVIOUS
  <2>2. num[j] = num[i] /\ pos[i] - pos[j] = i - j
    <3>1. \/ num[j] = num[i] /\ pos[i] - pos[j] = i - j
          \/ num[j] < num[i] /\ \E q \in j..i - 1 : s[q] = Newline
      BY <2>1 DEF Numbered
    <3>2. \A q \in j..i - 1 : s[q] # Newline
      BY <2>1
    <3>3. QED
      BY <3>1, <3>2
  <2>3. pos[j] \in Nat \ {0}
    BY <2>1
  <2>4. pos[j] = (n + 1) - (i - j)
    <3>1. PICK a \in Nat : a = pos[j]
      BY <2>3
    <3>2. (n + 1) - a = i - j
      BY <1>3, <2>2, <3>1
    <3>3. a = (n + 1) - (i - j)
      BY <3>2
    <3>4. QED
      BY <3>1, <3>3
  <2>5. s[j] = IF pos[j] = n + 1 THEN Newline ELSE <<k, pos[j]>>
    BY <1>1, <1>2, <2>1, <2>2 DEF Numbered
  <2>6. pos[j] # n + 1
    <3>1. (n + 1) - (i - j) # n + 1
      BY <2>1
    <3>2. QED
      BY <2>4, <3>1
  <2>7. QED
    BY <2>3, <2>4, <2>5, <2>6
<1>5. PICK lost \in Int : lost = (n + 1) - i
  OBVIOUS
<1>6. n - lost = i - 1 /\ \A j \in 1..i - 1 : (n + 1) - (i - j) = lost + j
  BY <1>5
<1>7. \A j \in 1..i - 1 : s[j] = <<k, lost + j>>
  BY <1>4, <1>6
<1>8. lost \in 0..n
  <2>1. lost <= n
    BY <1>5
  <2>2. CASE i = 1
    BY <1>5, <2>2
  <2>3. CASE i # 1
    <3>1. 1 \in 1..i - 1
      BY <2>3
    <3>2. pos[1] = (n + 1) - (i - 1) /\ pos[1] \in Nat \ {0}
      BY <1>4, <3>1
    <3>3. QED
      BY <1>5, <2>1, <3>2
  <2>4. QED
    BY <2>2, <2>3
<1>9. QED
  BY <1>1, <1>2, <1>6, <1>7, <1>8 DEF Headed

LEMMA LaterRemain ==
  ASSUME NEW s, NEW t, NEW sz, NEW L, NEW M, NEW lo, NEW R, NEW num, NEW pos, NEW i, NEW m,
         Begins(s, t, sz, L, M, lo, R, num, pos, i, m)
  PROVE  Requested(t, M, sz, num[i] + 1, R)
<1>a. /\ L \in Nat /\ M \in Nat /\ lo \in Nat /\ R \in Nat /\ (\A k \in lo..R : sz[k] \in Nat)
      /\ num \in [1..L -> lo..R] /\ pos \in [1..L -> Nat \ {0}] /\ Numbered(s, L, sz, num, pos)
      /\ i \in 1..L /\ s[i] = Newline /\ (\A j \in 1..i - 1 : s[j] # Newline)
      /\ m \in i..L /\ M = L - m /\ (\A j \in 1..M : t[j] = s[m + j])
  BY DEF Begins
<1> USE <1>a
<1>1. PICK k \in lo..R : k = num[i]
  OBVIOUS
<1>2. PICK n \in Nat : n = sz[k]
  OBVIOUS
<1>3. pos[i] = n + 1
  <2>1. s[i] = IF pos[i] = n + 1 THEN Newline ELSE <<num[i], pos[i]>>
    BY <1>1, <1>2 DEF Numbered
  <2>2. pos[i] # 0
    OBVIOUS
  <2>3. <<num[i], pos[i]>> # Newline
    BY <2>2 DEF Newline
  <2>4. QED
    BY <2>1, <2>3
<1>4. ASSUME NEW j \in 1..L, i < j PROVE num[j] \in k + 1..R
  <2>1. \/ num[i] = num[j] /\ pos[j] - pos[i] = j - i
        \/ num[i] < num[j]
    BY <1>4 DEF Numbered
  <2>2. num[j] \in lo..R /\ pos[j] \in Nat /\ pos[j] <= sz[num[j]] + 1
    BY DEF Numbered
  <2>3. num[i] # num[j]
    <3>1. SUFFICES ASSUME num[i] = num[j] PROVE FALSE
      OBVIOUS
    <3>2. sz[num[j]] = n
      BY <1>1, <1>2, <3>1
    <3>3. pos[j] <= n + 1
      BY <2>2, <3>2
    <3>4. pos[j] - (n + 1) = j - i
      BY <1>1, <1>3, <2>1, <3>1
    <3>5. QED
      BY <1>4, <2>2, <3>3, <3>4
  <2>4. QED
    BY <1>1, <2>1, <2>2, <2>3
<1>5. PICK num2 : num2 = [j \in 1..M |-> num[m + j]]
  OBVIOUS
<1>6. PICK pos2 : pos2 = [j \in 1..M |-> pos[m + j]]
  OBVIOUS
<1>7. \A j \in 1..M : /\ m + j \in 1..L /\ i < m + j /\ num2[j] = num[m + j]
                      /\ pos2[j] = pos[m + j] /\ pos[m + j] \in Nat \ {0}
  BY <1>5, <1>6
<1>8. num2 \in [1..M -> k + 1..R]
  <2>1. \A j \in 1..M : num2[j] \in k + 1..R
    BY <1>4, <1>7
  <2>2. QED
    BY <1>5, <2>1
<1>9. pos2 \in [1..M -> Nat \ {0}]
  BY <1>6, <1>7
<1>10. ASSUME NEW j \in 1..M
       PROVE  /\ pos2[j] <= sz[num2[j]] + 1
              /\ t[j] = IF pos2[j] = sz[num2[j]] + 1 THEN Newline ELSE <<num2[j], pos2[j]>>
  <2>1. PICK p \in 1..L : p = m + j /\ num2[j] = num[p] /\ pos2[j] = pos[p] /\ t[j] = s[p]
    BY <1>7
  <2>2. /\ pos[p] <= sz[num[p]] + 1
        /\ s[p] = IF pos[p] = sz[num[p]] + 1 THEN Newline ELSE <<num[p], pos[p]>>
    BY DEF Numbered
  <2>3. QED
    BY <2>1, <2>2
<1>11. ASSUME NEW j \in 1..M, NEW l \in 1..M, j < l
       PROVE  \/ num2[j] = num2[l] /\ pos2[l] - pos2[j] = l - j
              \/ num2[j] < num2[l] /\ \E q \in j..l - 1 : t[q] = Newline
  <2>1. PICK p \in 1..L : p = m + j /\ num2[j] = num[p] /\ pos2[j] = pos[p]
    BY <1>7
  <2>2. PICK r \in 1..L : r = m + l /\ num2[l] = num[r] /\ pos2[l] = pos[r]
    BY <1>7
  <2>3. p < r /\ r - p = l - j
    BY <2>1, <2>2, <1>11
  <2>4. \/ num[p] = num[r] /\ pos[r] - pos[p] = r - p
        \/ num[p] < num[r] /\ \E q \in p..r - 1 : s[q] = Newline
    BY <2>3 DEF Numbered
  <2>5. ASSUME NEW q \in p..r - 1, s[q] = Newline PROVE \E v \in j..l - 1 : t[v] = Newline
    <3>1. PICK v \in Int : v = q - m
      OBVIOUS
    <3>2. v \in j..l - 1 /\ v \in 1..M /\ m + v = q
      BY <2>1, <2>2, <3>1
    <3>3. QED
      BY <2>5, <3>2
  <2>6. QED
    BY <2>1, <2>2, <2>3, <2>4, <2>5
<1>12. ASSUME M # 0 PROVE t[M] = Newline
  <2>1. M \in 1..M /\ m + M = L /\ L # 0
    BY <1>12
  <2>2. QED
    BY <2>1 DEF Numbered
<1>13. Numbered(t, M, sz, num2, pos2)
  BY <1>10, <1>11, <1>12 DEF Numbered
<1>14. QED
  BY <1>1, <1>8, <1>9, <1>13 DEF Requested


\* Another request follows what is left of the others.
LEMMA RequestAdded ==
  ASSUME NEW s \in Seq(Byte), NEW sz \in Seq(Nat), NEW lo \in 1..Len(sz) + 1, NEW n \in Nat,
         Requests(s, sz, lo), Len(sz) < MaxRequests
  PROVE  Requests(Cat(s, Line(Len(sz) + 1, n)), Append(sz, n), lo)
<1>1. PICK L \in Nat : L = Len(s)
  BY LenProperties
<1>2. PICK R \in Nat \ {0} : R = Len(sz) + 1 /\ R - 1 = Len(sz)
  BY LenProperties
<1>3. PICK M \in Nat : M = L + (n + 1)
  OBVIOUS
<1>4. R \in 1..MaxRequests /\ lo \in Nat /\ lo >= 1 /\ lo <= R
  BY <1>2, LenProperties, ServeConnAssumption
<1>5. PICK line \in Seq(Byte) : line = Line(R, n)
  BY <1>4, LineProperties
<1>6. /\ Len(line) = n + 1 /\ line[n + 1] = Newline
      /\ \A i \in 1..n : line[i] = <<R, i>>
  BY <1>4, <1>5, LineProperties
<1>7. PICK t : t = Cat(s, line)
  OBVIOUS
<1>8. /\ Len(t) = Len(s) + Len(line) /\ \A k \in 1..Len(s) : t[k] = s[k]
      /\ \A i \in 1..Len(line) : t[Len(s) + i] = line[i]
  <2>1. /\ Len(Cat(s, line)) = Len(s) + Len(line)
        /\ \A k \in 1..Len(s) : Cat(s, line)[k] = s[k]
        /\ \A i \in 1..Len(line) : Cat(s, line)[Len(s) + i] = line[i]
    BY CatElements
  <2>2. QED
    BY <1>7, <2>1
<1>9. Len(t) = M /\ t[M] = Newline
  <2>1. n + 1 \in 1..Len(line)
    BY <1>6
  <2>2. QED
    BY <1>1, <1>3, <1>6, <1>8, <2>1
<1>10. \A k \in 1..L : t[k] = s[k]
  BY <1>1, <1>8
<1>11. \A i \in 1..n : t[L + i] = <<R, i>>
  <2>1. \A i \in 1..n : i \in 1..Len(line)
    BY <1>6
  <2>2. QED
    BY <1>1, <1>6, <1>8, <2>1
<1>12. PICK sz2 : sz2 = Append(sz, n)
  OBVIOUS
<1>13. Len(sz2) = R /\ sz2[R] = n
  BY <1>2, <1>12, AppendProperties
<1>14. \A k \in lo..R - 1 : sz2[k] = sz[k]
  <2>1. \A k \in lo..R - 1 : k \in 1..Len(sz)
    BY <1>2, <1>4
  <2>2. QED
    BY <1>12, <2>1, AppendProperties
<1>15. Requested(s, L, sz, lo, R - 1)
  BY <1>1, <1>2 DEF Requests
<1>16. Follows(s, t, sz, sz2, L, M, lo, R, n)
  BY <1>3, <1>4, <1>9, <1>10, <1>11, <1>13, <1>14, <1>15 DEF Follows
<1>17. QED
  BY <1>2, <1>5, <1>7, <1>9, <1>12, <1>13, <1>16, FollowsRequests DEF Requests

\* What goes before the first newline is the end of one request.  What follows a
\* newline is left of later requests.
LEMMA RequestTaken ==
  ASSUME NEW s \in Seq(Byte), NEW sz \in Seq(Nat), NEW lo \in 1..Len(sz) + 1,
         Requests(s, sz, lo),
         NEW i \in 1..Len(s), NEW m \in 1..Len(s), m >= i, s[i] = Newline,
         ~Contains(First(s, i - 1), Newline)
  PROVE  \E k \in lo..Len(sz) :
           Requests(After(s, m), sz, k + 1) /\ EndOf(First(s, i - 1), k, sz[k])
<1>1. PICK L \in Nat : L = Len(s) /\ i \in 1..L /\ m \in i..L
  BY LenProperties
<1>2. PICK R \in Nat : R = Len(sz) /\ lo \in Nat
  BY LenProperties
<1>3. \A k \in lo..R : sz[k] \in Nat
  <2>1. \A k \in lo..R : k \in 1..Len(sz)
    BY <1>2
  <2>2. QED
    BY <2>1, ElementOfSeq
<1>4. PICK num \in [1..L -> lo..R], pos \in [1..L -> Nat \ {0}] : Numbered(s, L, sz, num, pos)
  BY <1>1, <1>2 DEF Requests, Requested
<1>5. PICK k \in lo..R : k = num[i]
  BY <1>1
<1>6. PICK body : body = First(s, i - 1)
  OBVIOUS
<1>7. body \in Seq(Byte) /\ Len(body) = i - 1 /\ \A j \in 1..i - 1 : body[j] = s[j]
  <2>1. PICK h \in 0..Len(s) : h = i - 1
    BY <1>1
  <2>2. First(s, h) \in Seq(Byte) /\ Len(First(s, h)) = h /\ \A j \in 1..h : First(s, h)[j] = s[j]
    BY Splits
  <2>3. QED
    BY <1>6, <2>1, <2>2
<1>8. \A j \in 1..i - 1 : s[j] # Newline
  BY <1>6, <1>7 DEF Contains
<1>9. PICK t : t = After(s, m)
  OBVIOUS
<1>10. PICK M \in Nat : M = L - m
  <2>1. m \in Nat /\ m <= L
    BY <1>1
  <2>2. QED
    BY <2>1
<1>11. Len(t) = M /\ \A j \in 1..M : t[j] = s[m + j]
  <2>1. m \in 0..Len(s)
    BY <1>1
  <2>2. /\ Len(After(s, m)) = Len(s) - m
        /\ \A j \in 1..Len(s) - m : After(s, m)[j] = s[m + j]
    BY <2>1, Splits
  <2>3. QED
    BY <1>1, <1>9, <1>10, <2>2
<1>12. Begins(s, t, sz, L, M, lo, R, num, pos, i, m)
  BY <1>1, <1>2, <1>3, <1>4, <1>8, <1>10, <1>11 DEF Begins
<1>13. PICK lost \in 0..sz[k] : sz[k] - lost = i - 1 /\ \A j \in 1..i - 1 : s[j] = <<k, lost + j>>
  <2>1. Headed(s, i, k, sz[k])
    BY <1>5, <1>12, BeginsWithEnd
  <2>2. QED
    BY <2>1 DEF Headed
<1>14. body = [j \in 1..i - 1 |-> <<k, lost + j>>]
  <2>1. body \in [1..i - 1 -> Byte]
    BY <1>7, LenProperties
  <2>2. \A j \in 1..i - 1 : body[j] = <<k, lost + j>>
    BY <1>7, <1>13
  <2>3. QED
    BY <2>1, <2>2
<1>15. EndOf(body, k, sz[k])
  BY <1>13, <1>14 DEF EndOf
<1>16. Requests(t, sz, k + 1)
  BY <1>2, <1>5, <1>11, <1>12, LaterRemain DEF Requests
<1>17. QED
  BY <1>2, <1>6, <1>9, <1>15, <1>16

LEMMA EndingLonger ==
  ASSUME NEW seq, NEW sz, NEW sz2, NEW N \in Nat, NEW hi \in Nat,
         Endings(seq, N, sz, hi), \A k \in 1..hi : sz2[k] = sz[k]
  PROVE  Endings(seq, N, sz2, hi)
<1>1. PICK of \in [1..N -> 1..hi] : Ending(seq, N, sz, of)
  BY DEF Endings
<1>2. Ending(seq, N, sz2, of)
  BY <1>1 DEF Ending
<1>3. QED
  BY <1>2 DEF Endings

LEMMA EndingMore ==
  ASSUME NEW seq, NEW more, NEW sz, NEW N \in Nat, NEW hi \in Nat, Endings(seq, N, sz, hi), NEW k \in Nat, hi < k,
         \A i \in 1..N : more[i] = seq[i], EndOf(more[N + 1], k, sz[k])
  PROVE  Endings(more, N + 1, sz, k)
<1>0. PICK of \in [1..N -> 1..hi] : Ending(seq, N, sz, of)
  BY DEF Endings
<1>1. PICK of2 : of2 = [i \in 1..N + 1 |-> IF i <= N THEN of[i] ELSE k]
  OBVIOUS
<1>2. \A i \in 1..N : of2[i] = of[i] /\ of[i] \in 1..hi /\ of[i] < k
  <2>1. \A i \in 1..N : i \in 1..N + 1 /\ i <= N /\ of[i] \in 1..hi
    OBVIOUS
  <2>2. QED
    BY <1>1, <2>1
<1>3. of2[N + 1] = k
  <2>1. N + 1 \in 1..N + 1 /\ ~(N + 1 <= N)
    OBVIOUS
  <2>2. QED
    BY <1>1, <2>1
<1>4. \A i \in 1..N + 1 : i \in 1..N \/ i = N + 1
  OBVIOUS
<1>5. of2 \in [1..N + 1 -> 1..k]
  <2>1. k \in 1..k /\ \A i \in 1..N : of[i] \in 1..k
    BY <1>2
  <2>2. \A i \in 1..N + 1 : of2[i] \in 1..k
    BY <1>2, <1>3, <1>4, <2>1
  <2>3. QED
    BY <1>1, <2>2
<1>6. ASSUME NEW i \in 1..N + 1, NEW j \in 1..N + 1, i < j PROVE of2[i] < of2[j]
  <2>1. i \in 1..N
    BY <1>6
  <2>2. CASE j \in 1..N
    BY <1>0, <1>2, <1>6, <2>1, <2>2 DEF Ending
  <2>3. CASE j = N + 1
    BY <1>2, <1>3, <2>1, <2>3
  <2>4. QED
    BY <1>4, <2>2, <2>3
<1>7. N + 1 <= k
  <2>1. CASE N = 0
    BY <2>1
  <2>2. CASE N # 0
    <3>1. N \in 1..N
      BY <2>2
    <3>2. N <= of[N] /\ of[N] < k /\ of[N] \in Nat
      BY <1>0, <1>2, <3>1 DEF Ending
    <3>3. QED
      BY <3>2
  <2>3. QED
    BY <2>1, <2>2
<1>8. ASSUME NEW i \in 1..N + 1 PROVE i <= of2[i]
  BY <1>0, <1>2, <1>3, <1>4, <1>7 DEF Ending
<1>9. ASSUME NEW i \in 1..N + 1
      PROVE  EndOf(more[i], of2[i], sz[of2[i]])
  <2>1. CASE i = N + 1
    BY <1>3, <2>1
  <2>2. CASE i \in 1..N
    <3>1. of2[i] = of[i] /\ more[i] = seq[i]
      BY <1>2, <2>2
    <3>2. EndOf(seq[i], of[i], sz[of[i]])
      BY <1>0, <2>2 DEF Ending
    <3>3. QED
      BY <3>1, <3>2
  <2>3. QED
    BY <1>4, <2>1, <2>2
<1>10. Ending(more, N + 1, sz, of2)
  BY <1>6, <1>8, <1>9 DEF Ending
<1>11. QED
  BY <1>5, <1>10 DEF Endings

\* The bodies, when a request is composed, and when another body is taken.
LEMMA EndsLonger ==
  ASSUME NEW seq \in Seq(Seq(Char)), NEW sz \in Seq(Nat), NEW hi \in 0..Len(sz), Ends(seq, sz, hi),
         NEW n \in Nat
  PROVE  Ends(seq, Append(sz, n), hi)
<1>1. PICK N \in Nat : N = Len(seq)
  BY LenProperties
<1>2. hi \in Nat /\ \A k \in 1..hi : k \in 1..Len(sz)
  BY LenProperties
<1>3. \A k \in 1..hi : Append(sz, n)[k] = sz[k]
  BY <1>2, AppendProperties
<1>4. QED
  BY <1>1, <1>2, <1>3, EndingLonger DEF Ends

LEMMA EndsMore ==
  ASSUME NEW seq \in Seq(Seq(Char)), NEW sz \in Seq(Nat), NEW hi \in 0..Len(sz), Ends(seq, sz, hi),
         NEW body \in Seq(Char), NEW k \in 1..Len(sz), hi < k, EndOf(body, k, sz[k])
  PROVE  Ends(Append(seq, body), sz, k)
<1>1. PICK N \in Nat : N = Len(seq)
  BY LenProperties
<1>2. PICK more : more = Append(seq, body)
  OBVIOUS
<1>3. Len(more) = N + 1 /\ more[N + 1] = body /\ \A i \in 1..N : more[i] = seq[i]
  BY <1>1, <1>2, AppendProperties
<1>4. hi \in Nat /\ k \in Nat
  BY LenProperties
<1>5. EndOf(more[N + 1], k, sz[k]) /\ Endings(seq, N, sz, hi)
  BY <1>1, <1>3 DEF Ends
<1>6. Endings(more, N + 1, sz, k)
  BY <1>3, <1>4, <1>5, EndingMore
<1>7. QED
  BY <1>2, <1>3, <1>6 DEF Ends
LEMMA TailStep ==
  ASSUME PoolInv, DataInv, TailInv, [Next]_vars
  PROVE  TailInv'
<1> SUFFICES ASSUME NEW c \in Conns
             PROVE  \E next \in 1..Len(sizes'[c]) + 1 :
                      /\ Ends(bodies'[c], sizes'[c], next - 1)
                      /\ Looping(c)' => Requests(Stream(c)', sizes'[c], next)
  BY DEF TailInv
<1> USE ServeConnAssumption
<1>1. /\ sizes[c] \in Seq(BodySizes) /\ sizes[c] \in Seq(Nat) /\ Len(sizes[c]) \in Nat
      /\ bodies[c] \in Seq(Seq(Char)) /\ Len(sizes[c]) <= MaxRequests /\ Stream(c) \in Seq(Byte)
  BY LenProperties, SeqMonotonic, StreamTyped DEF DataInv
<1>2. PICK next \in 1..Len(sizes[c]) + 1 :
        /\ Ends(bodies[c], sizes[c], next - 1)
        /\ Looping(c) => Requests(Stream(c), sizes[c], next)
  BY DEF TailInv
<1>3. next \in Nat /\ next - 1 \in 0..Len(sizes[c]) /\ next <= Len(sizes[c]) + 1
  BY <1>1
<1>4. CASE Unmoved(c)
  BY <1>2, <1>4 DEF Unmoved
<1>5. CASE Composed(c)
  <2>1. PICK n \in BodySizes :
          /\ Len(sizes[c]) < MaxRequests /\ bodies'[c] = bodies[c] /\ pc'[c] = pc[c]
          /\ sizes'[c] = Append(sizes[c], n)
          /\ Stream(c)' = Cat(Stream(c), Line(Len(sizes[c]) + 1, n))
    BY <1>5 DEF Composed
  <2>2. n \in Nat /\ Len(sizes'[c]) = Len(sizes[c]) + 1
    BY <1>1, <2>1, AppendProperties
  <2>3. Ends(bodies'[c], sizes'[c], next - 1)
    BY <1>1, <1>2, <1>3, <2>1, <2>2, EndsLonger
  <2>4. Looping(c) => Requests(Stream(c)', sizes'[c], next)
    BY <1>1, <1>2, <1>3, <2>1, <2>2, RequestAdded
  <2>5. next \in 1..Len(sizes'[c]) + 1
    BY <1>1, <2>2
  <2>6. QED
    BY <2>1, <2>3, <2>4, <2>5 DEF Looping
<1>6. CASE Took(c)
  <2>1. PICK i \in 1..Len(Stream(c)), m \in 1..Len(Stream(c)) :
          /\ m >= i
          /\ pc[c] = "read" /\ pc'[c] = "handle" /\ sizes'[c] = sizes[c]
          /\ Stream(c)[i] = Newline /\ ~Contains(First(Stream(c), i - 1), Newline)
          /\ Stream(c)' = After(Stream(c), m)
          /\ First(Stream(c), i - 1) \in Seq(Char)
          /\ bodies'[c] = Append(bodies[c], First(Stream(c), i - 1))
    <3>1. PICK L \in Nat : L = Len(Stream(c))
      BY <1>1, LenProperties
    <3>2. \A i \in 1..L : \A m \in i..L : m \in 1..L /\ m >= i
      OBVIOUS
    <3>3. QED
      BY <1>6, <3>1, <3>2 DEF Took
  <2>2. Requests(Stream(c), sizes[c], next)
    BY <1>2, <2>1 DEF Looping
  <2>3. PICK k \in next..Len(sizes[c]) :
          /\ Requests(After(Stream(c), m), sizes[c], k + 1)
          /\ EndOf(First(Stream(c), i - 1), k, sizes[c][k])
    BY <1>1, <2>1, <2>2, RequestTaken
  <2>4. k \in 1..Len(sizes[c]) /\ next - 1 < k /\ k + 1 \in 1..Len(sizes[c]) + 1 /\ (k + 1) - 1 = k
    BY <1>1, <1>3
  <2>5. Ends(bodies'[c], sizes'[c], k)
    BY <1>1, <1>2, <1>3, <2>1, <2>3, <2>4, EndsMore
  <2>6. QED
    BY <2>1, <2>3, <2>4, <2>5
<1>7. QED
  BY <1>4, <1>5, <1>6, StreamStep

-----------------------------------------------------------------------------
(* The invariant, and what follows from it. *)

LEMMA InitEmpty ==
  ASSUME Init, NEW c \in Conns
  PROVE  /\ sizes[c] = <<>> /\ bodies[c] = <<>> /\ out[c] = <<>> /\ Stream(c) = <<>>
         /\ pc[c] = "new" /\ ctx[c] = None /\ bw[c] = None /\ answered[c] = 0
<1>1. /\ sizes[c] = <<>> /\ bodies[c] = <<>> /\ out[c] = <<>>
      /\ pc[c] = "new" /\ ctx[c] = None /\ bw[c] = None /\ answered[c] = 0
  BY DEF Init
<1>2. raw[c] = <<>> /\ Buffered(c) = <<>> /\ wire[c] = <<>> /\ rest[c] = <<>>
  BY DEF Init, Buffered
<1>3. Cat(<<>>, <<>>) = <<>>
  BY CatLaws, EmptySeq
<1>4. QED
  BY <1>1, <1>2, <1>3 DEF Stream

LEMMA EmptyTails == Ends(<<>>, <<>>, 0) /\ Requests(<<>>, <<>>, 1)
<1>1. Len(<<>>) = 0 /\ 1..0 = {}
  BY EmptySeq
<1>2. PICK of : of = [i \in 1..0 |-> 1]
  OBVIOUS
<1>3. Endings(<<>>, 0, <<>>, 0)
  <2>1. of \in [1..0 -> 1..0]
    BY <1>1, <1>2
  <2>2. Ending(<<>>, 0, <<>>, of)
    BY <1>1 DEF Ending
  <2>3. QED
    BY <2>1, <2>2 DEF Endings
<1>4. Requested(<<>>, 0, <<>>, 1, 0)
  <2>1. of \in [1..0 -> 1..0] /\ of \in [1..0 -> Nat \ {0}]
    BY <1>1, <1>2
  <2>2. Numbered(<<>>, 0, <<>>, of, of)
    BY <1>1 DEF Numbered
  <2>3. QED
    BY <2>1, <2>2 DEF Requested
<1>5. QED
  BY <1>1, <1>3, <1>4 DEF Ends, Requests

LEMMA InitInv ==
  ASSUME Init
  PROVE  IInv
<1> USE ServeConnAssumption
<1>1. PoolInv
  BY DEF Init, PoolInv, Private, Places
<1>2. DataInv
  <2>1. \A S : <<>> \in Seq(S)
    BY EmptySeq
  <2>2. Len(<<>>) = 0
    BY EmptySeq
  <2>3. QED
    BY <2>1, <2>2 DEF Init, DataInv
<1>3. ResponseInv
  <2>1. ResponseTypes
    BY EmptySeq DEF Init, ResponseTypes
  <2>2. \A x \in freeCtxs : resp[x] = <<>>
    BY DEF Init
  <2>3. \A c \in Conns : Clean(c) /\ OwnResponses(c)
    <3>1. Len(<<>>) = 0 /\ 1..0 = {}
      BY EmptySeq
    <3>2. QED
      BY <3>1, InitEmpty DEF Clean, OwnResponses
  <2>4. QED
    BY <2>1, <2>2, <2>3 DEF ResponseInv
<1>4. WholeInv
  <2>1. Len(<<>>) = 0 /\ 1..0 = {}
    BY EmptySeq
  <2>2. QED
    BY <2>1, InitEmpty DEF WholeInv, Whole, Intact
<1>5. TailInv
  <2>1. Len(<<>>) = 0 /\ 1 - 1 = 0 /\ 1 \in 1..0 + 1
    BY EmptySeq
  <2>2. ASSUME NEW c \in Conns
        PROVE  \E next \in 1..Len(sizes[c]) + 1 :
                 Ends(bodies[c], sizes[c], next - 1) /\ (Looping(c) => Requests(Stream(c), sizes[c], next))
    <3>1. sizes[c] = <<>> /\ bodies[c] = <<>> /\ Stream(c) = <<>>
      BY InitEmpty
    <3>2. QED
      BY <2>1, <3>1, EmptyTails
  <2>3. QED
    BY <2>2 DEF TailInv
<1>6. QED
  BY <1>1, <1>2, <1>3, <1>4, <1>5 DEF IInv

LEMMA NextInv == IInv /\ [Next]_vars => IInv'
<1> SUFFICES ASSUME IInv, [Next]_vars PROVE IInv'
  OBVIOUS
<1>1. PoolInv /\ DataInv /\ ResponseInv /\ WholeInv /\ TailInv
  BY DEF IInv
<1>2. PoolInv'
  BY <1>1, PoolStep
<1>3. DataInv'
  BY <1>1, DataStep
<1>4. ResponseInv'
  BY <1>1, <1>2, ResponseStep
<1>5. WholeInv'
  BY <1>1, WholeStep
<1>6. TailInv'
  BY <1>1, TailStep
<1>7. QED
  BY <1>2, <1>3, <1>4, <1>5, <1>6 DEF IInv

\* The invariant holds in every reachable state.
THEOREM Invariance == Spec => []IInv
<1>1. Init => IInv
  BY InitInv
<1>2. QED
  BY <1>1, NextInv, PTL DEF Spec

\* A reader, a writer and a context are in the hands of one serveConn at a time, and
\* not in their pools meanwhile.
THEOREM PooledCorrect == Spec => []PooledPrivate
<1>1. IInv => PooledPrivate
  <2> SUFFICES ASSUME IInv PROVE PooledPrivate
    OBVIOUS
  <2>1. Private(br, free, Readers) /\ Private(bw, freeWriters, Writers) /\ Private(ctx, freeCtxs, Contexts)
    BY DEF IInv, PoolInv
  <2>2. ASSUME NEW use, NEW pool, NEW objects, Private(use, pool, objects), NEW c \in Conns,
               use[c] # None
        PROVE  use[c] \notin pool /\ \A d \in Conns \ {c} : use[d] # use[c]
    BY <2>2 DEF Private
  <2>3. QED
    BY <2>1, <2>2 DEF PooledPrivate
<1>2. QED
  BY <1>1, Invariance, PTL

\* A client is sent the responses to its own requests in order, and then perhaps that
\* it has timed out, whatever writers and contexts its serveConn was given.
THEOREM ResponsesCorrect == Spec => []ResponsesOwn
<1>1. IInv => ResponsesOwn
  BY DEF IInv, ResponseInv, OwnResponses, ResponsesOwn
<1>2. QED
  BY <1>1, Invariance, PTL

\* The handler is given each request of a client that waits for its responses whole,
\* once and in order, however it is cut and whatever the sizes of the buffers.
THEOREM BodiesCorrect == Spec => []BodiesIntact
<1>1. IInv => BodiesIntact
  BY DEF IInv, WholeInv, Intact, BodiesIntact
<1>2. QED
  BY <1>1, Invariance, PTL

Tails(seq, sz) ==
  \E of \in [1..Len(seq) -> 1..Len(sz)] :
    /\ \A i, j \in DOMAIN of : i < j => of[i] < of[j]
    /\ \A i \in DOMAIN of :
         \E lost \in 0..sz[of[i]] : seq[i] = [m \in 1..sz[of[i]] - lost |-> <<of[i], lost + m>>]

LEMMA EndsWithin ==
  ASSUME NEW seq, NEW sz, NEW hi \in Nat, Len(sz) \in Nat, hi <= Len(sz), Ends(seq, sz, hi)
  PROVE  Tails(seq, sz)
<1>1. PICK of \in [1..Len(seq) -> 1..hi] : Ending(seq, Len(seq), sz, of)
  BY DEF Ends, Endings
<1>2. DOMAIN of = 1..Len(seq) /\ of \in [1..Len(seq) -> 1..Len(sz)]
  OBVIOUS
<1>3. \A i, j \in 1..Len(seq) : i < j => of[i] < of[j]
  BY <1>1 DEF Ending
<1>4. \A i \in 1..Len(seq) :
        \E lost \in 0..sz[of[i]] : seq[i] = [m \in 1..sz[of[i]] - lost |-> <<of[i], lost + m>>]
  BY <1>1 DEF Ending, EndOf
<1>5. QED
  BY <1>2, <1>3, <1>4 DEF Tails

\* Of a client that does not wait a body may lack its beginning, which was lost with
\* ReadBody's own reader, but is never made of two requests and never lacks its end.
THEOREM TailsCorrect == Spec => []BodiesAreTails
<1>1. IInv => BodiesAreTails
  <2> SUFFICES ASSUME IInv, NEW c \in Conns
               PROVE  Tails(bodies[c], sizes[c])
    BY ServeConnAssumption DEF BodiesAreTails, Tails
  <2>1. Len(sizes[c]) \in Nat
    BY LenProperties DEF IInv, DataInv
  <2>2. PICK next \in 1..Len(sizes[c]) + 1 : Ends(bodies[c], sizes[c], next - 1)
    BY DEF IInv, TailInv
  <2>3. PICK hi \in Nat : hi = next - 1 /\ hi <= Len(sizes[c])
    BY <2>1
  <2>4. QED
    BY <2>1, <2>2, <2>3, EndsWithin
<1>2. QED
  BY <1>1, Invariance, PTL

-----------------------------------------------------------------------------
(* Types.  They are kept because IInv is: a response is to a body that was given, *)
(* and there are no more bodies than requests.                                    *)

Flags == gone \in [Conns -> BOOLEAN] /\ deadline \in [Conns -> BOOLEAN] /\ stop \in BOOLEAN

Responses ==
  /\ \A w \in Writers : wbuf[w] \in Seq(AnyResponse)
  /\ \A x \in Contexts : resp[x] \in Seq(AnyResponse) /\ Len(resp[x]) <= 1
  /\ \A c \in Conns : out[c] \in Seq(AnyResponse)

Answers == \A c \in Conns : answered[c] <= Len(bodies[c])

LEMMA BodiesOfRequests ==
  ASSUME IInv, NEW c \in Conns
  PROVE  Len(bodies[c]) \in Nat /\ Len(bodies[c]) <= MaxRequests
<1>1. Len(bodies[c]) \in Nat /\ Len(sizes[c]) \in Nat /\ Len(sizes[c]) <= MaxRequests
  BY LenProperties DEF IInv, DataInv
<1>2. PICK next \in 1..Len(sizes[c]) + 1 : Ends(bodies[c], sizes[c], next - 1)
  BY DEF IInv, TailInv
<1>3. PICK N \in Nat, hi \in Nat : N = Len(bodies[c]) /\ hi = next - 1 /\ hi <= Len(sizes[c])
  BY <1>1
<1>4. PICK of \in [1..N -> 1..hi] : Ending(bodies[c], N, sizes[c], of)
  BY <1>2, <1>3 DEF Ends, Endings
<1>5. CASE N = 0
  BY <1>1, <1>3, <1>5, ServeConnAssumption
<1>6. CASE N > 0
  <2>1. N \in 1..N
    BY <1>6
  <2>2. N <= of[N] /\ of[N] \in 1..hi
    BY <1>4, <2>1 DEF Ending
  <2>3. N <= hi
    BY <2>2
  <2>4. QED
    BY <1>1, <1>3, <2>3, ServeConnAssumption
<1>7. QED
  BY <1>5, <1>6

LEMMA WriteTyped ==
  ASSUME PoolInv, ResponseTypes, Responses, NEW c \in Conns, NEW body \in Seq(AnyResponse),
         Write(c, body) \/ WriteBroken(c, body)
  PROVE  /\ \A w \in Writers : wbuf'[w] \in Seq(AnyResponse)
         /\ \A d \in Conns : out'[d] \in Seq(AnyResponse)
<1>1. PICK w \in Writers :
        \/ /\ out' = [out EXCEPT ![c] = @ \o ResetPending(c, w) \o body]
           /\ wbuf' = [wbuf EXCEPT ![w] = <<>>]
        \/ /\ out' = out
           /\ wbuf' = [wbuf EXCEPT ![w] = ResetPending(c, w) \o body]
  BY WriterUsed
<1>2. ResetPending(c, w) \in Seq(AnyResponse) /\ <<>> \in Seq(AnyResponse) /\ out[c] \in Seq(AnyResponse)
  BY EmptySeq DEF Responses, ResetPending
<1>3. ResetPending(c, w) \o body \in Seq(AnyResponse) /\ out[c] \o ResetPending(c, w) \in Seq(AnyResponse)
  BY <1>2, ConcatProperties
<1>4. (out[c] \o ResetPending(c, w)) \o body \in Seq(AnyResponse)
  BY <1>3, ConcatProperties
<1>5. DOMAIN out = Conns /\ DOMAIN wbuf = Writers
  BY DEF ResponseTypes
<1>6. QED
  BY <1>1, <1>2, <1>3, <1>4, <1>5 DEF Responses

\* A Response is set to one response, or reset.
LEMMA RespTyped ==
  ASSUME ResponseTypes, Responses, NEW x, NEW body \in Seq(AnyResponse), Len(body) <= 1,
         resp' = [resp EXCEPT ![x] = body]
  PROVE  \A y \in Contexts : resp'[y] \in Seq(AnyResponse) /\ Len(resp'[y]) <= 1
<1>1. DOMAIN resp = Contexts
  BY DEF ResponseTypes
<1>2. ASSUME NEW y \in Contexts
      PROVE  resp'[y] \in Seq(AnyResponse) /\ Len(resp'[y]) <= 1
  <2>1. CASE y = x
    BY <1>1, <2>1
  <2>2. CASE y # x
    BY <1>1, <2>2 DEF Responses
  <2>3. QED
    BY <2>1, <2>2
<1>3. QED
  BY <1>2

LEMMA OneResponse ==
  ASSUME NEW e \in AnyResponse
  PROVE  <<e>> \in Seq(AnyResponse) /\ Len(<<e>>) <= 1
OBVIOUS

LEMMA ResponsesStep ==
  ASSUME IInv, Responses, Next
  PROVE  Responses'
<1>1. PoolInv /\ ResponseInv /\ ResponseTypes
  BY DEF IInv, ResponseInv
<1>2. TimeoutResponse \in AnyResponse /\ <<>> \in Seq(AnyResponse) /\ Len(<<>>) <= 1
  BY EmptySeq DEF AnyResponse
<1>3. CASE UNCHANGED <<wbuf, resp, out>>
  BY <1>3 DEF Responses
<1>4. ASSUME NEW c \in Conns, pc[c] = "handle"
      PROVE  Answer(c) \in Seq(AnyResponse) /\ Len(Answer(c)) <= 1
  <2>1. Len(bodies[c]) = answered[c] + 1 /\ answered[c] \in Nat
    BY <1>1, <1>4 DEF ResponseInv, ResponseTypes, Clean, Looping
  <2>2. Len(bodies[c]) \in Nat /\ Len(bodies[c]) <= MaxRequests
    BY BodiesOfRequests
  <2>3. Len(bodies[c]) \in 1..MaxRequests
    BY <2>1, <2>2, ServeConnAssumption
  <2>4. <<c, Len(bodies[c])>> \in AnyResponse
    BY <2>3 DEF AnyResponse
  <2>5. QED
    BY <2>4, OneResponse DEF Answer
<1>5. ASSUME NEW c \in Conns, Respond(c)
      PROVE  Responses'
  <2>1. Answer(c) \in Seq(AnyResponse)
    BY <1>4, <1>5 DEF Respond
  <2>2. Write(c, Answer(c)) /\ resp' = [resp EXCEPT ![ctx[c]] = <<>>]
    BY <1>5 DEF Respond
  <2>3. /\ \A w \in Writers : wbuf'[w] \in Seq(AnyResponse)
        /\ \A d \in Conns : out'[d] \in Seq(AnyResponse)
    BY <1>1, <2>1, <2>2, WriteTyped
  <2>4. \A y \in Contexts : resp'[y] \in Seq(AnyResponse) /\ Len(resp'[y]) <= 1
    BY <1>1, <1>2, <2>2, RespTyped
  <2>5. QED
    BY <2>3, <2>4 DEF Responses
<1>6. ASSUME NEW c \in Conns, WriteFails(c)
      PROVE  Responses'
  <2>1. Answer(c) \in Seq(AnyResponse) /\ Len(Answer(c)) <= 1
    BY <1>4, <1>6 DEF WriteFails
  <2>2. WriteBroken(c, Answer(c)) /\ resp' = [resp EXCEPT ![ctx[c]] = Answer(c)]
    BY <1>6 DEF WriteFails
  <2>3. /\ \A w \in Writers : wbuf'[w] \in Seq(AnyResponse)
        /\ \A d \in Conns : out'[d] \in Seq(AnyResponse)
    BY <1>1, <2>1, <2>2, WriteTyped
  <2>4. \A y \in Contexts : resp'[y] \in Seq(AnyResponse) /\ Len(resp'[y]) <= 1
    BY <1>1, <2>1, <2>2, RespTyped
  <2>5. QED
    BY <2>3, <2>4 DEF Responses
<1>7. ASSUME NEW c \in Conns, NEW why, Fail(c, why)
      PROVE  Responses'
  <2>1. CASE UNCHANGED writeVars
    BY <1>3, <2>1 DEF writeVars
  <2>2. CASE ~UNCHANGED writeVars
    <3>1. /\ Write(c, ErrorResponse(c, why)) \/ WriteBroken(c, ErrorResponse(c, why))
          /\ resp' = [resp EXCEPT ![ctx[c]] = <<>>]
      BY <1>7, <2>2 DEF Fail, TellError
    <3>2. ctx[c] \in Contexts
      BY <1>1, <1>7 DEF PoolInv, Private, Fail
    <3>3. ErrorResponse(c, why) \in Seq(AnyResponse)
      BY <1>2, <3>2, OneResponse DEF ErrorResponse, Responses
    <3>4. /\ \A w \in Writers : wbuf'[w] \in Seq(AnyResponse)
          /\ \A d \in Conns : out'[d] \in Seq(AnyResponse)
      BY <1>1, <3>1, <3>3, WriteTyped
    <3>5. \A y \in Contexts : resp'[y] \in Seq(AnyResponse) /\ Len(resp'[y]) <= 1
      BY <1>1, <1>2, <3>1, RespTyped
    <3>6. QED
      BY <3>4, <3>5 DEF Responses
  <2>3. QED
    BY <2>1, <2>2
<1>8. ASSUME NEW c \in Conns, Leave(c)
      PROVE  Responses'
  <2>1. resp' = [resp EXCEPT ![ctx[c]] = <<>>] /\ UNCHANGED <<wbuf, out>>
    BY <1>8 DEF Leave, ResetResponse
  <2>2. \A y \in Contexts : resp'[y] \in Seq(AnyResponse) /\ Len(resp'[y]) <= 1
    BY <1>1, <1>2, <2>1, RespTyped
  <2>3. QED
    BY <2>1, <2>2 DEF Responses
<1>9. ASSUME NEW c \in Conns,
             \/ Compose(c) \/ Arrive(c) \/ Hangup(c) \/ Begin(c) \/ Top(c) \/ Read(c) \/ DeadlineFails(c)
      PROVE  UNCHANGED <<wbuf, resp, out>>
  BY <1>9 DEF Compose, Arrive, Hangup, Begin, Top, Read, DeadlineFails, writeVars
<1>10. Shutdown \/ ShutdownReturns => UNCHANGED <<wbuf, resp, out>>
  BY DEF Shutdown, ShutdownReturns, writeVars
<1>11. QED
  BY <1>3, <1>5, <1>6, <1>7, <1>8, <1>9, <1>10
     DEF Next, Serve, ReadLimit, ReadEOF, ReadReset, TimesOut

LEMMA FlagsStep ==
  ASSUME Flags, Next
  PROVE  Flags'
<1>1. ReadTimeout \in BOOLEAN /\ IdleTimeout \in BOOLEAN
  BY ServeConnAssumption
<1>2. ASSUME NEW c \in Conns, SetDeadline(c)
      PROVE  deadline' \in [Conns -> BOOLEAN]
  BY <1>1, <1>2 DEF SetDeadline, Flags
<1>3. ASSUME NEW c \in Conns, Hangup(c)
      PROVE  gone' \in [Conns -> BOOLEAN] /\ UNCHANGED <<deadline, stop>>
  BY <1>3 DEF Hangup, Flags
<1>4. ASSUME NEW c \in Conns, Top(c)
      PROVE  SetDeadline(c) /\ UNCHANGED <<gone, stop>>
  BY <1>4 DEF Top, clientVars
<1>5. ASSUME NEW c \in Conns,
             \/ Compose(c) \/ Arrive(c) \/ Begin(c) \/ Read(c) \/ DeadlineFails(c) \/ Leave(c)
             \/ Respond(c) \/ WriteFails(c) \/ \E why \in {"limit", "eof", "reset", "timeout"} : Fail(c, why)
      PROVE  UNCHANGED <<gone, deadline, stop>>
  BY <1>5 DEF Compose, Arrive, Begin, Read, DeadlineFails, Leave, Respond, WriteFails, Fail, clientVars
<1>6. Shutdown \/ ShutdownReturns => stop' \in BOOLEAN /\ UNCHANGED <<gone, deadline>>
  BY DEF Shutdown, ShutdownReturns, clientVars
<1>7. QED
  BY <1>2, <1>3, <1>4, <1>5, <1>6 DEF Next, Serve, ReadLimit, ReadEOF, ReadReset, TimesOut, Flags

LEMMA AnswersStep ==
  ASSUME IInv, IInv', Answers, Next
  PROVE  Answers'
<1>1. /\ \A d \in Conns : /\ bodies[d] \in Seq(Seq(Char)) /\ Len(bodies[d]) \in Nat
                          /\ answered[d] \in Nat
      /\ bodies \in [Conns -> Seq(Seq(Char))] /\ answered \in [Conns -> Nat]
  BY LenProperties DEF IInv, DataInv, ResponseInv, ResponseTypes
<1>2. CASE UNCHANGED <<bodies, answered>>
  BY <1>2 DEF Answers
<1>3. ASSUME NEW c \in Conns, Respond(c)
      PROVE  Answers'
  <2>1. Len(bodies[c]) = answered[c] + 1
    BY <1>3 DEF IInv, ResponseInv, Clean, Looping, Respond
  <2>2. bodies' = bodies /\ answered' = [answered EXCEPT ![c] = answered[c] + 1]
    BY <1>3 DEF Respond
  <2>3. QED
    BY <1>1, <2>1, <2>2 DEF Answers
<1>4. ASSUME NEW c \in Conns, Read(c)
      PROVE  Answers'
  <2>1. answered' = answered
    BY <1>4 DEF Read, writeVars
  <2>2. bodies' = bodies \/ \E line : bodies' = [bodies EXCEPT ![c] = Append(bodies[c], line)]
    BY <1>4 DEF Read, Deliver
  <2>3. ASSUME NEW line, bodies' = [bodies EXCEPT ![c] = Append(bodies[c], line)]
        PROVE  Answers'
    <3>1. Len(bodies'[c]) = Len(bodies[c]) + 1 /\ \A d \in Conns \ {c} : bodies'[d] = bodies[d]
      BY <1>1, <2>3
    <3>2. ASSUME NEW d \in Conns
          PROVE  answered[d] <= Len(bodies'[d])
      <4>1. PICK n \in Nat, a \in Nat : n = Len(bodies[d]) /\ a = answered[d] /\ a <= n
        BY <1>1 DEF Answers
      <4>2. Len(bodies'[d]) = n \/ Len(bodies'[d]) = n + 1
        BY <3>1, <4>1
      <4>3. QED
        BY <4>1, <4>2
    <3>3. QED
      BY <2>1, <3>2 DEF Answers
  <2>4. QED
    BY <1>2, <2>1, <2>2, <2>3
<1>5. ASSUME NEW c \in Conns,
             \/ Compose(c) \/ Arrive(c) \/ Hangup(c) \/ Begin(c) \/ Top(c) \/ DeadlineFails(c) \/ Leave(c)
             \/ WriteFails(c) \/ \E why \in {"limit", "eof", "reset", "timeout"} : Fail(c, why)
      PROVE  UNCHANGED <<bodies, answered>>
  BY <1>5 DEF Compose, Arrive, Hangup, Begin, Top, DeadlineFails, Leave, WriteFails, Fail, TellError, writeVars
<1>6. Shutdown \/ ShutdownReturns => UNCHANGED <<bodies, answered>>
  BY DEF Shutdown, ShutdownReturns, writeVars
<1>7. QED
  BY <1>2, <1>3, <1>4, <1>5, <1>6 DEF Next, Serve, ReadLimit, ReadEOF, ReadReset, TimesOut

\* Every variable keeps its type: no buffer overflows, no Response holds two responses,
\* and no more requests are answered than a client may send.
THEOREM TypeCorrect == Spec => []TypeOK
<1>1. Init => Flags /\ Responses /\ Answers
  <2>1. ASSUME NEW s, s = <<>>
        PROVE  s \in Seq(AnyResponse) /\ Len(s) = 0 /\ Len(s) <= 1
    BY <2>1, EmptySeq
  <2>2. Init => Flags
    <3>1. ASSUME NEW f, f = [c \in Conns |-> FALSE] PROVE f \in [Conns -> BOOLEAN]
      BY <3>1
    <3>2. QED
      BY <3>1 DEF Init, Flags
  <2>3. Init => /\ \A w \in Writers : wbuf[w] = <<>>
                /\ \A x \in Contexts : resp[x] = <<>>
                /\ \A c \in Conns : out[c] = <<>>
    BY DEF Init
  <2>4. Init => Responses
    BY <2>1, <2>3 DEF Responses
  <2>5. Init => \A c \in Conns : answered[c] = 0 /\ bodies[c] = <<>>
    BY DEF Init
  <2>6. QED
    BY <2>1, <2>2, <2>4, <2>5 DEF Answers
<1>2. IInv /\ IInv' /\ Flags /\ Responses /\ Answers /\ [Next]_vars => (Flags /\ Responses /\ Answers)'
  <2>1. CASE UNCHANGED vars
    BY <2>1 DEF vars, clientVars, readVars, writeVars, ctxVars, Flags, Responses, Answers
  <2>2. QED
    BY <2>1, FlagsStep, ResponsesStep, AnswersStep
<1>3. ASSUME IInv, Flags, Responses, Answers
      PROVE  TypeOK
  <2>1. ASSUME NEW c \in Conns
        PROVE  answered[c] \in 0..MaxRequests
    <3>1. answered[c] \in Nat /\ answered[c] <= Len(bodies[c])
      BY <1>3 DEF IInv, ResponseInv, ResponseTypes, Answers
    <3>2. QED
      BY <1>3, <3>1, BodiesOfRequests, ServeConnAssumption
  <2>2. answered \in [Conns -> 0..MaxRequests]
    BY <1>3, <2>1 DEF IInv, ResponseInv, ResponseTypes
  <2>3. QED
    BY <1>3, <2>2 DEF IInv, PoolInv, DataInv, ResponseInv, ResponseTypes, Flags, Responses, TypeOK,
                      Private, Places
<1>4. QED
  BY <1>1, <1>2, <1>3, Invariance, PTL DEF Spec

=============================================================================
