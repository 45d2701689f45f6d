-------------------------- MODULE WorkerPoolProofs --------------------------
(* Theorems about WorkerPool, for every value of its constants. *)
EXTENDS WorkerPool, SequenceTheorems, FiniteSetTheorems, WellFoundedInduction, TLAPS

-----------------------------------------------------------------------------
(* What the operations on the stack and on scratch do to their elements. *)

\* The definition of IsInjective, over the positions of a sequence.
LEMMA InjectiveSeq ==
  ASSUME NEW S, NEW s \in Seq(S)
  PROVE  IsInjective(s) <=> \A i, j \in 1..Len(s) : s[i] = s[j] => i = j
<1>1. DOMAIN s = 1..Len(s)
  BY LenProperties
<1>2. QED
  BY <1>1 DEF IsInjective

\* The elements after the first p and up to the q-th.
LEMMA Slice ==
  ASSUME NEW S, NEW s \in Seq(S), NEW p \in 0..Len(s), NEW q \in p..Len(s)
  PROVE  /\ SubSeq(s, p + 1, q) \in Seq(S)
         /\ Len(SubSeq(s, p + 1, q)) = q - p
         /\ \A i \in 1..q - p : SubSeq(s, p + 1, q)[i] = s[p + i]
<1> DEFINE t == SubSeq(s, p + 1, q)
<1>1. p \in Nat /\ q \in Nat /\ p <= q /\ q <= Len(s) /\ Len(s) \in Nat
  BY LenProperties
<1>2. \A i \in p + 1..q : s[i] \in S
  BY <1>1, ElementOfSeq
<1>3. /\ t \in Seq(S)
      /\ Len(t) = IF p + 1 <= q THEN q - (p + 1) + 1 ELSE 0
      /\ \A i \in 1..q - (p + 1) + 1 : t[i] = s[(p + 1) + i - 1]
  BY <1>1, <1>2, SubSeqProperties
<1> HIDE DEF t
<1>4. Len(t) = q - p
  BY <1>1, <1>3
<1>5. ASSUME NEW i \in 1..q - p
      PROVE  t[i] = s[p + i]
  <2>1. i \in 1..q - (p + 1) + 1 /\ (p + 1) + i - 1 = p + i
    BY <1>1
  <2>2. QED
    BY <1>3, <2>1
<1>6. QED
  BY <1>3, <1>4, <1>5 DEF t

\* getCh pops the last element of the stack and nothing else.
LEMMA ContainsFront ==
  ASSUME NEW S, NEW s \in Seq(S), s # <<>>, IsInjective(s)
  PROVE  /\ Front(s) \in Seq(S)
         /\ Last(s) \in S
         /\ IsInjective(Front(s))
         /\ \A x : Contains(Front(s), x) <=> Contains(s, x) /\ x # Last(s)
         /\ Contains(s, Last(s))
<1> DEFINE n == Len(s)
<1>1. n \in Nat /\ n > 0
  BY EmptySeq, LenProperties
<1>2. \A i \in 1..n : s[i] \in S
  BY ElementOfSeq
<1>3. /\ Front(s) \in Seq(S)
      /\ Len(Front(s)) = n - 1
      /\ \A i \in 1..n - 1 : Front(s)[i] = s[i]
  <2>1. 0 \in 0..n /\ n - 1 \in 0..n /\ 0 + 1 = 1 /\ (n - 1) - 0 = n - 1
    BY <1>1
  <2>2. /\ SubSeq(s, 1, n - 1) \in Seq(S)
        /\ Len(SubSeq(s, 1, n - 1)) = (n - 1) - 0
        /\ \A i \in 1..(n - 1) - 0 : SubSeq(s, 1, n - 1)[i] = s[0 + i]
    BY <2>1, Slice
  <2>3. \A i \in 1..n - 1 : 0 + i = i
    BY <1>1
  <2>4. QED
    BY <2>1, <2>2, <2>3 DEF Front
<1>4. \A i, j \in 1..n : s[i] = s[j] => i = j
  BY InjectiveSeq
<1>5. IsInjective(Front(s))
  <2>1. \A i, j \in 1..n - 1 : Front(s)[i] = Front(s)[j] => i = j
    BY <1>1, <1>3, <1>4
  <2>2. QED
    BY <2>1, <1>3, InjectiveSeq
<1>6. Last(s) = s[n] /\ Contains(s, s[n])
  BY <1>1 DEF Last, Contains
<1>7. ASSUME NEW x
      PROVE  Contains(Front(s), x) <=> Contains(s, x) /\ x # s[n]
  <2>1. CASE Contains(Front(s), x)
    <3>1. PICK i \in 1..n - 1 : s[i] = x
      BY <2>1, <1>3 DEF Contains
    <3>2. i \in 1..n /\ i # n
      BY <1>1, <3>1
    <3>3. QED
      BY <1>1, <1>4, <3>1, <3>2, <2>1 DEF Contains
  <2>2. CASE Contains(s, x) /\ x # s[n]
    <3>1. PICK i \in 1..n : s[i] = x
      BY <2>2 DEF Contains
    <3>2. i \in 1..n - 1
      BY <1>1, <3>1, <2>2
    <3>3. QED
      BY <1>3, <3>1, <3>2, <2>2 DEF Contains
  <2>3. QED
    BY <2>1, <2>2
<1>8. QED
  BY <1>1, <1>2, <1>3, <1>5, <1>6, <1>7

\* Stop and the cleaner take the first element and nothing else.
LEMMA ContainsTail ==
  ASSUME NEW S, NEW s \in Seq(S), s # <<>>, IsInjective(s)
  PROVE  /\ Tail(s) \in Seq(S)
         /\ Head(s) \in S
         /\ IsInjective(Tail(s))
         /\ \A x : Contains(Tail(s), x) <=> Contains(s, x) /\ x # Head(s)
         /\ Contains(s, Head(s))
<1> DEFINE n == Len(s)
<1>1. n \in Nat /\ n > 0
  BY EmptySeq, LenProperties
<1>2. /\ Tail(s) \in Seq(S)
      /\ Head(s) \in S
      /\ Head(s) = s[1]
      /\ Len(Tail(s)) = n - 1
      /\ \A i \in 1..n - 1 : Tail(s)[i] = s[i + 1]
  BY HeadTailProperties
<1>3. \A i, j \in 1..n : s[i] = s[j] => i = j
  BY InjectiveSeq
<1>4. IsInjective(Tail(s))
  <2>1. ASSUME NEW i \in 1..n - 1, NEW j \in 1..n - 1, Tail(s)[i] = Tail(s)[j]
        PROVE  i = j
    <3>1. i + 1 \in 1..n /\ j + 1 \in 1..n /\ s[i + 1] = s[j + 1]
      BY <1>1, <1>2, <2>1
    <3>2. QED
      BY <1>3, <3>1
  <2>2. QED
    BY <2>1, <1>2, InjectiveSeq
<1>5. Contains(s, s[1])
  BY <1>1 DEF Contains
<1>6. ASSUME NEW x
      PROVE  Contains(Tail(s), x) <=> Contains(s, x) /\ x # s[1]
  <2>1. CASE Contains(Tail(s), x)
    <3>1. PICK i \in 1..n - 1 : s[i + 1] = x
      BY <2>1, <1>2 DEF Contains
    <3>2. i + 1 \in 1..n /\ i + 1 # 1 /\ 1 \in 1..n
      BY <1>1, <3>1
    <3>3. QED
      BY <1>3, <3>1, <3>2, <2>1 DEF Contains
  <2>2. CASE Contains(s, x) /\ x # s[1]
    <3>1. PICK i \in 1..n : s[i] = x
      BY <2>2 DEF Contains
    <3>2. i - 1 \in 1..n - 1 /\ (i - 1) + 1 = i
      BY <1>1, <3>1, <2>2
    <3>3. Tail(s)[i - 1] = x
      BY <1>2, <3>1, <3>2
    <3>4. QED
      BY <1>2, <3>2, <3>3, <2>2 DEF Contains
  <2>3. QED
    BY <2>1, <2>2
<1>7. QED
  BY <1>2, <1>4, <1>5, <1>6

\* release pushes a worker that was not on the stack.
LEMMA ContainsAppend ==
  ASSUME NEW S, NEW s \in Seq(S), NEW x \in S, IsInjective(s), ~Contains(s, x)
  PROVE  /\ Append(s, x) \in Seq(S)
         /\ IsInjective(Append(s, x))
         /\ \A y : Contains(Append(s, x), y) <=> Contains(s, y) \/ y = x
<1> DEFINE n == Len(s)
           t == Append(s, x)
<1> n \in Nat
  BY LenProperties
<1>1. /\ t \in Seq(S) /\ Len(t) = n + 1
      /\ \A i \in 1..n : t[i] = s[i]
      /\ t[n + 1] = x
  BY AppendProperties
<1> HIDE DEF t
<1>2. /\ \A i, j \in 1..n : s[i] = s[j] => i = j
      /\ \A i \in 1..n : s[i] # x
  BY InjectiveSeq DEF Contains
<1>3. \A i \in 1..n + 1 : i \in 1..n \/ i = n + 1
  OBVIOUS
<1>4. \A i, j \in 1..n + 1 : t[i] = t[j] => i = j
  BY <1>1, <1>2, <1>3
<1>5. ASSUME NEW y
      PROVE  Contains(t, y) <=> Contains(s, y) \/ y = x
  BY <1>1, <1>3 DEF Contains
<1>6. IsInjective(t)
  BY <1>1, <1>4, InjectiveSeq
<1>7. QED
  BY <1>1, <1>5, <1>6 DEF t

\* clean splits the stack in two; no worker is lost and none is in both parts.
LEMMA ContainsSplit ==
  ASSUME NEW S, NEW s \in Seq(S), NEW k \in 0..Len(s), IsInjective(s)
  PROVE  /\ SubSeq(s, 1, k) \in Seq(S)
         /\ SubSeq(s, k + 1, Len(s)) \in Seq(S)
         /\ IsInjective(SubSeq(s, 1, k))
         /\ IsInjective(SubSeq(s, k + 1, Len(s)))
         /\ \A x : Contains(s, x) <=> \/ Contains(SubSeq(s, 1, k), x)
                                      \/ Contains(SubSeq(s, k + 1, Len(s)), x)
         /\ \A x : ~(Contains(SubSeq(s, 1, k), x) /\ Contains(SubSeq(s, k + 1, Len(s)), x))
<1> DEFINE n == Len(s)
           a == SubSeq(s, 1, k)
           b == SubSeq(s, k + 1, n)
<1> n \in Nat /\ k \in Nat /\ k <= n
  BY LenProperties
<1>1. \A i \in 1..n : s[i] \in S
  BY ElementOfSeq
<1>2. /\ a \in Seq(S) /\ Len(a) = k
      /\ \A i \in 1..k : a[i] = s[i]
  <2>1. \A i \in 1..k : s[i] \in S
    BY <1>1
  <2>2. QED
    BY <2>1, SubSeqProperties
<1>3. /\ b \in Seq(S) /\ Len(b) = n - k
      /\ \A i \in 1..n - k : b[i] = s[k + i]
  BY Slice
<1> HIDE DEF a, b
<1>4. \A i, j \in 1..n : s[i] = s[j] => i = j
  BY InjectiveSeq
<1>5. /\ \A i \in 1..k : i \in 1..n
      /\ \A i \in 1..n - k : k + i \in 1..n
      /\ \A i \in 1..n : i \in 1..k \/ (i - k \in 1..n - k /\ k + (i - k) = i)
  OBVIOUS
<1>6. IsInjective(a)
  <2>1. \A i, j \in 1..k : a[i] = a[j] => i = j
    BY <1>2, <1>4, <1>5
  <2>2. QED
    BY <2>1, <1>2, InjectiveSeq
<1>7. IsInjective(b)
  <2>1. ASSUME NEW i \in 1..n - k, NEW j \in 1..n - k, b[i] = b[j]
        PROVE  i = j
    <3>1. k + i = k + j
      BY <2>1, <1>3, <1>4, <1>5
    <3>2. QED
      BY <3>1
  <2>2. QED
    BY <2>1, <1>3, InjectiveSeq
<1>8. ASSUME NEW x
      PROVE  Contains(s, x) <=> Contains(a, x) \/ Contains(b, x)
  <2>1. ASSUME Contains(s, x) PROVE Contains(a, x) \/ Contains(b, x)
    <3>1. PICK i \in 1..n : s[i] = x
      BY <2>1 DEF Contains
    <3>2. CASE i \in 1..k
      BY <3>1, <3>2, <1>2 DEF Contains
    <3>3. CASE i - k \in 1..n - k /\ k + (i - k) = i
      <4>1. b[i - k] = x
        BY <3>1, <3>3, <1>3
      <4>2. QED
        BY <4>1, <3>3, <1>3 DEF Contains
    <3>4. QED
      BY <3>1, <3>2, <3>3, <1>5
  <2>2. ASSUME Contains(a, x) PROVE Contains(s, x)
    BY <2>2, <1>2, <1>5 DEF Contains
  <2>3. ASSUME Contains(b, x) PROVE Contains(s, x)
    <3>1. PICK i \in 1..n - k : b[i] = x
      BY <2>3, <1>3 DEF Contains
    <3>2. s[k + i] = x /\ k + i \in 1..n
      BY <3>1, <1>3, <1>5
    <3>3. QED
      BY <3>2 DEF Contains
  <2>4. QED
    BY <2>1, <2>2, <2>3
<1>9. ASSUME NEW x, Contains(a, x), Contains(b, x)
      PROVE  FALSE
  <2>1. PICK i \in 1..k : s[i] = x
    BY <1>9, <1>2 DEF Contains
  <2>2. PICK j \in 1..n - k : s[k + j] = x
    BY <1>9, <1>3 DEF Contains
  <2>3. i = k + j
    BY <2>1, <2>2, <1>4, <1>5
  <2>4. QED
    BY <2>1, <2>2, <2>3
<1>10. QED
  BY <1>2, <1>3, <1>6, <1>7, <1>8, <1>9 DEF a, b

-----------------------------------------------------------------------------
(* The inductive invariant.  The four properties hold each other up: a worker  *)
(* gets no second message because only one party has a claim to it, and        *)
(* workersCount stays a natural number because it counts the live workers.     *)

\* Local state that goes with a control point.
ControlPoints ==
  /\ owner = "send" <=> to # None
  /\ owner = "send" <=> offer # None
  /\ \A g \in Cleaners : tmp[g] # <<>> => cleaner[g] = "notify"
  /\ \A g \in Cleaners : g > starts => cleaner[g] = "off"
  /\ \A ch \in Chans : pc[ch] = "serve" <=> cur[ch] # None

IInv ==
  /\ TypeOK
  /\ CountExact
  /\ NoWorkerStranded
  /\ OneSender
  /\ NoneParkedAfterStop
  /\ ControlPoints

Live == {ch \in Chans : pc[ch] # "absent"}

\* A step that neither starts nor ends a worker keeps the count exact.
LEMMA CountSame ==
  ASSUME CountExact, workersCount' = workersCount,
         \A ch \in Chans : pc'[ch] = "absent" <=> pc[ch] = "absent"
  PROVE  CountExact'
<1>1. Live' = Live
  BY DEF Live
<1>2. QED
  BY <1>1 DEF CountExact, Live

\* getCh counts the worker that it starts.
LEMMA CountUp ==
  ASSUME CountExact, NEW ch \in Chans, NEW T, pc \in [Chans -> T], pc[ch] = "absent",
         pc' = [pc EXCEPT ![ch] = "recv"], workersCount' = workersCount + 1
  PROVE  CountExact'
<1>1. IsFiniteSet(Live)
  BY PoolAssumption, FS_Subset DEF Live
<1>2. Live' = Live \cup {ch} /\ ch \notin Live
  BY DEF Live
<1>3. Cardinality(Live') = Cardinality(Live) + 1
  BY <1>1, <1>2, FS_AddElement
<1>4. QED
  BY <1>3 DEF CountExact, Live

\* A worker that returns was counted.
LEMMA CountDown ==
  ASSUME CountExact, NEW ch \in Chans, NEW T, pc \in [Chans -> T], pc[ch] # "absent",
         pc' = [pc EXCEPT ![ch] = "absent"], workersCount' = workersCount - 1
  PROVE  CountExact' /\ workersCount \in Nat \ {0}
<1>1. IsFiniteSet(Live)
  BY PoolAssumption, FS_Subset DEF Live
<1>2. Live' = Live \ {ch} /\ ch \in Live
  BY DEF Live
<1>3. Cardinality(Live') = Cardinality(Live) - 1
  BY <1>1, <1>2, FS_RemoveElement
<1>4. Cardinality(Live) \in Nat \ {0}
  BY <1>1, <1>2, FS_CardinalityType, FS_EmptySet
<1>5. QED
  BY <1>3, <1>4 DEF CountExact, Live

LEMMA InitInv == Init => IInv
<1> SUFFICES ASSUME Init PROVE IInv
  OBVIOUS
<1> USE PoolAssumption DEF Init
<1>1. TypeOK
  <2>1. <<>> \in Seq(Chans)
    BY EmptySeq
  <2>2. tmp \in [Cleaners -> Seq(Chans)] /\ ready \in Seq(Chans)
    BY <2>1
  <2>3. crit \in [Cleaners -> Int] /\ lastUse \in [Chans -> Time] /\ now \in Time
    BY DEF Time
  <2>4. workersCount \in 0..MaxWorkersCount /\ starts \in 0..MaxStarts
    OBVIOUS
  <2>5. /\ pc \in [Chans -> {"absent", "recv", "serve", "release", "exit"}]
        /\ msg \in [Chans -> Conns \cup {Nil, None}]
        /\ cur \in [Chans -> Conns \cup {None}]
        /\ cleaner \in [Cleaners -> {"off", "sleep", "clean", "notify", "done"}]
    OBVIOUS
  <2>6. /\ mustStop \in BOOLEAN /\ started \in BOOLEAN
        /\ owner \in {"idle", "send", "stop", "notify"}
        /\ to \in Chans \cup {None} /\ offer \in Conns \cup {None}
    OBVIOUS
  <2>7. QED
    BY <2>2, <2>3, <2>4, <2>5, <2>6 DEF TypeOK
<1>2. CountExact
  <2>1. {ch \in Chans : pc[ch] # "absent"} = {}
    OBVIOUS
  <2>2. QED
    BY <2>1, FS_EmptySet DEF CountExact
<1>3. \A x : ~Contains(<<>>, x)
  BY EmptySeq DEF Contains
<1>4. IsInjective(<<>>)
  <2>1. <<>> \in Seq(Chans) /\ Len(<<>>) = 0 /\ 1..0 = {}
    BY EmptySeq
  <2>2. QED
    BY <2>1, InjectiveSeq
<1>5. NoWorkerStranded /\ OneSender
  BY <1>3, <1>4 DEF NoWorkerStranded, OneSender
<1>6. NoneParkedAfterStop /\ ControlPoints
  BY DEF NoneParkedAfterStop, ControlPoints
<1>7. QED
  BY <1>1, <1>2, <1>5, <1>6 DEF IInv

-----------------------------------------------------------------------------
(* Every action preserves the invariant. *)

\* Steps that move no message and no claim to a worker.
LEMMA FrameStep ==
  ASSUME CountExact, NoWorkerStranded, OneSender,
         UNCHANGED <<ready, to, pc, msg, tmp, workersCount>>
  PROVE  CountExact' /\ NoWorkerStranded' /\ OneSender'
<1>1. CountExact'
  BY CountSame
<1>2. NoWorkerStranded' /\ OneSender'
  BY DEF NoWorkerStranded, OneSender
<1>3. QED
  BY <1>1, <1>2

LEMMA StartStep == ASSUME IInv, Start PROVE IInv'
<1> USE PoolAssumption DEF IInv
<1>1. CountExact' /\ NoWorkerStranded' /\ OneSender'
  BY FrameStep DEF Start, workerVars, lockVars
<1>2. starts + 1 \in Cleaners /\ starts' \in 0..MaxStarts
  BY DEF Start, TypeOK, Cleaners
<1>3. TypeOK'
  BY <1>2 DEF Start, workerVars, lockVars, TypeOK
<1>4. NoneParkedAfterStop'
  BY DEF Start, lockVars, NoneParkedAfterStop
<1>5. ControlPoints'
  <2>1. /\ cleaner' = [cleaner EXCEPT ![starts + 1] = "sleep"]
        /\ UNCHANGED <<owner, to, offer, tmp, pc, cur>>
    BY DEF Start, workerVars
  <2>2. starts \in Nat /\ starts' = starts + 1
    BY DEF Start, TypeOK
  <2>3. tmp[starts + 1] = <<>>
    BY <1>2, <2>2 DEF ControlPoints
  <2>4. cleaner \in [Cleaners -> {"off", "sleep", "clean", "notify", "done"}]
    BY DEF TypeOK
  <2>5. \A g \in Cleaners : g > starts' => g > starts /\ g # starts + 1
    BY <2>2 DEF Cleaners
  <2>6. QED
    BY <2>1, <2>3, <2>4, <2>5 DEF ControlPoints
<1>6. QED
  BY <1>1, <1>3, <1>4, <1>5

LEMMA ServeReadyStep ==
  ASSUME IInv, NEW c \in Conns, owner = "idle", ServeReady(c)
  PROVE  IInv'
<1> USE PoolAssumption DEF IInv
<1> DEFINE ch == Last(ready)
<1>1. ready \in Seq(Chans) /\ ready # <<>> /\ IsInjective(ready)
  BY DEF TypeOK, OneSender, ServeReady
<1>2. /\ ready' \in Seq(Chans) /\ ch \in Chans /\ IsInjective(ready')
      /\ \A x : Contains(ready', x) <=> Contains(ready, x) /\ x # ch
      /\ Contains(ready, ch)
  BY <1>1, ContainsFront DEF ServeReady, PopReady
<1> HIDE DEF ch
<1>3. /\ to' = ch /\ offer' = c /\ owner' = "send"
      /\ UNCHANGED <<workersCount, pc, msg, cur, lastUse, started, starts>>
      /\ UNCHANGED <<cleaner, crit, tmp, mustStop, now>>
  BY DEF ServeReady, Address, workerVars, cleanerVars, ch
<1>4. to = None
  BY DEF ControlPoints
<1>5. CountExact'
  BY <1>3, CountSame
<1>6. TypeOK'
  BY <1>2, <1>3 DEF TypeOK
<1>7. NoWorkerStranded'
  BY <1>2, <1>3, <1>4 DEF NoWorkerStranded, TypeOK
<1>8. OneSender'
  BY <1>2, <1>3, <1>4 DEF OneSender
<1>9. NoneParkedAfterStop'
  BY <1>1, <1>3 DEF NoneParkedAfterStop
<1>10. ControlPoints'
  BY <1>2, <1>3, PoolAssumption DEF ControlPoints
<1>11. QED
  BY <1>5, <1>6, <1>7, <1>8, <1>9, <1>10

LEMMA ServeNewStep ==
  ASSUME IInv, NEW c \in Conns, owner = "idle", ServeNew(c)
  PROVE  IInv'
<1> USE PoolAssumption DEF IInv
<1>1. PICK ch \in Chans : /\ pc[ch] = "absent"
                          /\ pc' = [pc EXCEPT ![ch] = "recv"]
                          /\ Address(ch, c)
  BY DEF ServeNew
<1>2. /\ to' = ch /\ offer' = c /\ owner' = "send"
      /\ workersCount' = workersCount + 1 /\ workersCount < MaxWorkersCount
      /\ UNCHANGED <<ready, msg, cur, lastUse, started, starts>>
      /\ UNCHANGED <<cleaner, crit, tmp, mustStop, now>>
  BY <1>1 DEF ServeNew, HasRoom, Address, cleanerVars
<1>3. to = None
  BY DEF ControlPoints
<1>4. /\ ~Contains(ready, ch) /\ msg[ch] = None
      /\ \A g \in Cleaners : ~Contains(tmp[g], ch)
  BY <1>1 DEF NoWorkerStranded
<1>5. CountExact'
  BY <1>1, <1>2, CountUp DEF TypeOK
<1>6. TypeOK'
  BY <1>1, <1>2 DEF TypeOK
<1>7. NoWorkerStranded'
  BY <1>1, <1>2, <1>3, <1>4 DEF NoWorkerStranded, TypeOK
<1>8. OneSender'
  BY <1>1, <1>2, <1>3, <1>4 DEF OneSender
<1>9. NoneParkedAfterStop'
  BY <1>2 DEF NoneParkedAfterStop
<1>10. ControlPoints'
  BY <1>1, <1>2 DEF ControlPoints, TypeOK
<1>11. QED
  BY <1>5, <1>6, <1>7, <1>8, <1>9, <1>10

LEMMA SendConnStep == ASSUME IInv, SendConn PROVE IInv'
<1> USE PoolAssumption DEF IInv
<1>1. /\ owner = "send" /\ to \in Chans /\ offer \in Conns /\ offer # None
      /\ pc[to] = "recv"
  BY DEF SendConn, ControlPoints, TypeOK, NoWorkerStranded
<1>2. /\ msg' = [msg EXCEPT ![to] = offer]
      /\ owner' = "idle" /\ to' = None /\ offer' = None
      /\ UNCHANGED <<started, starts, pc, cur, lastUse, cleaner, crit, tmp>>
      /\ UNCHANGED <<ready, workersCount, mustStop, now>>
  BY DEF SendConn, Send, cleanerVars, lockVars
<1>3. CountExact'
  BY <1>2, CountSame
<1>4. TypeOK'
  BY <1>1, <1>2 DEF TypeOK
<1>5. /\ msg'[to] # None
      /\ \A ch \in Chans : ch # to => msg'[ch] = msg[ch]
      /\ \A ch \in Chans : to' # ch
  BY <1>1, <1>2, PoolAssumption DEF TypeOK
<1>6. NoWorkerStranded'
  BY <1>1, <1>2, <1>5 DEF NoWorkerStranded
<1>6a. OneSender'
  BY <1>1, <1>2, <1>5 DEF OneSender
<1>7. NoneParkedAfterStop' /\ ControlPoints'
  BY <1>2 DEF NoneParkedAfterStop, ControlPoints
<1>8. QED
  BY <1>3, <1>4, <1>6, <1>6a, <1>7

LEMMA StopStep == ASSUME IInv, Stop PROVE IInv'
<1> USE PoolAssumption DEF IInv
<1>1. ASSUME StopClose \/ StopLock \/ StopDone PROVE IInv'
  <2>1. /\ UNCHANGED <<starts, to, offer, pc, msg, cur, lastUse, cleaner, crit, tmp>>
        /\ UNCHANGED <<ready, workersCount, now>>
        /\ owner # "send" /\ owner' \in {"idle", "stop", "notify"}
        /\ started' \in BOOLEAN
        /\ mustStop' = mustStop \/ (mustStop' = TRUE /\ ready = <<>>)
    BY <1>1 DEF StopClose, StopLock, StopDone, workerVars, cleanerVars, lockVars, TypeOK
  <2>2. CountExact' /\ NoWorkerStranded' /\ OneSender'
    BY <2>1, FrameStep
  <2>3. TypeOK'
    BY <2>1 DEF TypeOK
  <2>4. NoneParkedAfterStop' /\ ControlPoints'
    BY <2>1 DEF NoneParkedAfterStop, ControlPoints
  <2>5. QED
    BY <2>2, <2>3, <2>4
<1>2. ASSUME StopSend PROVE IInv'
  <2> DEFINE ch == Head(ready)
  <2>1. ready \in Seq(Chans) /\ ready # <<>> /\ IsInjective(ready)
    BY <1>2 DEF TypeOK, OneSender, StopSend
  <2>2. /\ ready' \in Seq(Chans) /\ ch \in Chans /\ IsInjective(ready')
        /\ \A x : Contains(ready', x) <=> Contains(ready, x) /\ x # ch
        /\ Contains(ready, ch)
    BY <1>2, <2>1, ContainsTail DEF StopSend
  <2> HIDE DEF ch
  <2>3. /\ msg' = [msg EXCEPT ![ch] = Nil]
        /\ UNCHANGED <<started, starts, owner, to, offer, pc, cur, lastUse>>
        /\ UNCHANGED <<cleaner, crit, tmp, workersCount, mustStop, now>>
    BY <1>2 DEF StopSend, SendStop, Send, ownerVars, cleanerVars, ch
  <2>4. /\ msg'[ch] # None
        /\ \A x \in Chans : x # ch => msg'[x] = msg[x]
    BY <2>2, <2>3 DEF TypeOK
  <2>5. CountExact'
    BY <2>3, CountSame
  <2>6. TypeOK'
    BY <2>2, <2>3 DEF TypeOK
  <2>7. NoWorkerStranded'
    BY <2>2, <2>3, <2>4 DEF NoWorkerStranded
  <2>8. OneSender'
    BY <2>2, <2>3, <2>4 DEF OneSender
  <2>9. NoneParkedAfterStop' /\ ControlPoints'
    BY <2>1, <2>3 DEF NoneParkedAfterStop, ControlPoints
  <2>10. QED
    BY <2>5, <2>6, <2>7, <2>8, <2>9
<1>3. QED
  BY <1>1, <1>2 DEF Stop

LEMMA ReceiveStep == ASSUME IInv, NEW ch \in Chans, Receive(ch) PROVE IInv'
<1> USE PoolAssumption DEF IInv
<1>1. /\ pc[ch] = "recv" /\ msg[ch] # None
      /\ msg' = [msg EXCEPT ![ch] = None]
      /\ UNCHANGED <<lastUse, started, starts, owner, to, offer, cleaner, crit, tmp>>
      /\ UNCHANGED <<ready, workersCount, mustStop, now>>
  BY DEF Receive, ownerVars, cleanerVars, lockVars
<1>2. \/ msg[ch] = Nil /\ pc' = [pc EXCEPT ![ch] = "exit"] /\ cur' = cur
      \/ /\ msg[ch] \in Conns /\ pc' = [pc EXCEPT ![ch] = "serve"]
         /\ cur' = [cur EXCEPT ![ch] = msg[ch]]
  BY <1>1 DEF Receive, StopSign, TypeOK
<1>3. pc \in [Chans -> {"absent", "recv", "serve", "release", "exit"}]
  BY DEF TypeOK
<1>4. /\ pc'[ch] \in {"serve", "exit"}
      /\ \A x \in Chans : x # ch => pc'[x] = pc[x]
      /\ msg'[ch] = None
      /\ \A x \in Chans : x # ch => msg'[x] = msg[x]
  BY <1>1, <1>2, <1>3 DEF TypeOK
<1>5. /\ ~Contains(ready, ch) /\ to # ch
      /\ \A g \in Cleaners : ~Contains(tmp[g], ch)
  BY <1>1 DEF OneSender
<1>6. CountExact'
  BY <1>1, <1>4, CountSame
<1>7. TypeOK'
  BY <1>1, <1>2 DEF TypeOK
<1>8. NoWorkerStranded'
  BY <1>1, <1>4, <1>5 DEF NoWorkerStranded
<1>9. OneSender'
  BY <1>1, <1>4, <1>5 DEF OneSender
<1>10. NoneParkedAfterStop'
  BY <1>1 DEF NoneParkedAfterStop
<1>11. ControlPoints'
  <2>1. \A x \in Chans : pc'[x] = "serve" <=> cur'[x] # None
    BY <1>1, <1>2, <1>3 DEF ControlPoints, TypeOK
  <2>2. QED
    BY <1>1, <2>1 DEF ControlPoints
<1>12. QED
  BY <1>6, <1>7, <1>8, <1>9, <1>10, <1>11

LEMMA FinishStep == ASSUME IInv, NEW ch \in Chans, Finish(ch) PROVE IInv'
<1> USE PoolAssumption DEF IInv
<1>1. /\ pc[ch] = "serve" /\ pc' = [pc EXCEPT ![ch] = "release"]
      /\ cur' = [cur EXCEPT ![ch] = None]
      /\ lastUse' = [lastUse EXCEPT ![ch] = now]
      /\ UNCHANGED <<msg, started, starts, owner, to, offer, cleaner, crit, tmp>>
      /\ UNCHANGED <<ready, workersCount, mustStop, now>>
  BY DEF Finish, ownerVars, cleanerVars, lockVars
<1>2. /\ pc'[ch] = "release"
      /\ \A x \in Chans : x # ch => pc'[x] = pc[x]
  BY <1>1 DEF TypeOK
<1>3. CountExact'
  BY <1>1, <1>2, CountSame
<1>4. TypeOK'
  BY <1>1 DEF TypeOK
<1>5. NoWorkerStranded' /\ OneSender'
  BY <1>1, <1>2 DEF NoWorkerStranded, OneSender
<1>6. NoneParkedAfterStop'
  BY <1>1 DEF NoneParkedAfterStop
<1>7. ControlPoints'
  BY <1>1, <1>2 DEF ControlPoints, TypeOK
<1>8. QED
  BY <1>3, <1>4, <1>5, <1>6, <1>7

LEMMA ReleaseStep == ASSUME IInv, NEW ch \in Chans, Release(ch) PROVE IInv'
<1> USE PoolAssumption DEF IInv
<1>1. /\ pc[ch] = "release"
      /\ UNCHANGED <<msg, cur, lastUse, started, starts, owner, to, offer>>
      /\ UNCHANGED <<cleaner, crit, tmp, workersCount, mustStop, now>>
  BY DEF Release, ownerVars, cleanerVars
<1>2. /\ ~Contains(ready, ch) /\ to # ch /\ msg[ch] = None
      /\ \A g \in Cleaners : ~Contains(tmp[g], ch)
  BY <1>1 DEF NoWorkerStranded
<1>3. ASSUME mustStop, pc' = [pc EXCEPT ![ch] = "exit"], ready' = ready
      PROVE  IInv'
  <2>1. /\ pc'[ch] = "exit"
        /\ \A x \in Chans : x # ch => pc'[x] = pc[x]
    BY <1>3 DEF TypeOK
  <2>2. CountExact'
    BY <1>1, <2>1, CountSame
  <2>3. TypeOK'
    BY <1>1, <1>3 DEF TypeOK
  <2>4. NoWorkerStranded' /\ OneSender'
    BY <1>1, <1>2, <1>3, <2>1 DEF NoWorkerStranded, OneSender
  <2>5. NoneParkedAfterStop' /\ ControlPoints'
    BY <1>1, <1>3, <2>1 DEF NoneParkedAfterStop, ControlPoints
  <2>6. QED
    BY <2>2, <2>3, <2>4, <2>5
<1>4. ASSUME ~mustStop, Park(ch)
      PROVE  IInv'
  <2>1. /\ pc'[ch] = "recv"
        /\ \A x \in Chans : x # ch => pc'[x] = pc[x]
        /\ pc' \in [Chans -> {"absent", "recv", "serve", "release", "exit"}]
    BY <1>4 DEF Park, TypeOK
  <2>2. /\ ready' \in Seq(Chans) /\ IsInjective(ready')
        /\ \A x : Contains(ready', x) <=> Contains(ready, x) \/ x = ch
    BY <1>2, <1>4, ContainsAppend DEF Park, OneSender, TypeOK
  <2>3. CountExact'
    BY <1>1, <2>1, CountSame
  <2>4. TypeOK'
    BY <1>1, <2>1, <2>2 DEF TypeOK
  <2>5. NoWorkerStranded'
    BY <1>1, <1>2, <2>1, <2>2 DEF NoWorkerStranded
  <2>6. OneSender'
    BY <1>1, <1>2, <2>1, <2>2 DEF OneSender
  <2>7. NoneParkedAfterStop' /\ ControlPoints'
    BY <1>1, <1>4, <2>1 DEF NoneParkedAfterStop, ControlPoints
  <2>8. QED
    BY <2>3, <2>4, <2>5, <2>6, <2>7
<1>5. QED
  BY <1>3, <1>4 DEF Release, MustRetire

LEMMA ExitStep == ASSUME IInv, NEW ch \in Chans, Exit(ch) PROVE IInv'
<1> USE PoolAssumption DEF IInv
<1>1. /\ pc[ch] = "exit" /\ pc' = [pc EXCEPT ![ch] = "absent"]
      /\ workersCount' = workersCount - 1
      /\ UNCHANGED <<msg, cur, lastUse, started, starts, owner, to, offer>>
      /\ UNCHANGED <<cleaner, crit, tmp, ready, mustStop, now>>
  BY DEF Exit, DropCount, ownerVars, cleanerVars
<1>2. /\ pc'[ch] = "absent"
      /\ \A x \in Chans : x # ch => pc'[x] = pc[x]
  BY <1>1 DEF TypeOK
<1>3. CountExact' /\ workersCount \in Nat \ {0}
  BY <1>1, CountDown DEF TypeOK
<1>4. TypeOK'
  BY <1>1, <1>3 DEF TypeOK
<1>5. NoWorkerStranded' /\ OneSender'
  BY <1>1, <1>2 DEF NoWorkerStranded, OneSender
<1>6. NoneParkedAfterStop' /\ ControlPoints'
  BY <1>1, <1>2 DEF NoneParkedAfterStop, ControlPoints
<1>7. QED
  BY <1>3, <1>4, <1>5, <1>6

LEMMA CleanerStep == ASSUME IInv, NEW g \in Cleaners, Cleaner(g) PROVE IInv'
<1> USE PoolAssumption DEF IInv
<1>1. ASSUME Wake(g) \/ Check(g) PROVE IInv'
  <2>1. /\ UNCHANGED <<started, starts, owner, to, offer, pc, msg, cur, lastUse, tmp>>
        /\ UNCHANGED <<ready, workersCount, mustStop, now>>
        /\ crit' = crit \/ crit' = [crit EXCEPT ![g] = now - MaxIdle]
    BY <1>1 DEF Wake, Check, ownerVars, workerVars, lockVars
  <2>2. /\ cleaner' \in [Cleaners -> {"off", "sleep", "clean", "notify", "done"}]
        /\ \A h \in Cleaners \ {g} : cleaner'[h] = cleaner[h]
        /\ cleaner[g] # "off" /\ (cleaner[g] = "notify" => tmp[g] = <<>>)
    BY <1>1 DEF Wake, Check, TypeOK
  <2>3. CountExact' /\ NoWorkerStranded' /\ OneSender'
    BY <2>1, FrameStep
  <2>4. crit' \in [Cleaners -> Int]
    BY <2>1 DEF TypeOK, Time
  <2>5. TypeOK'
    BY <2>1, <2>2, <2>4 DEF TypeOK
  <2>6. NoneParkedAfterStop' /\ ControlPoints'
    BY <2>1, <2>2 DEF NoneParkedAfterStop, ControlPoints
  <2>7. QED
    BY <2>3, <2>5, <2>6
<1>2. ASSUME Clean(g) PROVE IInv'
  <2>1. PICK k \in 0..Len(ready) : Take(g, k)
    BY <1>2 DEF Clean
  <2> DEFINE a == SubSeq(ready, 1, k)
             b == SubSeq(ready, k + 1, Len(ready))
  <2>2. /\ tmp' = [tmp EXCEPT ![g] = a] /\ ready' = b
        /\ cleaner[g] = "clean" /\ cleaner' = [cleaner EXCEPT ![g] = "notify"]
        /\ UNCHANGED <<started, starts, owner, to, offer, pc, msg, cur, lastUse>>
        /\ UNCHANGED <<crit, workersCount, mustStop, now>>
    BY <1>2, <2>1 DEF Clean, Take, ownerVars, workerVars
  <2>3. ready \in Seq(Chans) /\ IsInjective(ready)
    BY DEF TypeOK, OneSender
  <2>4. /\ a \in Seq(Chans) /\ b \in Seq(Chans)
        /\ IsInjective(a) /\ IsInjective(b)
        /\ \A x : Contains(ready, x) <=> Contains(a, x) \/ Contains(b, x)
        /\ \A x : ~(Contains(a, x) /\ Contains(b, x))
    BY <2>3, ContainsSplit
  <2> HIDE DEF a, b
  <2>5. tmp[g] = <<>>
    BY <2>2 DEF ControlPoints
  <2>6. \A x : ~Contains(tmp[g], x)
    BY <2>5, EmptySeq DEF Contains
  <2>7. /\ tmp'[g] = a
        /\ \A h \in Cleaners : h # g => tmp'[h] = tmp[h]
    BY <2>2 DEF TypeOK
  <2>8. CountExact'
    BY <2>2, CountSame
  <2>9. TypeOK'
    BY <2>2, <2>4 DEF TypeOK
  <2>10. NoWorkerStranded'
    BY <2>2, <2>4, <2>6, <2>7 DEF NoWorkerStranded
  <2>11. OneSender'
    BY <2>2, <2>4, <2>7 DEF OneSender
  <2>12. mustStop => b = <<>>
    <3>1. ready = <<>> => Len(ready) = 0
      BY EmptySeq
    <3>2. ready = <<>> => b = <<>>
      BY <3>1, SubSeqEmpty DEF b
    <3>3. QED
      BY <3>2 DEF NoneParkedAfterStop
  <2>13. NoneParkedAfterStop'
    BY <2>2, <2>12 DEF NoneParkedAfterStop
  <2>14. ControlPoints'
    BY <2>2, <2>7 DEF ControlPoints, TypeOK
  <2>15. QED
    BY <2>8, <2>9, <2>10, <2>11, <2>13, <2>14
<1>3. ASSUME Notify(g) PROVE IInv'
  <2> DEFINE ch == Head(tmp[g])
  <2>1. tmp[g] \in Seq(Chans) /\ tmp[g] # <<>> /\ IsInjective(tmp[g])
    BY <1>3 DEF TypeOK, OneSender, Notify
  <2>2. /\ Tail(tmp[g]) \in Seq(Chans) /\ ch \in Chans /\ IsInjective(Tail(tmp[g]))
        /\ \A x : Contains(Tail(tmp[g]), x) <=> Contains(tmp[g], x) /\ x # ch
        /\ Contains(tmp[g], ch)
    BY <2>1, ContainsTail
  <2> HIDE DEF ch
  <2>3. /\ msg' = [msg EXCEPT ![ch] = Nil]
        /\ tmp' = [tmp EXCEPT ![g] = Tail(tmp[g])]
        /\ UNCHANGED <<started, starts, owner, to, offer, pc, cur, lastUse>>
        /\ UNCHANGED <<cleaner, crit, ready, workersCount, mustStop, now>>
    BY <1>3 DEF Notify, SendStop, Send, ownerVars, lockVars, ch
  <2>4. /\ msg'[ch] # None
        /\ \A x \in Chans : x # ch => msg'[x] = msg[x]
        /\ tmp'[g] = Tail(tmp[g])
        /\ \A h \in Cleaners : h # g => tmp'[h] = tmp[h]
    BY <2>2, <2>3 DEF TypeOK
  <2>5. CountExact'
    BY <2>3, CountSame
  <2>6. TypeOK'
    BY <2>2, <2>3 DEF TypeOK
  <2>7. NoWorkerStranded'
    BY <2>2, <2>3, <2>4 DEF NoWorkerStranded
  <2>8. OneSender'
    BY <2>2, <2>3, <2>4 DEF OneSender
  <2>9. NoneParkedAfterStop' /\ ControlPoints'
    BY <2>1, <2>3, <2>4 DEF NoneParkedAfterStop, ControlPoints
  <2>10. QED
    BY <2>5, <2>6, <2>7, <2>8, <2>9
<1>4. QED
  BY <1>1, <1>2, <1>3 DEF Cleaner

LEMMA NextStep == IInv /\ [Next]_vars => IInv'
<1> SUFFICES ASSUME IInv, [Next]_vars PROVE IInv'
  OBVIOUS
<1>1. ASSUME NEW c \in Conns, Serve(c) PROVE IInv'
  BY <1>1, ServeReadyStep, ServeNewStep DEF Serve
<1>2. ASSUME NEW ch \in Chans, Worker(ch) PROVE IInv'
  BY <1>2, ReceiveStep, FinishStep, ReleaseStep, ExitStep DEF Worker
<1>3. ASSUME Tick \/ UNCHANGED vars PROVE IInv'
  <2>1. UNCHANGED <<started, starts, owner, to, offer, pc, msg, cur, lastUse,
                    cleaner, crit, tmp, ready, workersCount, mustStop>>
    BY <1>3 DEF Tick, vars, ownerVars, workerVars, cleanerVars, lockVars
  <2>2. now' \in Time
    BY <1>3, PoolAssumption DEF Tick, vars, IInv, TypeOK, Time
  <2>3. CountExact' /\ NoWorkerStranded' /\ OneSender'
    BY <2>1, FrameStep DEF IInv
  <2>4. TypeOK'
    BY <2>1, <2>2 DEF TypeOK, IInv
  <2>5. NoneParkedAfterStop' /\ ControlPoints'
    BY <2>1 DEF NoneParkedAfterStop, ControlPoints, IInv
  <2>6. QED
    BY <2>3, <2>4, <2>5 DEF IInv
<1>4. ASSUME Halted PROVE IInv'
  BY <1>3, <1>4 DEF Halted
<1>5. QED
  BY <1>1, <1>2, <1>3, <1>4, StartStep, SendConnStep, StopStep, CleanerStep DEF Next

-----------------------------------------------------------------------------
(* The binary search of clean. *)

LEMMA LeastNatural ==
  ASSUME NEW T, T \subseteq Nat, T # {}
  PROVE  \E m \in T : \A n \in T : m <= n
<1> DEFINE R == {p \in Nat \X Nat : p[1] < p[2]}
<1>1. IsWellFoundedOn(R, Nat)
  BY NatLessThanWellFounded DEF OpToRel
<1> HIDE DEF R
<1>2. PICK m \in T : \A n \in T : ~(<<n, m>> \in R)
  BY <1>1, WFMin
<1>3. ASSUME NEW n \in T PROVE m <= n
  <2>1. m \in Nat /\ n \in Nat /\ <<n, m>> \notin R
    BY <1>2
  <2>2. n < m => <<n, m>> \in R
    BY <2>1 DEF R
  <2>3. QED
    BY <2>1, <2>2
<1>4. QED
  BY <1>2, <1>3

\* Where the search may be between, in a stack of n workers.
Ranges(n) == (0..n) \X (-1..n - 1)

\* One step of the search, with f for the steps that follow.
Narrow(f, s, time, at) ==
  LET l   == at[1]
      r   == at[2]
      mid == (l + r) \div 2
  IN  IF l > r
      THEN r + 1
      ELSE IF Before(s[mid + 1], time) THEN f[<<mid + 1, r>>] ELSE f[<<l, mid - 1>>]

Searches(f, s, time) == f = [at \in Ranges(Len(s)) |-> Narrow(f, s, time, at)]

\* What it finds between l and r when the first k workers have expired.
Within(l, r, k) ==
  IF l > r THEN r + 1 ELSE IF k < l THEN l ELSE IF k > r + 1 THEN r + 1 ELSE k

\* s is sorted: the workers that have expired are the first k.
Splits(s, n, time, k) ==
  /\ n \in Nat /\ Len(s) = n /\ k \in 0..n
  /\ \A i \in 1..n : Before(s[i], time) <=> i <= k

LEMMA ExpiredForm ==
  ASSUME NEW s, NEW time
  PROVE  Expired(s, time) = (CHOOSE f : Searches(f, s, time))[<<0, Len(s) - 1>>]
BY DEF Expired, Searches, Narrow, Ranges

LEMMA Halves ==
  ASSUME NEW l \in Int, NEW r \in Int, l <= r
  PROVE  (l + r) \div 2 \in l..r
OBVIOUS

LEMMA WithinHalves ==
  ASSUME NEW l \in Int, NEW r \in Int, NEW k \in Int, NEW mid \in l..r
  PROVE  /\ mid + 1 <= k => Within(mid + 1, r, k) = Within(l, r, k)
         /\ ~(mid + 1 <= k) => Within(l, mid - 1, k) = Within(l, r, k)
BY DEF Within

\* One step goes on in a half of the range, and to the same end.
Halved(f, s, n, time, k, l, r) ==
  \E mid \in l..r :
    /\ mid + 1 \in 0..n /\ mid - 1 \in -1..n - 1
    /\ \/ /\ Narrow(f, s, time, <<l, r>>) = f[<<mid + 1, r>>]
          /\ Within(mid + 1, r, k) = Within(l, r, k)
       \/ /\ Narrow(f, s, time, <<l, r>>) = f[<<l, mid - 1>>]
          /\ Within(l, mid - 1, k) = Within(l, r, k)

LEMMA NarrowStep ==
  ASSUME NEW f, NEW s, NEW n, NEW time, NEW k, Splits(s, n, time, k),
         NEW l \in 0..n, NEW r \in -1..n - 1, l <= r
  PROVE  Halved(f, s, n, time, k, l, r)
<1>0. n \in Nat /\ k \in 0..n
  BY DEF Splits
<1>1. PICK mid \in l..r : mid = (l + r) \div 2
  BY <1>0, Halves
<1>2. mid + 1 \in 0..n /\ mid - 1 \in -1..n - 1 /\ mid + 1 \in 1..n
  BY <1>0
<1>3. Before(s[mid + 1], time) <=> mid + 1 <= k
  BY <1>2 DEF Splits
<1>4. ~(l > r)
  BY <1>0
<1>5. Narrow(f, s, time, <<l, r>>) =
        IF Before(s[mid + 1], time) THEN f[<<mid + 1, r>>] ELSE f[<<l, mid - 1>>]
  BY <1>1, <1>4 DEF Narrow
<1>6. /\ mid + 1 <= k => Within(mid + 1, r, k) = Within(l, r, k)
      /\ ~(mid + 1 <= k) => Within(l, mid - 1, k) = Within(l, r, k)
  <2>1. l \in Int /\ r \in Int /\ k \in Int
    BY <1>0
  <2>2. QED
    BY <2>1, WithinHalves
<1>7. QED
  BY <1>2, <1>3, <1>5, <1>6 DEF Halved

LEMMA NarrowEnd ==
  ASSUME NEW f, NEW s, NEW time, NEW l, NEW r, l > r
  PROVE  Narrow(f, s, time, <<l, r>>) = r + 1
BY DEF Narrow

\* The search is defined: a function satisfies its recursive definition ...
LEMMA SearchExists ==
  ASSUME NEW s, NEW n, NEW time, NEW k, Splits(s, n, time, k)
  PROVE  \E f : Searches(f, s, time)
<1>0. n \in Nat /\ k \in 0..n /\ Len(s) = n
  BY DEF Splits
<1>1. PICK f : f = [at \in Ranges(n) |-> Within(at[1], at[2], k)]
  OBVIOUS
<1>2. \A l \in 0..n, r \in -1..n - 1 : f[<<l, r>>] = Within(l, r, k)
  <2> SUFFICES ASSUME NEW l \in 0..n, NEW r \in -1..n - 1 PROVE f[<<l, r>>] = Within(l, r, k)
    OBVIOUS
  <2>1. <<l, r>> \in Ranges(n)
    BY DEF Ranges
  <2>2. QED
    BY <1>1, <2>1
<1>3. ASSUME NEW l \in 0..n, NEW r \in -1..n - 1
      PROVE  Within(l, r, k) = Narrow(f, s, time, <<l, r>>)
  <2>1. CASE l > r
    BY <2>1, NarrowEnd DEF Within
  <2>2. CASE l <= r
    <3>1. Halved(f, s, n, time, k, l, r)
      BY <2>2, NarrowStep
    <3>2. QED
      BY <1>2, <3>1 DEF Halved
  <2>3. QED
    BY <1>0, <2>1, <2>2
<1>4. ASSUME NEW at \in Ranges(n)
      PROVE  Within(at[1], at[2], k) = Narrow(f, s, time, at)
  <2>1. PICK l \in 0..n, r \in -1..n - 1 : at = <<l, r>>
    BY DEF Ranges
  <2>2. QED
    BY <1>3, <2>1
<1>5. f = [at \in Ranges(n) |-> Narrow(f, s, time, at)]
  BY <1>1, <1>4, Zenon
<1>6. QED
  BY <1>0, <1>5 DEF Searches

\* ... and every function that does finds the k workers: the shortest range where one
\* would not does not exist.
LEMMA SearchFinds ==
  ASSUME NEW s, NEW n, NEW time, NEW k, Splits(s, n, time, k), NEW f, Searches(f, s, time)
  PROVE  f[<<0, n - 1>>] = k
<1>0. n \in Nat /\ k \in 0..n /\ Len(s) = n
  BY DEF Splits
<1>1. \A l \in 0..n, r \in -1..n - 1 : f[<<l, r>>] = Narrow(f, s, time, <<l, r>>)
  <2> SUFFICES ASSUME NEW l \in 0..n, NEW r \in -1..n - 1
               PROVE  f[<<l, r>>] = Narrow(f, s, time, <<l, r>>)
    OBVIOUS
  <2>1. <<l, r>> \in Ranges(Len(s))
    BY <1>0 DEF Ranges
  <2>2. QED
    BY <2>1 DEF Searches
<1>2. PICK T : T = {d \in Nat : \E l \in 0..n, r \in -1..n - 1 :
                      d = r - l + 2 /\ f[<<l, r>>] # Within(l, r, k)}
  OBVIOUS
<1>3. ASSUME T # {} PROVE FALSE
  <2>1. PICK m \in T : \A d \in T : m <= d
    BY <1>2, <1>3, LeastNatural
  <2>2. PICK l \in 0..n, r \in -1..n - 1 : m = r - l + 2 /\ f[<<l, r>>] # Within(l, r, k)
    BY <1>2
  <2>3. l <= r
    <3>1. ASSUME l > r PROVE FALSE
      BY <1>1, <2>2, <3>1, NarrowEnd DEF Within
    <3>2. QED
      BY <1>0, <3>1
  <2>4. Halved(f, s, n, time, k, l, r)
    BY <2>3, NarrowStep
  <2>5. PICK mid \in l..r :
          /\ mid + 1 \in 0..n /\ mid - 1 \in -1..n - 1
          /\ \/ /\ Narrow(f, s, time, <<l, r>>) = f[<<mid + 1, r>>]
                /\ Within(mid + 1, r, k) = Within(l, r, k)
             \/ /\ Narrow(f, s, time, <<l, r>>) = f[<<l, mid - 1>>]
                /\ Within(l, mid - 1, k) = Within(l, r, k)
    BY <2>4 DEF Halved
  <2>6. f[<<mid + 1, r>>] = Within(mid + 1, r, k)
    <3>1. SUFFICES ASSUME f[<<mid + 1, r>>] # Within(mid + 1, r, k) PROVE FALSE
      OBVIOUS
    <3>2. PICK d \in Nat : d = r - (mid + 1) + 2 /\ ~(m <= d)
      BY <2>2
    <3>3. d \in T
      BY <1>2, <2>5, <3>1, <3>2
    <3>4. QED
      BY <2>1, <3>2, <3>3
  <2>7. f[<<l, mid - 1>>] = Within(l, mid - 1, k)
    <3>1. SUFFICES ASSUME f[<<l, mid - 1>>] # Within(l, mid - 1, k) PROVE FALSE
      OBVIOUS
    <3>2. PICK d \in Nat : d = (mid - 1) - l + 2 /\ ~(m <= d)
      BY <2>2
    <3>3. d \in T
      BY <1>2, <2>5, <3>1, <3>2
    <3>4. QED
      BY <2>1, <3>2, <3>3
  <2>8. QED
    BY <1>1, <2>2, <2>5, <2>6, <2>7
<1>4. 0 \in 0..n /\ n - 1 \in -1..n - 1 /\ (n - 1) - 0 + 2 \in Nat
  BY <1>0
<1>5. f[<<0, n - 1>>] = Within(0, n - 1, k)
  BY <1>2, <1>3, <1>4
<1>6. QED
  BY <1>0, <1>5 DEF Within

\* A sorted stack splits.
LEMMA SortedSplits ==
  ASSUME TypeOK, NEW time \in Time,
         \A i, j \in 1..Len(ready) : i < j => lastUse[ready[i]] <= lastUse[ready[j]]
  PROVE  \E k \in 0..Len(ready) : Splits(ready, Len(ready), time, k)
<1>1. PICK n \in Nat : n = Len(ready)
  BY LenProperties DEF TypeOK
<1>2. \A i \in 1..n : lastUse[ready[i]] \in Int
  <2>1. \A i \in 1..n : ready[i] \in Chans
    BY <1>1, ElementOfSeq DEF TypeOK
  <2>2. QED
    BY <2>1 DEF TypeOK, Time
<1>3. time \in Int
  BY DEF Time
<1>4. PICK T : T = {i \in 1..n : ~Before(ready[i], time)}
  OBVIOUS
<1>5. CASE T = {}
  <2>1. \A i \in 1..n : Before(ready[i], time) /\ i <= n
    BY <1>4, <1>5
  <2>2. n \in 0..n
    OBVIOUS
  <2>3. QED
    BY <1>1, <2>1, <2>2 DEF Splits
<1>6. CASE T # {}
  <2>1. T \subseteq Nat
    BY <1>4
  <2>2. PICK m \in T : \A i \in T : m <= i
    BY <1>6, <2>1, LeastNatural
  <2>3. PICK k \in 0..n : k = m - 1 /\ m \in 1..n
    BY <1>4
  <2>4. ASSUME NEW i \in 1..n PROVE Before(ready[i], time) <=> i <= k
    <3>1. CASE i < m
      <4>1. i \notin T /\ i <= k
        BY <2>2, <2>3, <3>1
      <4>2. QED
        BY <1>4, <4>1
    <3>2. CASE i >= m
      <4>1. lastUse[ready[m]] <= lastUse[ready[i]]
        <5>1. CASE i = m
          BY <1>2, <5>1
        <5>2. CASE i # m
          BY <1>1, <2>3, <3>2, <5>2
        <5>3. QED
          BY <5>1, <5>2
      <4>2. ~(lastUse[ready[m]] < time)
        BY <1>4 DEF Before
      <4>3. ~(lastUse[ready[i]] < time)
        BY <1>2, <1>3, <2>3, <4>1, <4>2
      <4>4. ~(i <= k)
        BY <2>3, <3>2
      <4>5. QED
        BY <4>3, <4>4 DEF Before
    <3>3. QED
      BY <2>3, <3>1, <3>2
  <2>5. QED
    BY <1>1, <2>3, <2>4 DEF Splits
<1>7. QED
  BY <1>5, <1>6

\* The search finds as many workers as have expired.
LEMMA SearchLemma ==
  ASSUME TypeOK
  PROVE  SearchExact
<1> SUFFICES ASSUME NEW time \in Time,
                    \A i, j \in 1..Len(ready) : i < j => lastUse[ready[i]] <= lastUse[ready[j]]
             PROVE  Expired(ready, time) = Cardinality({i \in 1..Len(ready) : lastUse[ready[i]] < time})
  BY DEF SearchExact
<1>1. PICK n \in Nat : n = Len(ready)
  BY LenProperties DEF TypeOK
<1>2. PICK k \in 0..n : Splits(ready, n, time, k)
  BY <1>1, SortedSplits
<1>3. PICK f : Searches(f, ready, time) /\ Expired(ready, time) = f[<<0, n - 1>>]
  <2>1. Searches(CHOOSE f : Searches(f, ready, time), ready, time)
    BY <1>2, SearchExists, Zenon
  <2>2. QED
    BY <1>1, <2>1, ExpiredForm, Zenon
<1>4. Expired(ready, time) = k
  BY <1>2, <1>3, SearchFinds
<1>5. {i \in 1..Len(ready) : lastUse[ready[i]] < time} = 1..k
  <2>1. \A i \in 1..n : lastUse[ready[i]] < time <=> i <= k
    BY <1>2 DEF Splits, Before
  <2>2. \A i : i \in 1..k <=> i \in 1..n /\ i <= k
    OBVIOUS
  <2>3. QED
    BY <1>1, <2>1, <2>2
<1>6. Cardinality(1..k) = k
  BY FS_Interval
<1>7. QED
  BY <1>4, <1>5, <1>6

-----------------------------------------------------------------------------
(* The theorems. *)

\* The invariant holds in every reachable state of every pool.
THEOREM Invariance == Spec => []IInv
<1>1. QED
  BY InitInv, NextStep, PTL DEF Spec

\* Every variable keeps its type; in particular at most MaxWorkersCount workers
\* live (getCh, workerFunc).
THEOREM TypeCorrect == Spec => []TypeOK
<1>1. IInv => TypeOK
  BY DEF IInv
<1>2. QED
  BY <1>1, Invariance, PTL

\* workersCount counts the live workers.
THEOREM CountCorrect == Spec => []CountExact
<1>1. IInv => CountExact
  BY DEF IInv
<1>2. QED
  BY <1>1, Invariance, PTL

\* No worker is leaked: one that waits on its channel has a message under way to it, or
\* somebody is bound to send it one.
THEOREM NoneStranded == Spec => []NoWorkerStranded
<1>1. IInv => NoWorkerStranded
  BY DEF IInv
<1>2. QED
  BY <1>1, Invariance, PTL

\* No worker is promised two messages.
THEOREM HandOffCorrect == Spec => []OneSender
<1>1. IInv => OneSender
  BY DEF IInv
<1>2. QED
  BY <1>1, Invariance, PTL

\* clean's binary search finds exactly the workers that have expired, in a sorted stack
\* of any length and at any time.
THEOREM SearchCorrect == Spec => []SearchExact
<1>1. IInv => SearchExact
  BY SearchLemma DEF IInv
<1>2. QED
  BY <1>1, Invariance, PTL

\* After Stop no worker parks itself.
THEOREM StopCorrect == Spec => []NoneParkedAfterStop
<1>1. IInv => NoneParkedAfterStop
  BY DEF IInv
<1>2. QED
  BY <1>1, Invariance, PTL

\* No send waits, with buffered and with unbuffered workerChans: Stop cannot
\* deadlock although it sends while it holds the lock.
THEOREM SendsDoNotBlock == Spec => []SendsNeverBlock
<1>1. ASSUME IInv PROVE SendsNeverBlock
  <2> USE <1>1 DEF IInv, CanSend
  <2>1. owner = "send" => CanSend(to)
    BY DEF ControlPoints, TypeOK, OneSender, NoWorkerStranded
  <2>2. ready # <<>> => CanSend(Head(ready))
    <3> SUFFICES ASSUME ready # <<>> PROVE CanSend(Head(ready))
      OBVIOUS
    <3>1. Head(ready) \in Chans /\ Contains(ready, Head(ready))
      BY ContainsTail DEF TypeOK, OneSender
    <3>2. QED
      BY <3>1 DEF OneSender, NoWorkerStranded
  <2>3. ASSUME NEW g \in Cleaners, tmp[g] # <<>> PROVE CanSend(Head(tmp[g]))
    <3>1. Head(tmp[g]) \in Chans /\ Contains(tmp[g], Head(tmp[g]))
      BY <2>3, ContainsTail DEF TypeOK, OneSender
    <3>2. QED
      BY <3>1 DEF OneSender, NoWorkerStranded
  <2>4. QED
    BY <2>1, <2>2, <2>3 DEF SendsNeverBlock
<1>2. QED
  BY <1>1, Invariance, PTL

-----------------------------------------------------------------------------
(* The connections the pool holds, and the dispatcher it implements. *)

\* What a step does to the connections the pool holds: Serve adds the one it
\* takes, Finish may remove the one its worker served, nothing else matters.
LEMMA HeldStep ==
  ASSUME IInv, [Next]_vars
  PROVE  \/ \E c \in Conns : c \notin Dispatched /\ Dispatched' = Dispatched \cup {c}
         \/ \E ch \in Chans : /\ pc[ch] = "serve" /\ pc'[ch] = "release"
                             /\ Dispatched' \subseteq Dispatched
                             /\ Dispatched \ Dispatched' \subseteq {cur[ch]}
         \/ Dispatched' = Dispatched
<1> USE PoolAssumption DEF IInv, Held, Dispatched
<1> DEFINE Same == Dispatched' = Dispatched
<1>1. ASSUME UNCHANGED <<offer, msg, cur>> PROVE Same
  BY <1>1
<1>2. ASSUME NEW c \in Conns, Serve(c)
      PROVE  c \notin Dispatched /\ Dispatched' = Dispatched \cup {c}
  <2>1. /\ ~Held(c) /\ offer = None /\ offer' = c /\ UNCHANGED <<msg, cur>>
    BY <1>2 DEF Serve, ServeReady, ServeNew, Address, workerVars, ControlPoints
  <2>2. QED
    BY <2>1
<1>3. ASSUME SendConn PROVE Same
  <2>1. /\ to \in Chans /\ msg[to] = None /\ offer' = None /\ cur' = cur
        /\ msg' = [msg EXCEPT ![to] = offer]
    BY <1>3 DEF SendConn, Send, CanSend, ControlPoints, TypeOK
  <2>2. /\ msg'[to] = offer
        /\ \A ch \in Chans : ch # to => msg'[ch] = msg[ch]
    BY <2>1 DEF TypeOK
  <2>3. QED
    BY <2>1, <2>2
<1>4. ASSUME NEW ch \in Chans, SendStop(ch), offer' = offer PROVE Same
  <2>1. /\ msg[ch] = None /\ msg'[ch] = Nil /\ cur' = cur
        /\ \A x \in Chans : x # ch => msg'[x] = msg[x]
    BY <1>4 DEF SendStop, Send, CanSend, TypeOK
  <2>2. QED
    BY <1>4, <2>1
<1>5. ASSUME Stop PROVE Same
  <2>1. ASSUME StopSend PROVE Same
    <3>1. Head(ready) \in Chans
      BY <2>1, ContainsTail DEF StopSend, TypeOK, OneSender
    <3>2. QED
      BY <1>4, <2>1, <3>1 DEF StopSend, ownerVars
  <2>2. QED
    BY <1>1, <1>5, <2>1 DEF Stop, StopClose, StopLock, StopDone, workerVars
<1>6. ASSUME NEW ch \in Chans, Receive(ch) PROVE Same
  <2>1. /\ cur[ch] = None /\ msg'[ch] = None /\ offer' = offer
        /\ \A x \in Chans : x # ch => msg'[x] = msg[x] /\ cur'[x] = cur[x]
        /\ \/ msg[ch] = Nil /\ cur'[ch] = None
           \/ cur'[ch] = msg[ch]
    BY <1>6 DEF Receive, StopSign, ownerVars, TypeOK, ControlPoints
  <2>2. QED
    BY <2>1
<1>7. ASSUME NEW ch \in Chans, Finish(ch)
      PROVE  /\ pc[ch] = "serve" /\ pc'[ch] = "release"
             /\ Dispatched' \subseteq Dispatched
             /\ Dispatched \ Dispatched' \subseteq {cur[ch]}
  <2>1. /\ pc[ch] = "serve" /\ pc'[ch] = "release"
    BY <1>7 DEF Finish, TypeOK
  <2>2. /\ cur'[ch] = None /\ UNCHANGED <<msg, offer>>
        /\ \A x \in Chans : x # ch => cur'[x] = cur[x]
    BY <1>7 DEF Finish, ownerVars, TypeOK
  <2>3. QED
    BY <2>1, <2>2
<1>8. ASSUME NEW ch \in Chans, Release(ch) \/ Exit(ch) PROVE Same
  BY <1>1, <1>8 DEF Release, Exit, ownerVars
<1>9. ASSUME NEW g \in Cleaners, Cleaner(g) PROVE Same
  <2>1. ASSUME Notify(g) PROVE Same
    <3>1. Head(tmp[g]) \in Chans
      BY <2>1, ContainsTail DEF Notify, TypeOK, OneSender
    <3>2. QED
      BY <1>4, <2>1, <3>1 DEF Notify, ownerVars
  <2>2. QED
    BY <1>1, <1>9, <2>1 DEF Cleaner, Wake, Clean, Check, ownerVars, workerVars
<1>10. ASSUME Start \/ Tick \/ Halted \/ UNCHANGED vars PROVE Same
  BY <1>1, <1>10 DEF Start, Tick, Halted, vars, ownerVars, workerVars
<1>11. QED
  BY <1>2, <1>3, <1>5, <1>6, <1>7, <1>8, <1>9, <1>10 DEF Next, Worker

\* A connection that Serve took leaves the pool only by being closed.
THEOREM ConnsNotDropped == Spec => NoConnDropped
<1>1. ASSUME IInv, [Next]_vars, NEW c \in Conns, Held(c), ~Held(c)'
      PROVE  \E ch \in Chans : cur[ch] = c /\ pc[ch] = "serve" /\ pc'[ch] = "release"
  <2>1. c \in Dispatched /\ c \notin Dispatched'
    BY <1>1 DEF Dispatched, Held
  <2>2. QED
    BY <1>1, <2>1, HeldStep
<1>2. IInv /\ [Next]_vars =>
        [\A c \in Conns : Held(c) /\ ~Held(c)' =>
           \E ch \in Chans : cur[ch] = c /\ pc[ch] = "serve" /\ pc'[ch] = "release"]_vars
  BY <1>1
<1>3. QED
  BY <1>2, Invariance, PTL DEF Spec, NoConnDropped

\* The pool never holds more connections than it has workers.
LEMMA HeldBound ==
  ASSUME IInv
  PROVE  IsFiniteSet(Dispatched) /\ Cardinality(Dispatched) <= workersCount
<1> USE PoolAssumption DEF IInv
<1> DEFINE holds == [ch \in Live |-> IF to = ch THEN offer
                                     ELSE IF msg[ch] # None THEN msg[ch] ELSE cur[ch]]
           Image == Range(holds)
<1>1. IsFiniteSet(Live) /\ workersCount = Cardinality(Live)
  BY FS_Subset DEF Live, CountExact
<1>2. IsFiniteSet(Image) /\ Cardinality(Image) <= Cardinality(Live)
  <2>1. holds \in Surjection(Live, Image)
    BY DEF Range, Surjection
  <2>2. QED
    BY <1>1, <2>1, FS_Surjection DEF ExistsSurjection
<1>3. Dispatched \subseteq Image
  <2> SUFFICES ASSUME NEW c \in Conns, Held(c) PROVE \E ch \in Live : holds[ch] = c
    BY DEF Dispatched, Range
  <2>1. CASE offer = c
    <3>1. to \in Live
      BY <2>1 DEF ControlPoints, TypeOK, NoWorkerStranded, Live
    <3>2. QED
      BY <2>1, <3>1
  <2>2. ASSUME NEW ch \in Chans, msg[ch] = c PROVE \E x \in Live : holds[x] = c
    <3>1. ch \in Live /\ to # ch
      BY <2>2 DEF NoWorkerStranded, OneSender, Live
    <3>2. QED
      BY <2>2, <3>1
  <2>3. ASSUME NEW ch \in Chans, cur[ch] = c PROVE \E x \in Live : holds[x] = c
    <3>1. pc[ch] = "serve"
      BY <2>3 DEF ControlPoints
    <3>2. ch \in Live /\ to # ch /\ msg[ch] = None
      BY <3>1 DEF NoWorkerStranded, Live
    <3>3. QED
      BY <2>3, <3>2
  <2>4. QED
    BY <2>1, <2>2, <2>3 DEF Held
<1>4. IsFiniteSet(Dispatched) /\ Cardinality(Dispatched) <= Cardinality(Image)
  BY <1>2, <1>3, FS_Subset
<1>5. QED
  BY <1>1, <1>2, <1>4, FS_CardinalityType

\* The pool implements the safety part of ConnDispatch: it takes a connection only
\* while it holds fewer than MaxWorkersCount, and gives it up by closing it.
THEOREM PoolImplementsDispatch == Spec => Dispatch!Safety
<1>1. Init => Dispatch!Init
  BY PoolAssumption DEF Init, Held, Dispatch!Init, Dispatched
<1>2. (IInv => Cardinality(Dispatched) <= workersCount)'
  <2>1. IInv => Cardinality(Dispatched) <= workersCount
    BY HeldBound
  <2>2. QED
    BY <2>1, PTL
<1>3. ASSUME IInv, IInv', [Next]_vars
      PROVE  [Dispatch!Next]_Dispatched
  <2>1. ASSUME NEW c \in Conns, c \notin Dispatched, Dispatched' = Dispatched \cup {c}
        PROVE  Dispatch!Take(c)
    <3>1. /\ IsFiniteSet(Dispatched) /\ Cardinality(Dispatched) \in Nat
          /\ Cardinality(Dispatched') = Cardinality(Dispatched) + 1
      BY <1>3, <2>1, HeldBound, FS_AddElement, FS_CardinalityType
    <3>2. Cardinality(Dispatched') <= workersCount' /\ workersCount' <= MaxWorkersCount
      BY <1>2, <1>3, PoolAssumption DEF IInv, TypeOK
    <3>3. workersCount' \in Nat /\ MaxWorkersCount \in Nat
      BY <1>3, PoolAssumption DEF IInv, TypeOK
    <3>4. Cardinality(Dispatched \cup {c}) <= MaxWorkersCount
      BY <2>1, <3>1, <3>2, <3>3
    <3>5. Dispatched \cup {c} \in SUBSET Conns
      BY DEF Dispatched
    <3>6. QED
      BY <2>1, <3>4, <3>5 DEF Dispatch!Take, Loads
  <2>2. ASSUME NEW x, Dispatched' \subseteq Dispatched, Dispatched \ Dispatched' \subseteq {x}
        PROVE  Dispatched' = Dispatched \/ \E c \in Conns : Dispatch!Close(c)
    <3>1. ASSUME Dispatched' # Dispatched
          PROVE  x \in Conns /\ x \in Dispatched /\ Dispatched' = Dispatched \ {x}
      <4>1. PICK d \in Dispatched : d \notin Dispatched'
        BY <2>2, <3>1
      <4>2. d = x /\ d \in Conns
        BY <2>2, <4>1 DEF Dispatched
      <4>3. QED
        BY <2>2, <4>1, <4>2
    <3>2. QED
      BY <3>1 DEF Dispatch!Close
  <2>3. QED
    BY <1>3, <2>1, <2>2, HeldStep DEF Dispatch!Next
<1>4. QED
  BY <1>1, <1>3, Invariance, PTL DEF Spec, Dispatch!Safety

=============================================================================
