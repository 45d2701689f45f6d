----------------------------- MODULE NaiveProofs -----------------------------
(* Theorems about Naive, for every value of its constants: any number of     *)
(* connections, also an infinite one, any capacity and any difficulty.       *)
EXTENDS Naive, FiniteSetTheorems, TLAPS

\* The connections that hold a token of the semaphore.
Handled == {c \in Conns : pc[c] \in Handling}

\* The connection that waits for a token is the one serveServer has accepted.
Waiting == \A c \in Conns : pc[c] = "acquire" <=> accepted = c

IInv ==
  /\ TypeOK
  /\ Waiting
  /\ IsFiniteSet(Handled) /\ sem = Cardinality(Handled)

-----------------------------------------------------------------------------
\* SemExact counts what Handled holds.
LEMMA SemForm == SemExact <=> sem = Cardinality(Handled)
BY DEF SemExact, Quantify, Handled

LEMMA InitInv == Init => IInv
<1> SUFFICES ASSUME Init PROVE IInv
  OBVIOUS
<1> USE NaiveAssumption DEF Init
<1>1. TypeOK
  BY DEF TypeOK, Handling
<1>2. Handled = {}
  BY DEF Handled, Handling
<1>3. IsFiniteSet(Handled) /\ sem = Cardinality(Handled)
  BY <1>2, FS_EmptySet
<1>4. Waiting
  BY DEF Waiting
<1>5. QED
  BY <1>1, <1>3, <1>4 DEF IInv

\* A connection that goes on neither takes nor returns a token.
LEMMA HandledKept ==
  ASSUME TypeOK, NEW c \in Conns, NEW label, Goto(c, label),
         pc[c] \in Handling <=> label \in Handling
  PROVE  Handled' = Handled
BY DEF TypeOK, Goto, Handled

-----------------------------------------------------------------------------
(* One lemma for the accept loop, one for the handlers, one for the clients. *)

LEMMA AcceptLoopStep ==
  ASSUME IInv, Refill \/ Acquire \/ \E c \in Conns : Accept(c) \/ OverRate(c)
  PROVE  IInv'
<1> USE NaiveAssumption DEF IInv
<1>1. CASE Refill
  <2>1. TypeOK'
    BY <1>1 DEF Refill, TypeOK
  <2>2. Handled' = Handled /\ Waiting'
    BY <1>1 DEF Refill, Handled, Waiting
  <2>3. QED
    BY <1>1, <2>1, <2>2 DEF Refill
<1>2. ASSUME NEW c \in Conns, Accept(c) PROVE IInv'
  <2>1. TypeOK'
    BY <1>2 DEF Accept, TypeOK, Goto
  <2>2. Handled' = Handled
    BY <1>2, HandledKept DEF Accept, Handling
  <2>3. Waiting'
    BY <1>2 DEF Accept, TypeOK, Goto, Waiting
  <2>4. QED
    BY <1>2, <2>1, <2>2, <2>3 DEF Accept
<1>3. ASSUME NEW c \in Conns, OverRate(c) PROVE IInv'
  <2>1. TypeOK'
    BY <1>3 DEF OverRate, TypeOK, Goto, Tell
  <2>2. Handled' = Handled
    BY <1>3, HandledKept DEF OverRate, Handling
  <2>3. Waiting'
    BY <1>3 DEF OverRate, TypeOK, Goto, Waiting
  <2>4. QED
    BY <1>3, <2>1, <2>2, <2>3 DEF OverRate
<1>4. CASE Acquire
  <2>1. PICK c \in Conns : c = accepted /\ pc[c] = "acquire" /\ Goto(c, "challenge")
    BY <1>4 DEF Acquire, TypeOK, Waiting
  <2>2. Handled' = Handled \cup {c} /\ c \notin Handled
    BY <2>1 DEF TypeOK, Goto, Handled, Handling
  <2>3. IsFiniteSet(Handled') /\ Cardinality(Handled') = Cardinality(Handled) + 1
    BY <2>2, FS_AddElement
  <2>4. sem' = Cardinality(Handled') /\ sem' \in 0..MaxConn
    BY <1>4, <2>3 DEF Acquire, Room, TypeOK
  <2>5. TypeOK'
    BY <1>4, <2>1, <2>4 DEF Acquire, TypeOK, Goto, Handling
  <2>6. Waiting'
    BY <1>4, <2>1 DEF Acquire, TypeOK, Goto, Waiting
  <2>7. QED
    BY <2>3, <2>4, <2>5, <2>6
<1>5. QED
  BY <1>1, <1>2, <1>3, <1>4

LEMMA HandleStep ==
  ASSUME IInv, NEW c \in Conns, Handle(c)
  PROVE  IInv'
<1> USE NaiveAssumption DEF IInv
<1>1. ASSUME Challenge(c) \/ Judge(c) \/ ScanEnds(c) \/ CloseConn(c) PROVE IInv'
  <2>1. PICK label \in {"scan", "close", "release"} : Goto(c, label) /\ pc[c] \in Handling
    BY <1>1 DEF Challenge, Judge, ScanEnds, CloseConn, Handling
  <2>2. UNCHANGED <<tokens, sem, accepted, sent>>
    BY <1>1 DEF Challenge, Judge, ScanEnds, CloseConn
  <2>3. TypeOK'
    BY <1>1, <2>1, <2>2 DEF Challenge, Judge, ScanEnds, CloseConn, TypeOK, Goto, Tell, Handling
  <2>4. Handled' = Handled
    BY <2>1, HandledKept DEF Handling
  <2>5. Waiting'
    BY <2>1, <2>2 DEF TypeOK, Goto, Waiting, Handling
  <2>6. QED
    BY <2>2, <2>3, <2>4, <2>5
<1>2. ASSUME ReleaseSem(c) PROVE IInv'
  <2>1. c \in Handled /\ Handled' = Handled \ {c}
    BY <1>2 DEF ReleaseSem, TypeOK, Goto, Handled, Handling
  <2>2. /\ IsFiniteSet(Handled') /\ Cardinality(Handled') = Cardinality(Handled) - 1
        /\ Cardinality(Handled') \in Nat
    BY <2>1, FS_RemoveElement, FS_CardinalityType
  <2>3. sem' = Cardinality(Handled') /\ sem' \in 0..MaxConn
    BY <1>2, <2>2 DEF ReleaseSem, FreeToken, TypeOK
  <2>4. TypeOK'
    BY <1>2, <2>3 DEF ReleaseSem, TypeOK, Goto, Handling
  <2>5. Waiting'
    BY <1>2 DEF ReleaseSem, TypeOK, Goto, Waiting
  <2>6. QED
    BY <2>2, <2>3, <2>4, <2>5
<1>3. QED
  BY <1>1, <1>2 DEF Handle

LEMMA ClientStep ==
  ASSUME IInv, NEW c \in Conns, Solve(c) \/ Guess(c) \/ Leave(c)
  PROVE  IInv'
<1> USE NaiveAssumption DEF IInv
<1>1. UNCHANGED <<tokens, sem, accepted, pc>>
  BY DEF Solve, Guess, Send, Leave
<1>2. TypeOK'
  BY DEF Solve, Guess, Send, Leave, TypeOK
<1>3. Handled' = Handled /\ Waiting'
  BY <1>1 DEF Handled, Waiting
<1>4. QED
  BY <1>1, <1>2, <1>3

LEMMA NextInv == IInv /\ [Next]_vars => IInv'
<1> SUFFICES ASSUME IInv, [Next]_vars PROVE IInv'
  OBVIOUS
<1>1. ASSUME UNCHANGED vars PROVE IInv'
  <2>1. TypeOK' /\ Waiting' /\ Handled' = Handled
    BY <1>1 DEF vars, IInv, TypeOK, Waiting, Handled
  <2>2. QED
    BY <1>1, <2>1 DEF vars, IInv
<1>2. QED
  BY <1>1, AcceptLoopStep, HandleStep, ClientStep DEF Next

-----------------------------------------------------------------------------
\* The invariant holds in every reachable state.
THEOREM Invariance == Spec => []IInv
<1>1. QED
  BY InitInv, NextInv, PTL DEF Spec

\* Every variable keeps its type: sem never holds more than MaxConn tokens, nor is one
\* taken out that was not put in.
THEOREM TypeCorrect == Spec => []TypeOK
<1>1. IInv => TypeOK
  BY DEF IInv
<1>2. QED
  BY <1>1, Invariance, PTL

\* The semaphore holds exactly one token for each connection that is handled, so that
\* no more than MaxConn of them are.
THEOREM SemCorrect == Spec => []SemExact
<1>1. IInv => SemExact
  BY SemForm DEF IInv
<1>2. QED
  BY <1>1, Invariance, PTL

-----------------------------------------------------------------------------
(* The two sides test the byte after the zero bytes differently.              *)

\* At a difficulty of whole bytes, which 16 is, the server asks for one zero byte more
\* than the client has looked for: its mask (1 << 8) - 1 is a byte of ones, where
\* checkDifficulty returns before it looks.  What the server accepts the client
\* does too, and not the other way round (isValidProof, naive/server/server.go:157,
\* checkDifficulty, naive/client/client.go:131).
THEOREM ServerStricter ==
  ASSUME Extra = 0, {0, 1} \subseteq Bytes
  PROVE  /\ \A h \in Hash : IsValidProof(h) => CheckDifficulty(h)
         /\ \E h \in Hash : CheckDifficulty(h) /\ ~IsValidProof(h)
<1> DEFINE n == Difficulty \div 8
           h == [i \in 1..(n + 1) |-> IF i = n + 1 THEN 1 ELSE 0]
<1>1. n \in Nat
  BY NaiveAssumption
<1>2. h \in Hash /\ h[n + 1] = 1 /\ \A i \in 1..n : h[i] = 0
  BY <1>1 DEF Hash
<1>3. 1 % 2 ^ (8 - 0) # 0
  OBVIOUS
<1>4. CheckDifficulty(h) /\ ~IsValidProof(h)
  BY <1>2, <1>3 DEF CheckDifficulty, IsValidProof, ZeroBytes
<1>5. QED
  BY <1>2, <1>4 DEF CheckDifficulty, IsValidProof

\* The masks of at most seven bits leave the first bit of a byte out.
LEMMA HighBit ==
  ASSUME NEW e \in 1..7
  PROVE  0 % 2 ^ (8 - e) = 0 /\ 128 % 2 ^ (8 - e) = 0
<1> DEFINE Fits(m) == 0 % 2 ^ m = 0 /\ 128 % 2 ^ m = 0
<1>1. /\ 2 ^ 1 = 2 /\ 2 ^ 2 = 4 /\ 2 ^ 3 = 8 /\ 2 ^ 4 = 16
      /\ 2 ^ 5 = 32 /\ 2 ^ 6 = 64 /\ 2 ^ 7 = 128
  OBVIOUS
<1>2. Fits(1) /\ Fits(2) /\ Fits(3) /\ Fits(4) /\ Fits(5) /\ Fits(6) /\ Fits(7)
  BY <1>1
<1>3. \/ 8 - e = 1 \/ 8 - e = 2 \/ 8 - e = 3 \/ 8 - e = 4
      \/ 8 - e = 5 \/ 8 - e = 6 \/ 8 - e = 7
  OBVIOUS
<1>4. Fits(8 - e)
  BY <1>2, <1>3, Zenon
<1>5. QED
  BY <1>4

\* At every other difficulty it is the client that is stricter: the server masks the
\* low bits of the byte, where the leading ones count, so it takes a hash whose first
\* bit after the zero bytes is set, which has too few leading zeros for the client
\* and for the doc of isValidProof.
THEOREM ServerLaxer ==
  ASSUME Extra # 0, {0, 128} \subseteq Bytes
  PROVE  /\ \A h \in Hash : CheckDifficulty(h) => IsValidProof(h)
         /\ \E h \in Hash : IsValidProof(h) /\ ~CheckDifficulty(h)
<1> DEFINE n == Difficulty \div 8
           h == [i \in 1..(n + 1) |-> IF i = n + 1 THEN 128 ELSE 0]
<1>1. n \in Nat /\ Extra \in 1..7
  BY NaiveAssumption DEF Extra
<1>2. h \in Hash /\ h[n + 1] = 128 /\ \A i \in 1..n : h[i] = 0
  BY <1>1 DEF Hash
<1>3. 0 % 2 ^ (8 - Extra) = 0 /\ 128 % 2 ^ (8 - Extra) = 0
  BY <1>1, HighBit
<1>4. IsValidProof(h) /\ ~CheckDifficulty(h)
  <2>1. ZeroBytes(h) /\ h[Difficulty \div 8 + 1] = 128
    BY <1>2 DEF ZeroBytes
  <2>2. QED
    BY <1>3, <2>1, 128 # 0, Zenon DEF CheckDifficulty, IsValidProof
<1>5. ASSUME NEW g \in Hash, CheckDifficulty(g) PROVE IsValidProof(g)
  BY <1>1, <1>3, <1>5 DEF CheckDifficulty, IsValidProof
<1>6. QED
  BY <1>2, <1>4, <1>5

=============================================================================
