--------------------------- MODULE HashcashProofs ---------------------------
(* Theorems about Hashcash, for every value of its constants: any number of  *)
(* iterations, any difficulty, window and zone, however long time passes.    *)
EXTENDS Hashcash, WellFoundedInduction, TLAPS

-----------------------------------------------------------------------------
(* Where the loop of Compute ends, without recursion: at the first counter    *)
(* that solves, or that is the last to be tested.                             *)

Solves(c) == Acceptable(digest[c], hc.bits)
Stops(c)  == Solves(c) \/ c + 1 >= MaxIterations
Stopping(c) == {d \in c..MaxCounter : Stops(d)}
Lowest(S) == CHOOSE d \in S : \A e \in S : d <= e

EndAt(d) == IF Solves(d) THEN [counter |-> d, found |-> TRUE]
                         ELSE [counter |-> d + 1, found |-> FALSE]
End(c) == EndAt(Lowest(Stopping(c)))

\* One turn of the loop, which f goes on for.
Turn(f, c) == IF Stops(c) THEN EndAt(c) ELSE f[c + 1]

\* Every set of naturals that is not empty has a least member: what stands for
\* induction here.
LEMMA LeastNatural ==
  ASSUME NEW T, T \subseteq Nat, T # {}
  PROVE  \E m \in T : \A n \in T : m <= n
<1> DEFINE R == {p \in Nat \X Nat : p[1] < p[2]}
<1>1. IsWellFoundedOn(R, Nat)
  BY NatLessThanWellFounded DEF OpToRel
<1> HIDE DEF R
<1>2. PICK m \in T : \A n \in T : ~(<<n, m>> \in R)
  BY <1>1, WFMin
<1>3. ASSUME NEW n \in T PROVE m <= n
  <2>1. m \in Nat /\ n \in Nat /\ <<n, m>> \notin R
    BY <1>2
  <2>2. n < m => <<n, m>> \in R
    BY <2>1 DEF R
  <2>3. QED
    BY <2>1, <2>2
<1>4. QED
  BY <1>2, <1>3

\* The last counter the bound allows stops the loop, so that something does.
LEMMA LowestStops ==
  ASSUME NEW c \in 1..MaxCounter
  PROVE  /\ Lowest(Stopping(c)) \in c..MaxCounter
         /\ Stops(Lowest(Stopping(c)))
         /\ \A e \in Stopping(c) : Lowest(Stopping(c)) <= e
<1>1. MaxCounter \in Stopping(c) /\ Stopping(c) \subseteq Nat
  BY HashcashAssumption DEF Stopping, Stops
<1>2. \E d \in Stopping(c) : \A e \in Stopping(c) : d <= e
  BY <1>1, LeastNatural
<1>3. /\ Lowest(Stopping(c)) \in Stopping(c)
      /\ \A e \in Stopping(c) : Lowest(Stopping(c)) <= e
  BY <1>2 DEF Lowest
<1>4. QED
  BY <1>3 DEF Stopping

\* End is what the recursion of the loop says.
LEMMA EndTurns ==
  ASSUME NEW c \in 1..MaxCounter
  PROVE  End(c) = IF Stops(c) THEN EndAt(c) ELSE End(c + 1)
<1> USE HashcashAssumption
<1>1. CASE Stops(c)
  <2>1. c \in Stopping(c)
    BY <1>1 DEF Stopping
  <2>2. Lowest(Stopping(c)) = c
    BY <2>1, LowestStops
  <2>3. QED
    BY <1>1, <2>2 DEF End
<1>2. CASE ~Stops(c)
  <2>1. Stopping(c) = Stopping(c + 1)
    <3>1. \A d \in c..MaxCounter : Stops(d) => d \in (c + 1)..MaxCounter
      BY <1>2
    <3>2. (c + 1)..MaxCounter \subseteq c..MaxCounter
      OBVIOUS
    <3>3. QED
      BY <3>1, <3>2 DEF Stopping
  <2>2. QED
    BY <1>2, <2>1 DEF End
<1>3. QED
  BY <1>1, <1>2

\* The recursion has a solution and no other, so the loop ends where End says.
LEMMA LoopEnds ==
  ASSUME NEW f, f = [c \in 1..MaxCounter |-> Turn(f, c)]
  PROVE  \A c \in 1..MaxCounter : f[c] = End(c)
<1> USE HashcashAssumption
<1> DEFINE Wrong == {n \in 0..MaxCounter - 1 : f[MaxCounter - n] # End(MaxCounter - n)}
<1>1. Wrong = {}
  <2> SUFFICES ASSUME Wrong # {} PROVE FALSE
    OBVIOUS
  <2>1. PICK n \in Wrong : \A m \in Wrong : n <= m
    <3>1. Wrong \subseteq Nat
      OBVIOUS
    <3> HIDE DEF Wrong
    <3>2. QED
      BY <3>1, LeastNatural
  <2> DEFINE c == MaxCounter - n
  <2>2. c \in 1..MaxCounter /\ f[c] # End(c)
    BY <2>1
  <2>3. f[c] = Turn(f, c)
    BY <2>2
  <2>4. ~Stops(c)
    BY <2>2, <2>3, EndTurns DEF Turn
  <2>5. c + 1 \in 1..MaxCounter /\ n - 1 \in 0..MaxCounter - 1 /\ MaxCounter - (n - 1) = c + 1
    BY <2>2, <2>4 DEF Stops
  <2>6. f[c + 1] = End(c + 1)
    BY <2>1, <2>5
  <2>7. QED
    BY <2>2, <2>3, <2>4, <2>6, EndTurns DEF Turn
<1>2. ASSUME NEW c \in 1..MaxCounter PROVE f[c] = End(c)
  <2>1. MaxCounter - c \in 0..MaxCounter - 1 /\ MaxCounter - (MaxCounter - c) = c
    OBVIOUS
  <2>2. QED
    BY <1>1, <2>1
<1>3. QED
  BY <1>2

LEMMA LoopForm ==
  ASSUME hc.counter \in 1..MaxCounter
  PROVE  Loop = End(hc.counter)
<1> DEFINE Rec(f) == f = [c \in 1..MaxCounter |-> Turn(f, c)]
<1>1. Loop = (CHOOSE f : Rec(f))[hc.counter]
  BY DEF Loop, Turn, Stops, Solves, EndAt
<1>2. \E f : Rec(f)
  <2> DEFINE g == [c \in 1..MaxCounter |-> End(c)]
  <2>1. ASSUME NEW c \in 1..MaxCounter PROVE g[c] = Turn(g, c)
    <3>1. ~Stops(c) => c + 1 \in 1..MaxCounter
      BY HashcashAssumption DEF Stops
    <3>2. QED
      BY <3>1, EndTurns DEF Turn
  <2>2. Rec(g)
    BY <2>1
  <2>3. QED
    BY <2>2
<1>3. Rec(CHOOSE f : Rec(f))
  BY <1>2
<1>4. QED
  BY <1>1, <1>3, LoopEnds

\* The loop tests each counter from the one it starts at: it finds the first that
\* solves, or leaves off one past the last that it has tested in vain.
LEMMA LoopFinds ==
  ASSUME hc.counter \in 1..MaxCounter, hc.counter < MaxCounter
  PROVE  /\ Loop.counter \in hc.counter..MaxCounter
         /\ Loop.found => Solves(Loop.counter)
         /\ \A c \in hc.counter..Loop.counter - 1 : ~Solves(c)
<1> USE HashcashAssumption
<1> DEFINE k == Lowest(Stopping(hc.counter))
<1>1. /\ k \in hc.counter..MaxCounter /\ Stops(k)
      /\ \A e \in Stopping(hc.counter) : k <= e
  BY LowestStops
<1>2. \A c \in hc.counter..k - 1 : ~Stops(c)
  BY <1>1 DEF Stopping
<1>3. Loop = EndAt(k)
  BY LoopForm DEF End
<1> HIDE DEF k
<1>4. CASE Solves(k)
  <2>1. Loop.counter = k
    BY <1>3, <1>4 DEF EndAt
  <2>2. QED
    BY <1>1, <1>2, <1>4, <2>1 DEF Stops
<1>5. CASE ~Solves(k)
  <2>1. Loop.counter = k + 1 /\ ~Loop.found
    BY <1>3, <1>5 DEF EndAt
  <2>2. k = hc.counter \/ k < MaxIterations
    BY <1>1, <1>2 DEF Stops
  <2>3. k + 1 \in hc.counter..MaxCounter
    BY <1>1, <2>2
  <2>4. \A c \in hc.counter..k : ~Solves(c)
    BY <1>1, <1>2, <1>5 DEF Stops
  <2>5. QED
    BY <1>1, <2>1, <2>3, <2>4
<1>6. QED
  BY <1>4, <1>5

-----------------------------------------------------------------------------
(* The invariant. *)

\* The window that was fixed when the process started.
WindowFixed ==
  /\ window \in [expired : Int, future : Int]
  /\ window.expired <= now - Past
  /\ Future <= window.future /\ window.future <= now + Future

\* Every counter below that of hc was tested in vain; the proof is at it.
Tested ==
  /\ hc # None => \A c \in 1..hc.counter - 1 : ~Solves(c)
  /\ proof # 0 => hc # None /\ proof = hc.counter /\ Solves(proof)

IInv == TypeOK /\ WindowFixed /\ Tested

LEMMA InitInv == Init => IInv
<1> SUFFICES ASSUME Init PROVE IInv
  OBVIOUS
<1>1. TypeOK /\ WindowFixed
  BY HashcashAssumption DEF Init, TypeOK, WindowFixed, Window, Time
<1>2. Tested
  BY DEF Init, Tested
<1>3. QED
  BY <1>1, <1>2 DEF IInv

LEMMA ComputeStep ==
  ASSUME IInv, Compute
  PROVE  IInv'
<1> USE HashcashAssumption DEF IInv
<1>1. /\ hc \in HashCash
      /\ hc.counter < MaxCounter
  BY DEF Compute, TypeOK
<1>2. /\ Loop.counter \in hc.counter..MaxCounter
      /\ Loop.found => Solves(Loop.counter)
      /\ \A c \in hc.counter..Loop.counter - 1 : ~Solves(c)
  BY <1>1, LoopFinds DEF HashCash
<1>3. /\ hc' = [hc EXCEPT !.counter = Loop.counter]
      /\ proof' = IF Loop.found THEN Loop.counter ELSE 0
      /\ UNCHANGED <<now, window, zone, digest>>
  BY DEF Compute
<1> DEFINE k == Loop.counter
<1>4. k \in 1..MaxCounter /\ hc'.counter = k /\ hc'.bits = hc.bits
  BY <1>1, <1>2, <1>3 DEF HashCash
<1>5. hc' \in HashCash /\ hc' # None
  BY <1>1, <1>3, <1>4 DEF HashCash
<1>6. TypeOK' /\ WindowFixed'
  BY <1>3, <1>4, <1>5 DEF TypeOK, WindowFixed
<1>7. \A c : Solves(c)' <=> Solves(c)
  BY <1>3, <1>4 DEF Solves, Acceptable, WantZeros
<1>8. \A c \in 1..k - 1 : ~Solves(c)
  BY <1>1, <1>2, <1>4 DEF Compute, Tested, HashCash
<1>9. Tested'
  <2>1. proof' # 0 => proof' = k /\ Solves(k)
    BY <1>2, <1>3
  <2> HIDE DEF k
  <2>2. QED
    BY <1>4, <1>5, <1>7, <1>8, <2>1 DEF Tested
<1>10. QED
  BY <1>6, <1>9

LEMMA NextInv == IInv /\ [Next]_vars => IInv'
<1> SUFFICES ASSUME IInv, [Next]_vars PROVE IInv'
  OBVIOUS
<1> USE HashcashAssumption DEF IInv
<1>1. CASE Tick \/ Restart
  <2>1. TypeOK' /\ WindowFixed'
    <3>1. CASE Tick
      BY <3>1 DEF Tick, TypeOK, WindowFixed, Time, clientVars
    <3>2. CASE Restart
      BY <3>2 DEF Restart, TypeOK, WindowFixed, Window, Time, clientVars
    <3>3. QED
      BY <1>1, <3>1, <3>2
  <2>2. Tested'
    BY <1>1 DEF Tick, Restart, Tested, Solves, Acceptable, WantZeros, clientVars
  <2>3. QED
    BY <2>1, <2>2
<1>2. ASSUME NEW bits \in BitsOffered, New(bits) PROVE IInv'
  <2>1. TypeOK' /\ WindowFixed'
    BY <1>2 DEF New, TypeOK, WindowFixed, Time, HashCash
  <2>2. Tested'
    BY <1>2 DEF New, Tested
  <2>3. QED
    BY <2>1, <2>2
<1>3. CASE UNCHANGED vars
  <2>1. TypeOK' /\ WindowFixed'
    BY <1>3 DEF vars, clientVars, TypeOK, WindowFixed
  <2>2. Tested'
    BY <1>3 DEF vars, clientVars, Tested, Solves, Acceptable, WantZeros
  <2>3. QED
    BY <2>1, <2>2
<1>4. QED
  BY <1>1, <1>2, <1>3, ComputeStep DEF Next

-----------------------------------------------------------------------------
(* The theorems. *)

\* The invariant holds in every reachable state.
THEOREM Invariance == Spec => []IInv
<1>1. QED
  BY InitInv, NextInv, PTL DEF Spec

\* Every variable keeps its type: the counter, which Compute moves, stays within its
\* bound, and the parser's window never opens later than Past before the clock.
THEOREM TypeCorrect == Spec => []TypeOK
<1>1. IInv => TypeOK
  BY DEF IInv
<1>2. QED
  BY <1>1, Invariance, PTL

\* The proof that Compute returns is the first counter that solves, of all, whatever
\* the hashes, the number of iterations, and however often it was called in vain.
THEOREM FirstCorrect == Spec => []FirstSolution
<1>1. ASSUME IInv PROVE FirstSolution
  BY <1>1 DEF IInv, Tested, FirstSolution, Solves
<1>2. QED
  BY <1>1, Invariance, PTL

\* The server accepts the client's own proof, for any difficulty, window and zone.
THEOREM OwnCorrect == Spec => []OwnProofAccepted
<1>1. ASSUME IInv PROVE OwnProofAccepted
  <2> SUFFICES ASSUME proof # 0, hc.bits >= ParserBits,
                      now - OwnHeader.date <= Past, OwnHeader.date <= Future
               PROVE  Verdict(OwnHeader) = "ok"
    BY DEF OwnProofAccepted
  <2> USE HashcashAssumption
  <2>1. /\ hc \in HashCash
        /\ proof \in 1..MaxCounter /\ Solves(proof)
    BY <1>1 DEF IInv, TypeOK, Tested
  <2>2. /\ OwnHeader.parts = 7 /\ OwnHeader.zeros = digest[proof] /\ OwnHeader.length = 12
        /\ OwnHeader.date = hc.created + zone /\ OwnHeader.valid
    BY DEF OwnHeader
  <2>3. Acceptable(OwnHeader.zeros, ParserBits)
    <3>1. digest[proof] \div 4 >= hc.bits \div 4
      BY <2>1 DEF Solves, Acceptable, WantZeros
    <3>2. hc.bits \in Nat /\ ParserBits \in Nat /\ digest[proof] \in Nat
      BY <1>1, <2>1 DEF IInv, TypeOK, HashCash
    <3>3. hc.bits \div 4 >= ParserBits \div 4
      BY <3>2
    <3>4. QED
      BY <2>2, <3>1, <3>2, <3>3 DEF Acceptable, WantZeros
  <2>4. ~DateFails(OwnHeader) /\ HashcashTime(OwnHeader) = OwnHeader.date
    BY <2>2 DEF DateFails, HashcashTime
  <2>5. ~Outside(OwnHeader.date)
    <3>1. hc.created \in Int /\ zone \in Int /\ now \in Int
      BY <1>1, <2>1 DEF IInv, TypeOK, Time, HashCash
    <3>2. QED
      BY <1>1, <2>2, <3>1 DEF IInv, WindowFixed, Outside
  <2>6. QED
    BY <2>2, <2>3, <2>4, <2>5 DEF Verdict
<1>2. QED
  BY <1>1, Invariance, PTL

\* No header is accepted from further ahead of the clock than Future, for however long
\* the process has been up.
THEOREM FutureCorrect == Spec => []NoneFromFuture
<1>1. ASSUME IInv PROVE NoneFromFuture
  <2> SUFFICES ASSUME NEW h \in Header, Verdict(h) = "ok"
               PROVE  HashcashTime(h) <= now + Future
    BY DEF NoneFromFuture
  <2> USE HashcashAssumption
  <2>1. HashcashTime(h) \in Int
    <3>1. h.date \in Nat
      BY DEF Header, Time
    <3>2. Midnight(h.date) \in Int /\ ZeroTime \in Int
      BY <3>1 DEF Midnight, ZeroTime
    <3>3. QED
      BY <3>1, <3>2 DEF HashcashTime
  <2>2. ~Outside(HashcashTime(h))
    BY DEF Verdict
  <2>3. QED
    BY <1>1, <2>1, <2>2 DEF IInv, TypeOK, WindowFixed, Outside, Time
<1>2. QED
  BY <1>1, Invariance, PTL

=============================================================================
