---------------------------- MODULE ServerProofs ----------------------------
(* Theorems about Server, and about Program, which runs one, for every value *)
(* of their constants.                                                       *)
EXTENDS Program, FiniteSetTheorems, TLAPS

ActiveAt  == {"accepted", "queued", "idle", "handle", "cleanup"}
InConnAt  == {"idle", "handle", "cleanup", "uncount"}
HoldingAt == InConnAt \cup {"queued", "served"}

\* The connections in serveConn, and those that the pool has taken and not closed.
InConn  == {c \in Conns : conn[c] \in InConnAt}
Holding == {c \in Conns : conn[c] \in HoldingAt}

\* TypeOK without the two counters, whose bounds follow from what they count.
Types ==
  /\ {ln, lnOpen, stop} \subseteq BOOLEAN
  /\ servePc \in {"new", "count", "accept", "accepted", "opened", "return", "returned"}
  /\ conn \in [Conns -> ActiveAt \cup {"new", "backlog", "uncount", "served", "closed"}]
  /\ shutPc \in {"idle", "begin", "wait"}
  /\ shuts \in 0..MaxShutdowns
  /\ result \in {"none", "early", "drained", "error"}

\* What the pool holds is what the connections say, and no more than it may.
PoolInv == held = Holding /\ held \in Loads

\* While Shutdown waits, and when it has seen open at zero, nothing can be accepted.
ListenerShut == shutPc = "wait" \/ result = "drained" => ~lnOpen

IInv == Types /\ PoolInv /\ CountsExact /\ ListenerShut /\ NothingInterrupted


-----------------------------------------------------------------------------
(* Counting: what moving one connection does to the sets that are counted. *)

One(condition) == IF condition THEN 1 ELSE 0

\* Serve counts itself from its first Accept until it returns.
Self == One(servePc \in {"accept", "opened", "return"})

LEMMA CountsForm ==
  CountsExact <=> /\ open = Cardinality(Active) + Self
                  /\ concurrency = Cardinality(InConn)
BY DEF CountsExact, Quantify, InConn, InConnAt, Self, One

LEMMA CountsFormNext ==
  CountsExact' <=> /\ open' = Cardinality(Active') + Self'
                   /\ concurrency' = Cardinality(InConn')
BY DEF CountsExact, Quantify, InConn, InConnAt, Self, One

LEMMA CountedFinite ==
  /\ IsFiniteSet(Active) /\ IsFiniteSet(InConn) /\ IsFiniteSet(Holding)
  /\ Cardinality(Active) \in 0..Cardinality(Conns)
  /\ Cardinality(InConn) \in Nat
  /\ Cardinality(Conns) \in Nat
<1>1. Active \in SUBSET Conns /\ InConn \in SUBSET Conns /\ Holding \in SUBSET Conns
  BY DEF Active, InConn, Holding
<1>2. /\ IsFiniteSet(Conns) /\ IsFiniteSet(Active)
      /\ IsFiniteSet(InConn) /\ IsFiniteSet(Holding)
      /\ Cardinality(Active) <= Cardinality(Conns)
  BY <1>1, FS_Subset, ServerAssumption
<1>3. Cardinality(Conns) \in Nat /\ Cardinality(Active) \in Nat /\ Cardinality(InConn) \in Nat
  BY <1>2, FS_CardinalityType
<1>4. QED
  BY <1>2, <1>3

\* One element more, or one less.
LEMMA CardinalityMoved ==
  ASSUME NEW S, IsFiniteSet(S), NEW x
  PROVE  /\ Cardinality(S \cup {x}) = Cardinality(S) + 1 - One(x \in S)
         /\ Cardinality(S \ {x}) = Cardinality(S) - One(x \in S)
<1>1. /\ Cardinality(S) \in Nat
      /\ Cardinality(S \cup {x}) = IF x \in S THEN Cardinality(S) ELSE Cardinality(S) + 1
      /\ Cardinality(S \ {x}) = IF x \in S THEN Cardinality(S) - 1 ELSE Cardinality(S)
  BY FS_CardinalityType, FS_AddElement, FS_RemoveElement
<1>2. QED
  BY <1>1 DEF One

LEMMA ConnMoved ==
  ASSUME Types, NEW c \in Conns, NEW to, conn' = [conn EXCEPT ![c] = to]
  PROVE  /\ Holding' = IF to \in HoldingAt THEN Holding \cup {c} ELSE Holding \ {c}
         /\ Cardinality(Active') =
              Cardinality(Active) + One(to \in ActiveAt) - One(conn[c] \in ActiveAt)
         /\ Cardinality(InConn') =
              Cardinality(InConn) + One(to \in InConnAt) - One(conn[c] \in InConnAt)
<1>1. conn'[c] = to /\ \A d \in Conns : d # c => conn'[d] = conn[d]
  BY DEF Types
<1>2. Holding' = IF to \in HoldingAt THEN Holding \cup {c} ELSE Holding \ {c}
  BY <1>1 DEF Holding
<1>3. Active' = IF to \in ActiveAt THEN Active \cup {c} ELSE Active \ {c}
  BY <1>1 DEF Active, ActiveAt
<1>4. InConn' = IF to \in InConnAt THEN InConn \cup {c} ELSE InConn \ {c}
  BY <1>1 DEF InConn
<1>5. /\ c \in Active <=> conn[c] \in ActiveAt
      /\ c \in InConn <=> conn[c] \in InConnAt
  BY DEF Active, ActiveAt, InConn
<1>6. /\ Cardinality(Active') = Cardinality(Active) + One(to \in ActiveAt) - One(c \in Active)
      /\ Cardinality(InConn') = Cardinality(InConn) + One(to \in InConnAt) - One(c \in InConn)
  <2>1. /\ Cardinality(Active) \in Nat /\ Cardinality(InConn) \in Nat
        /\ One(c \in Active) \in Nat /\ One(c \in InConn) \in Nat
    BY CountedFinite DEF One
  <2>2. /\ Cardinality(Active \cup {c}) = Cardinality(Active) + 1 - One(c \in Active)
        /\ Cardinality(Active \ {c}) = Cardinality(Active) - One(c \in Active)
        /\ Cardinality(InConn \cup {c}) = Cardinality(InConn) + 1 - One(c \in InConn)
        /\ Cardinality(InConn \ {c}) = Cardinality(InConn) - One(c \in InConn)
    BY CountedFinite, CardinalityMoved
  <2>3. /\ One(to \in ActiveAt) = IF to \in ActiveAt THEN 1 ELSE 0
        /\ One(to \in InConnAt) = IF to \in InConnAt THEN 1 ELSE 0
    BY DEF One
  <2>4. QED
    BY <1>3, <1>4, <2>1, <2>2, <2>3
<1>7. QED
  BY <1>2, <1>5, <1>6 DEF One

-----------------------------------------------------------------------------
(* The invariant of Server. *)

LEMMA InitInv == Init => IInv
<1> SUFFICES ASSUME Init PROVE IInv
  OBVIOUS
<1> USE ServerAssumption DEF Init
<1>1. Types
  <2>1. ln \in BOOLEAN /\ lnOpen \in BOOLEAN /\ stop \in BOOLEAN
    OBVIOUS
  <2>2. conn \in [Conns -> ActiveAt \cup {"new", "backlog", "uncount", "served", "closed"}]
    OBVIOUS
  <2>3. QED
    BY <2>1, <2>2 DEF Types
<1>2. Active = {} /\ InConn = {} /\ Holding = {} /\ Self = 0
  BY DEF Active, InConn, InConnAt, Holding, HoldingAt, Self, One
<1>3. PoolInv
  BY <1>2, FS_EmptySet DEF Pool!Init, PoolInv, Loads
<1>4. CountsExact
  BY <1>2, FS_EmptySet, CountsForm
<1>5. ListenerShut /\ NothingInterrupted
  BY DEF ListenerShut, NothingInterrupted
<1>6. QED
  BY <1>1, <1>3, <1>4, <1>5 DEF IInv

\* A step that moves one connection keeps the counts exact if it adds to each counter
\* what it changes of what that counts, Serve's own count included.
LEMMA MoveStep ==
  ASSUME IInv, NEW c \in Conns, NEW to, conn' = [conn EXCEPT ![c] = to],
         held' = IF to \in HoldingAt THEN held \cup {c} ELSE held \ {c},
         held' \in Loads,
         open' = open + One(to \in ActiveAt) - One(conn[c] \in ActiveAt) + Self' - Self,
         concurrency' = concurrency + One(to \in InConnAt) - One(conn[c] \in InConnAt)
  PROVE  PoolInv' /\ CountsExact'
<1>1. PoolInv'
  BY ConnMoved DEF IInv, PoolInv
<1>2. /\ Cardinality(Active) \in Nat /\ Cardinality(InConn) \in Nat
      /\ Self \in Nat /\ Self' \in Nat
  BY CountedFinite DEF Self, One
<1>3. open = Cardinality(Active) + Self /\ concurrency = Cardinality(InConn)
  BY CountsForm DEF IInv
<1>4. open' = Cardinality(Active') + Self' /\ concurrency' = Cardinality(InConn')
  <2>1. /\ Cardinality(Active') =
             Cardinality(Active) + One(to \in ActiveAt) - One(conn[c] \in ActiveAt)
        /\ Cardinality(InConn') =
             Cardinality(InConn) + One(to \in InConnAt) - One(conn[c] \in InConnAt)
    BY ConnMoved DEF IInv
  <2>2. /\ One(to \in ActiveAt) \in Nat /\ One(conn[c] \in ActiveAt) \in Nat
        /\ One(to \in InConnAt) \in Nat /\ One(conn[c] \in InConnAt) \in Nat
    BY DEF One
  <2>3. QED
    BY <1>2, <1>3, <2>1, <2>2
<1>5. QED
  BY <1>1, <1>4, CountsFormNext

\* The pool may hold less than it does.
LEMMA LoadsShrink ==
  ASSUME PoolInv, NEW c
  PROVE  held \ {c} \in Loads
<1>1. IsFiniteSet(held) /\ held \in SUBSET Conns /\ Cardinality(held) <= Concurrency
  BY CountedFinite DEF PoolInv, Loads
<1>2. Cardinality(held \ {c}) <= Cardinality(held) /\ IsFiniteSet(held \ {c})
  BY <1>1, FS_Subset
<1>3. QED
  BY <1>1, <1>2, FS_CardinalityType, ServerAssumption DEF Loads

\* Steps of Serve that move no connection.
LEMMA ServeAloneStep ==
  ASSUME IInv, ServeRegister \/ ServeCount \/ ServeOpen \/ AcceptFails \/ ServeReturn
  PROVE  IInv'
<1> USE DEF IInv
<1>1. UNCHANGED <<lnOpen, stop, concurrency, conn, held, shutPc, shuts, result>>
  BY DEF ServeRegister, ServeCount, ServeOpen, AcceptFails, ServeReturn, shutVars
<1>2. /\ ln' \in BOOLEAN
      /\ servePc' \in {"new", "count", "accept", "accepted", "opened", "return", "returned"}
  BY DEF ServeRegister, ServeCount, ServeOpen, AcceptFails, ServeReturn, Types
<1>3. Types' /\ ListenerShut'
  BY <1>1, <1>2 DEF Types, ListenerShut
<1>4. Active' = Active /\ InConn' = InConn /\ Holding' = Holding
  BY <1>1 DEF Active, InConn, Holding
<1>5. PoolInv' /\ NothingInterrupted'
  BY <1>1, <1>4 DEF PoolInv, Loads, NothingInterrupted
<1>6. open' = open + Self' - Self
  <2>1. open \in Int /\ Self \in Int
    BY CountsForm, CountedFinite DEF Self, One
  <2>2. QED
    BY <2>1 DEF ServeRegister, ServeCount, SelfCount, ServeOpen, AcceptFails, ServeReturn, Self, One
<1>7. CountsExact'
  <2>1. Cardinality(Active) \in Int /\ Self \in Int /\ Self' \in Int
    BY CountedFinite DEF Self, One
  <2>2. QED
    BY <1>1, <1>4, <1>6, <2>1, CountsForm, CountsFormNext
<1>8. QED
  BY <1>3, <1>5, <1>7

\* Accept is the only step that makes a connection active; it needs an open listener.
LEMMA AcceptStep ==
  ASSUME IInv, NEW c \in Conns, Accept(c)
  PROVE  IInv'
<1> USE DEF IInv
<1>1. /\ conn[c] = "backlog" /\ conn' = [conn EXCEPT ![c] = "accepted"]
      /\ servePc = "accept" /\ servePc' = "accepted" /\ lnOpen
      /\ UNCHANGED <<ln, lnOpen, open, stop, concurrency, held, shutPc, shuts, result>>
  BY DEF Accept, shutVars
<1>2. PoolInv' /\ CountsExact'
  <2>1. open \in Int /\ concurrency \in Int
    BY CountsForm, CountedFinite DEF Self, One
  <2>2. held' = IF "accepted" \in HoldingAt THEN held \cup {c} ELSE held \ {c}
    BY <1>1 DEF PoolInv, Holding, HoldingAt, InConnAt
  <2>3. /\ open' = open + One("accepted" \in ActiveAt) - One(conn[c] \in ActiveAt) + Self' - Self
        /\ concurrency' = concurrency + One("accepted" \in InConnAt) - One(conn[c] \in InConnAt)
    BY <1>1, <2>1 DEF Self, One, ActiveAt, InConnAt
  <2>4. held' \in Loads
    BY <1>1 DEF PoolInv
  <2>5. QED
    BY <1>1, <2>2, <2>3, <2>4, MoveStep
<1>3. Types' /\ ListenerShut' /\ NothingInterrupted'
  BY <1>1 DEF Types, ActiveAt, ListenerShut, NothingInterrupted
<1>4. QED
  BY <1>2, <1>3

\* A connection goes from one place to another, neither of them new to the active.
LEMMA ActiveShrinks ==
  ASSUME IInv, NEW c \in Conns, NEW to, conn' = [conn EXCEPT ![c] = to], result' = result,
         to \in ActiveAt => conn[c] \in ActiveAt
  PROVE  NothingInterrupted'
BY DEF IInv, Types, NothingInterrupted, Active, ActiveAt

LEMMA ServeDispatchStep ==
  ASSUME IInv, NEW c \in Conns, ServeDispatch(c)
  PROVE  IInv'
<1> USE DEF IInv
<1>1. /\ conn[c] = "accepted" /\ conn' = [conn EXCEPT ![c] = "queued"]
      /\ servePc = "opened" /\ servePc' = "accept"
      /\ held' = held \cup {c} /\ held' \in Loads
      /\ UNCHANGED <<ln, lnOpen, open, stop, concurrency, shutPc, shuts, result>>
  BY DEF ServeDispatch, Pool!Take, shutVars
<1>2. PoolInv' /\ CountsExact'
  <2>1. open \in Int /\ concurrency \in Int
    BY CountsForm, CountedFinite DEF Self, One
  <2>2. held' = IF "queued" \in HoldingAt THEN held \cup {c} ELSE held \ {c}
    BY <1>1 DEF HoldingAt
  <2>3. /\ open' = open + One("queued" \in ActiveAt) - One(conn[c] \in ActiveAt) + Self' - Self
        /\ concurrency' = concurrency + One("queued" \in InConnAt) - One(conn[c] \in InConnAt)
    BY <1>1, <2>1 DEF Self, One, ActiveAt, InConnAt
  <2>4. QED
    BY <1>1, <2>2, <2>3, MoveStep
<1>3. NothingInterrupted'
  BY <1>1, ActiveShrinks DEF ActiveAt
<1>4. Types' /\ ListenerShut'
  BY <1>1 DEF Types, ActiveAt, ListenerShut
<1>5. QED
  BY <1>2, <1>3, <1>4

LEMMA ServeRefuseStep ==
  ASSUME IInv, NEW c \in Conns, ServeRefuse(c)
  PROVE  IInv'
<1> USE DEF IInv
<1>1. /\ conn[c] = "accepted" /\ conn' = [conn EXCEPT ![c] = "closed"]
      /\ servePc = "opened" /\ servePc' = "accept" /\ open' = open - 1
      /\ UNCHANGED <<ln, lnOpen, stop, concurrency, held, shutPc, shuts, result>>
  BY DEF ServeRefuse, Reject, shutVars
<1>2. PoolInv' /\ CountsExact'
  <2>1. open \in Int /\ concurrency \in Int
    BY CountsForm, CountedFinite DEF Self, One
  <2>2. held' = IF "closed" \in HoldingAt THEN held \cup {c} ELSE held \ {c}
    BY <1>1 DEF PoolInv, Holding, HoldingAt, InConnAt
  <2>3. /\ open' = open + One("closed" \in ActiveAt) - One(conn[c] \in ActiveAt) + Self' - Self
        /\ concurrency' = concurrency + One("closed" \in InConnAt) - One(conn[c] \in InConnAt)
    BY <1>1, <2>1 DEF Self, One, ActiveAt, InConnAt
  <2>4. held' \in Loads
    BY <1>1 DEF PoolInv
  <2>5. QED
    BY <1>1, <2>2, <2>3, <2>4, MoveStep
<1>3. NothingInterrupted'
  BY <1>1, ActiveShrinks DEF ActiveAt
<1>4. Types' /\ ListenerShut'
  BY <1>1 DEF Types, ListenerShut
<1>5. QED
  BY <1>2, <1>3, <1>4

\* Dial, and the steps of serveConn.  CleanupOpen takes from open what CloseConn will
\* not take any more, and CleanupConcurrency likewise.
LEMMA ConnStep ==
  ASSUME IInv, NEW c \in Conns, Dial(c) \/ Request(c) \/ ReadFails(c) \/ ServeConn(c)
  PROVE  IInv'
<1> USE DEF IInv
<1>1. PICK to \in ActiveAt \cup {"backlog", "uncount", "served", "closed"} :
        /\ conn' = [conn EXCEPT ![c] = to]
        /\ to \in ActiveAt => conn[c] \in ActiveAt
        /\ held' = IF to \in HoldingAt THEN held \cup {c} ELSE held \ {c}
        /\ to \in HoldingAt => conn[c] \in HoldingAt
        /\ open' = open - One(conn[c] \in ActiveAt /\ to \notin ActiveAt)
        /\ concurrency' = concurrency + One(to \in InConnAt) - One(conn[c] \in InConnAt)
  <2> USE DEF ActiveAt, HoldingAt, InConnAt, One
  <2>1. open \in Int /\ concurrency \in Int
    BY CountsForm, CountedFinite DEF Self
  <2>2. \A at : conn[c] = at => (c \in held <=> at \in HoldingAt)
    BY DEF PoolInv, Holding
  <2>3. CASE Dial(c)
    <3>1. WITNESS "backlog" \in ActiveAt \cup {"backlog", "uncount", "served", "closed"}
    <3>2. QED
      BY <2>1, <2>2, <2>3 DEF Dial
  <2>4. CASE Request(c)
    <3>1. WITNESS "handle" \in ActiveAt \cup {"backlog", "uncount", "served", "closed"}
    <3>2. QED
      BY <2>1, <2>2, <2>4 DEF Request, Move
  <2>5. CASE ReadFails(c)
    <3>1. WITNESS "cleanup" \in ActiveAt \cup {"backlog", "uncount", "served", "closed"}
    <3>2. QED
      BY <2>1, <2>2, <2>5 DEF ReadFails, Move
  <2>6. CASE StartConn(c)
    <3>1. WITNESS "idle" \in ActiveAt \cup {"backlog", "uncount", "served", "closed"}
    <3>2. QED
      BY <2>1, <2>2, <2>6 DEF StartConn, Move
  <2>7. CASE Respond(c)
    <3> DEFINE to == IF Serving THEN "idle" ELSE "cleanup"
    <3>1. WITNESS to \in ActiveAt \cup {"backlog", "uncount", "served", "closed"}
    <3>2. QED
      BY <2>1, <2>2, <2>7 DEF Respond, Move
  <2>8. CASE WriteFails(c)
    <3>1. WITNESS "cleanup" \in ActiveAt \cup {"backlog", "uncount", "served", "closed"}
    <3>2. QED
      BY <2>1, <2>2, <2>8 DEF WriteFails, Move
  <2>9. CASE CleanupOpen(c)
    <3>1. WITNESS "uncount" \in ActiveAt \cup {"backlog", "uncount", "served", "closed"}
    <3>2. QED
      BY <2>1, <2>2, <2>9 DEF CleanupOpen, Move
  <2>10. CASE CleanupConcurrency(c)
    <3>1. WITNESS "served" \in ActiveAt \cup {"backlog", "uncount", "served", "closed"}
    <3>2. QED
      BY <2>1, <2>2, <2>10 DEF CleanupConcurrency, DropConcurrency, Move
  <2>11. CASE CloseConn(c)
    <3>1. WITNESS "closed" \in ActiveAt \cup {"backlog", "uncount", "served", "closed"}
    <3>2. QED
      BY <2>1, <2>2, <2>11 DEF CloseConn, Move, Pool!Close
  <2>12. QED
    BY <2>3, <2>4, <2>5, <2>6, <2>7, <2>8, <2>9, <2>10, <2>11 DEF ServeConn
<1>2. UNCHANGED <<ln, servePc, lnOpen, stop, shutPc, shuts, result>>
  BY DEF Dial, Request, ReadFails, ServeConn, StartConn, Respond, WriteFails, CleanupOpen,
         CleanupConcurrency, CloseConn, Move, serveVars, shutVars
<1>3. PoolInv' /\ CountsExact'
  <2>1. open \in Int /\ Self \in Int /\ Self' = Self
    BY <1>2, CountsForm, CountedFinite DEF Self, One
  <2>2. open' = open + One(to \in ActiveAt) - One(conn[c] \in ActiveAt) + Self' - Self
    BY <1>1, <2>1 DEF One
  <2>3. held' \in Loads
    <3>1. CASE to \in HoldingAt
      BY <1>1, <3>1 DEF PoolInv, Holding
    <3>2. CASE to \notin HoldingAt
      BY <1>1, <3>2, LoadsShrink
    <3>3. QED
      BY <3>1, <3>2
  <2>4. QED
    BY <1>1, <2>2, <2>3, MoveStep
<1>4. NothingInterrupted'
  BY <1>1, <1>2, ActiveShrinks
<1>5. Types' /\ ListenerShut'
  BY <1>1, <1>2 DEF Types, ListenerShut
<1>6. QED
  BY <1>3, <1>4, <1>5

\* Shutdown: what it closes has not been accepted, and when it finds open at zero
\* nothing is active, nor will be.
LEMMA ShutdownStep ==
  ASSUME IInv, Shutdown
  PROVE  IInv'
<1> USE ServerAssumption DEF IInv
<1>1. UNCHANGED <<servePc, open, concurrency, held>>
  BY DEF Shutdown, ShutBegin, ShutNoListener, ShutCloseFails, ShutClose, ShutDrained,
         ShutExpires, ShutReturn, serveVars
<1>2. /\ ln' \in BOOLEAN /\ lnOpen' \in BOOLEAN /\ stop' \in BOOLEAN
      /\ lnOpen' => lnOpen
      /\ shutPc' \in {"idle", "begin", "wait"}
      /\ shuts' \in 0..MaxShutdowns
      /\ result' \in {"none", "early", "drained", "error"}
  <2>1. ln \in BOOLEAN /\ lnOpen \in BOOLEAN /\ stop \in BOOLEAN
    BY DEF Types
  <2>2. shuts' = shuts \/ (shuts < MaxShutdowns /\ shuts' = shuts + 1)
    BY DEF Shutdown, ShutBegin, ShutNoListener, ShutCloseFails, ShutClose, ShutDrained,
           ShutExpires, ShutReturn
  <2>3. shuts' \in 0..MaxShutdowns
    BY <2>2 DEF Types
  <2>4. /\ ln' = ln \/ ln' = FALSE
        /\ lnOpen' = lnOpen \/ lnOpen' = FALSE
        /\ stop' = stop \/ stop' = TRUE \/ stop' = FALSE
    BY DEF Shutdown, ShutBegin, ShutNoListener, ShutCloseFails, ShutClose, ShutDrained,
           ShutExpires, ShutReturn, serveVars
  <2>5. /\ shutPc' \in {"idle", "begin", "wait"}
        /\ result' \in {result, "early", "drained", "error"}
    BY DEF Shutdown, ShutBegin, ShutNoListener, ShutCloseFails, ShutClose, ShutDrained,
           ShutExpires, ShutReturn
  <2>6. result' \in {"none", "early", "drained", "error"}
    BY <2>5 DEF Types
  <2>7. ln' \in BOOLEAN /\ lnOpen' \in BOOLEAN /\ stop' \in BOOLEAN /\ (lnOpen' => lnOpen)
    <3>1. ln' \in BOOLEAN
      BY <2>1, <2>4
    <3>2. lnOpen' \in BOOLEAN
      BY <2>1, <2>4
    <3>3. stop' \in BOOLEAN
      BY <2>1, <2>4
    <3>4. lnOpen' => lnOpen
      BY <2>1, <2>4
    <3>5. QED
      BY <3>1, <3>2, <3>3, <3>4
  <2>8. QED
    BY <2>3, <2>5, <2>6, <2>7
<1>3. conn' = conn \/ conn' = [c \in Conns |-> IF conn[c] = "backlog" THEN "closed" ELSE conn[c]]
  BY DEF Shutdown, ShutBegin, ShutNoListener, ShutCloseFails, ShutClose, ShutDrained,
         ShutExpires, ShutReturn, serveVars
<1>4. Types'
  <2>1. conn' \in [Conns -> ActiveAt \cup {"new", "backlog", "uncount", "served", "closed"}]
    BY <1>3 DEF Types
  <2>2. QED
    BY <1>1, <1>2, <2>1 DEF Types
<1>5. Active' = Active /\ InConn' = InConn /\ Holding' = Holding
  BY <1>3 DEF Types, Active, InConn, InConnAt, Holding, HoldingAt
<1>6. PoolInv' /\ CountsExact'
  <2>1. Self' = Self
    BY <1>1 DEF Self, One
  <2>2. QED
    BY <1>1, <1>5, <2>1, CountsForm, CountsFormNext DEF PoolInv, Loads
<1>7. ListenerShut'
  BY <1>2 DEF ListenerShut, Shutdown, ShutBegin, ShutNoListener, ShutCloseFails, ShutClose,
              ShutDrained, ShutExpires, ShutReturn
<1>8. NothingInterrupted'
  <2>1. ASSUME ShutDrained PROVE Active = {}
    <3>1. Cardinality(Active) + Self = 0 /\ Cardinality(Active) \in Nat /\ Self \in Nat
      BY <2>1, CountsForm, CountedFinite DEF ShutDrained, Drained, Self, One
    <3>2. Cardinality(Active) = 0
      BY <3>1
    <3>3. QED
      BY <3>2, CountedFinite, FS_EmptySet
  <2>2. result' = "drained" => result = "drained" \/ ShutDrained
    BY DEF Shutdown, ShutBegin, ShutNoListener, ShutCloseFails, ShutClose, ShutExpires, ShutReturn
  <2>3. QED
    BY <1>5, <2>1, <2>2 DEF NothingInterrupted
<1>9. QED
  BY <1>4, <1>6, <1>7, <1>8

LEMMA NextStep == IInv /\ [Next]_vars => IInv'
<1> SUFFICES ASSUME IInv, [Next]_vars PROVE IInv'
  OBVIOUS
<1>1. ASSUME UNCHANGED vars PROVE IInv'
  <2>1. Active' = Active /\ InConn' = InConn /\ Holding' = Holding /\ Self' = Self
    BY <1>1 DEF vars, Active, InConn, Holding, Self
  <2>2. PoolInv' /\ CountsExact'
    BY <1>1, <2>1, CountsForm, CountsFormNext DEF vars, IInv, PoolInv, Loads
  <2>3. Types' /\ ListenerShut' /\ NothingInterrupted'
    BY <1>1, <2>1 DEF vars, IInv, Types, ListenerShut, NothingInterrupted
  <2>4. QED
    BY <2>2, <2>3 DEF IInv
<1>2. QED
  BY <1>1, ServeAloneStep, AcceptStep, ServeDispatchStep, ServeRefuseStep, ConnStep, ShutdownStep
     DEF Next, ServeLoop

-----------------------------------------------------------------------------
(* The theorems about Server. *)

\* The invariant holds in every reachable state, for any number of connections.
THEOREM Invariance == Spec => []IInv
<1>1. QED
  BY InitInv, NextStep, PTL DEF Spec

\* Every variable keeps its type: open and concurrency never fall below zero, and
\* no more than Concurrency connections are in serveConn.
THEOREM TypeCorrect == Spec => []TypeOK
<1>1. ASSUME IInv PROVE TypeOK
  <2>1. open \in 0..Cardinality(Conns) + 1
    <3>1. Self \in 0..1 /\ open = Cardinality(Active) + Self
      BY <1>1, CountsForm DEF IInv, Self, One
    <3>2. QED
      BY <3>1, CountedFinite
  <2>2. concurrency \in 0..Concurrency
    <3>1. InConn \subseteq held /\ IsFiniteSet(held) /\ Cardinality(held) <= Concurrency
      BY <1>1, CountedFinite DEF IInv, PoolInv, Loads, InConn, Holding, HoldingAt
    <3>2. Cardinality(InConn) <= Cardinality(held)
      BY <3>1, FS_Subset
    <3>3. concurrency = Cardinality(InConn)
      BY <1>1, CountsForm DEF IInv
    <3>4. QED
      BY <3>1, <3>2, <3>3, CountedFinite, FS_CardinalityType, ServerAssumption
  <2>3. held \in SUBSET Conns
    BY <1>1 DEF IInv, PoolInv, Loads
  <2>4. conn \in [Conns -> {"new", "backlog", "accepted", "queued", "idle", "handle",
                            "cleanup", "uncount", "served", "closed"}]
    BY <1>1 DEF IInv, Types, ActiveAt
  <2>5. QED
    BY <1>1, <2>1, <2>2, <2>3, <2>4 DEF IInv, Types, TypeOK
<1>2. QED
  BY <1>1, Invariance, PTL

\* GetOpenConnectionsCount and GetCurrentConcurrency count what they say, in every
\* interleaving of Serve, the workers and Shutdown.
THEOREM CountsCorrect == Spec => []CountsExact
<1>1. IInv => CountsExact
  BY DEF IInv
<1>2. QED
  BY <1>1, Invariance, PTL

\* A Shutdown that returns nil after it has closed the listener leaves no accepted
\* connection half served.
THEOREM ShutdownGraceful == Spec => []NothingInterrupted
<1>1. IInv => NothingInterrupted
  BY DEF IInv
<1>2. QED
  BY <1>1, Invariance, PTL

\* Serve and its workers use the pool as ConnDispatch asks: what they do to the
\* connections it holds is what ConnDispatch allows.
THEOREM PoolUsed == Spec => Pool!Safety
<1>1. Init => Pool!Init
  BY DEF Init
<1>2. [Next]_vars => [Pool!Next]_held
  BY DEF Next, ServeLoop, ServeRegister, ServeCount, ServeOpen, ServeReturn, Accept,
         ServeDispatch, ServeRefuse, AcceptFails, Dial, Request, ReadFails, ServeConn, StartConn,
         Respond, WriteFails, CleanupOpen, CleanupConcurrency, CloseConn, Shutdown, ShutBegin,
         ShutNoListener, ShutCloseFails, ShutClose, ShutDrained, ShutExpires, ShutReturn,
         Pool!Next, vars
<1>3. QED
  BY <1>1, <1>2, PTL DEF Spec, Pool!Safety

-----------------------------------------------------------------------------
\* Where the goroutine that shuts down is, and what Shutdown has done by then.
ShutterState ==
  /\ shutter = "wait" <=> shuts = 0
  /\ shutter = "wait" => shutPc = "idle" /\ result = "none"
  /\ shutter \in {"send", "done"} => shutPc = "idle" /\ result # "none"
  /\ shutter = "call" /\ shutPc = "idle" => result # "none"

ExitState == main = "exit" => shutter = "done" /\ result \in {"early", "drained"}

ProgTypes ==
  /\ main \in {"start", "serve", "wait", "exit", "panic"}
  /\ shutter \in {"wait", "call", "send", "done"}
  /\ interrupted \in BOOLEAN

ProgInv == IInv /\ ProgTypes /\ ShutterState /\ ExitState

LEMMA ProgInitInv == ProgramInit => ProgInv
<1>1. ProgramInit => IInv
  BY InitInv DEF ProgramInit
<1>2. QED
  BY <1>1 DEF ProgramInit, Init, ProgInv, ProgTypes, ShutterState, ExitState

\* Every step of the program is a step of its Server, or none of it.
LEMMA ProgStepOfServer == [ProgramNext]_allVars => [Next]_vars
BY DEF ProgramNext, allVars, serverVars, Interrupt, Listen, CannotStart, Served, Receive, Call,
       Returned, ServerStep, Looping, Shutting, Working, Next, Shutdown

LEMMA ProgNextStep == ProgInv /\ [ProgramNext]_allVars => ProgInv'
<1> SUFFICES ASSUME ProgInv, [ProgramNext]_allVars PROVE ProgInv'
  OBVIOUS
<1>1. IInv'
  BY NextStep, ProgStepOfServer DEF ProgInv
<1> USE ProgramAssumption DEF ProgInv, ProgTypes, ShutterState, ExitState
<1>2. ASSUME ServerStep PROVE ProgTypes' /\ ShutterState' /\ ExitState'
  <2>1. UNCHANGED progVars /\ shuts' = shuts /\ (shutPc' # "idle" => shutPc # "idle")
    BY <1>2 DEF ServerStep, Looping, Shutting, Working, ServeLoop, ServeRegister, ServeCount,
         ServeOpen, ServeReturn, Accept, ServeDispatch, ServeRefuse, AcceptFails, Dial, Request,
         ReadFails, ServeConn, StartConn, Respond, WriteFails, CleanupOpen, CleanupConcurrency,
         CloseConn, Move, ShutNoListener, ShutCloseFails, ShutClose, ShutDrained, ShutReturn, shutVars
  <2>2. \/ UNCHANGED <<shutPc, result>>
        \/ shutPc # "idle" /\ (shutPc' = "idle" => result' # "none") /\ ~Ended
    BY <1>2 DEF ServerStep, Looping, Shutting, Working, ServeLoop, ServeRegister, ServeCount,
         ServeOpen, ServeReturn, Accept, ServeDispatch, ServeRefuse, AcceptFails, Dial, Request,
         ReadFails, ServeConn, StartConn, Respond, WriteFails, CleanupOpen, CleanupConcurrency,
         CloseConn, Move, ShutNoListener, ShutCloseFails, ShutClose, ShutDrained, ShutReturn, shutVars
  <2>3. QED
    BY <2>1, <2>2 DEF progVars, Ended
<1>3. ASSUME Interrupt \/ Listen \/ CannotStart \/ Served \/ Receive \/ Returned \/ UNCHANGED allVars
      PROVE  ProgTypes' /\ ShutterState' /\ ExitState'
  <2>1. UNCHANGED <<shutPc, shuts, result>>
    BY <1>3 DEF Interrupt, Listen, CannotStart, Served, Receive, Returned, allVars, serverVars, vars
  <2>2. result \in {"none", "early", "drained", "error"}
    BY DEF IInv, Types
  <2>3. QED
    BY <1>3, <2>1, <2>2 DEF Interrupt, Listen, CannotStart, Served, Receive, Returned, allVars,
                            progVars, Ended, AwaitShutdown
<1>4. ASSUME Call PROVE ProgTypes' /\ ShutterState' /\ ExitState'
  <2>1. /\ shutter = "wait" /\ shutter' = "call" /\ shuts = 0 /\ shuts' = 1
        /\ shutPc' = "begin" /\ main' = main /\ interrupted' = interrupted /\ ~Ended
    BY <1>4 DEF Call, ShutBegin
  <2>2. QED
    BY <2>1 DEF Ended
<1>5. QED
  BY <1>1, <1>2, <1>3, <1>4 DEF ProgramNext

-----------------------------------------------------------------------------
(* The theorems about Program. *)

\* What the program does to its Server is what Server allows, so that every theorem
\* about Server is one about the program.
THEOREM ProgramRunsServer == ProgramSpec => Spec
<1>1. ProgramInit => Init
  BY DEF ProgramInit
<1>2. QED
  BY <1>1, ProgStepOfServer, PTL DEF ProgramSpec, Spec

\* What is known of the server at each point of main and of the goroutine that shuts it
\* down holds in every reachable state of the program.
THEOREM ProgramInvariance == ProgramSpec => []ProgInv
<1>1. QED
  BY ProgInitInv, ProgNextStep, PTL DEF ProgramSpec

\* The program does not exit while an accepted connection is being served, unless
\* Shutdown had found no listener.
THEOREM GracefulExit == ProgramSpec => []ExitsGracefully
<1>1. ProgInv => ExitsGracefully
  BY DEF ProgInv, ExitState, IInv, NothingInterrupted, ExitsGracefully
<1>2. QED
  BY <1>1, ProgramInvariance, PTL

=============================================================================
