-------------------------- MODULE PerIPConnProofs --------------------------
(* Theorems about PerIPConn, for every value of its constants. *)
EXTENDS PerIPConn, FiniteSetTheorems, TLAPS

Accepting == {"accept", "wrap", "excess", "refuse"}
Closing   == {"close", "unregister", "release"}

\* Serve accepts one connection after the other.
OneAccepted == \A c, d \in Conns : pc[c] \in Accepting /\ pc[d] \in Accepting => c = d

\* What is known of a connection where it is: whether it is wrapped, whether its
\* socket is open.  Only what is not counted is served without a wrapper.
ConnState ==
  \A c \in Conns :
    /\ pc[c] \in Accepting \cup Closing => ip[c] # 0
    /\ pc[c] \in Accepting \cup {"new"} => conn[c] = c
    /\ pc[c] \in Closing => conn[c] \in Wrappers
    /\ pc[c] = "serve" => (conn[c] \in Wrappers <=> ip[c] # 0)
    /\ socket[c] = "open" <=> pc[c] \in Accepting \cup {"serve", "close"}

\* No wrapper that is in use is one that acquirePerIPConn may still make.
NoneMadeTwice ==
  \A c \in Conns : conn[c] \in Wrappers /\ pc[c] \in Closing \cup {"serve"} => conn[c] \notin fresh

\* The registered connections of an address that are not refused.
Kept(a) == {c \in Conns : ip[c] = a /\ pc[c] \in {"wrap", "serve", "close", "unregister"}}

KeptBound == \A a \in Addresses \ {0} : Cardinality(Kept(a)) <= MaxConnsPerIP

IInv ==
  /\ TypeOK /\ OneAccepted /\ ConnState
  /\ WrappersPrivate /\ NoneMadeTwice
  /\ CountersExact /\ KeptBound

-----------------------------------------------------------------------------
(* What a step does to the count of an address. *)

\* A connection changes its place; the counts of its address change by whether it
\* was registered, and is.
LEMMA Registering ==
  ASSUME TypeOK, NEW c \in Conns, NEW label, Goto(c, label), ip' = ip, NEW a \in Addresses
  PROVE  /\ IsFiniteSet(Registered(a)) /\ IsFiniteSet(Kept(a))
         /\ ip[c] # a => Registered(a)' = Registered(a) /\ Kept(a)' = Kept(a)
         /\ ip[c] = a =>
              /\ Registered(a)' = IF label \in {"wrap", "excess", "serve", "close", "unregister"}
                                  THEN Registered(a) \cup {c} ELSE Registered(a) \ {c}
              /\ Kept(a)' = IF label \in {"wrap", "serve", "close", "unregister"}
                            THEN Kept(a) \cup {c} ELSE Kept(a) \ {c}
<1>1. pc'[c] = label /\ \A d \in Conns : d # c => pc'[d] = pc[d]
  BY DEF Goto, TypeOK
<1>2. IsFiniteSet(Registered(a)) /\ IsFiniteSet(Kept(a))
  <2>1. Registered(a) \in SUBSET Conns /\ Kept(a) \in SUBSET Conns
    BY DEF Registered, Kept
  <2>2. QED
    BY <2>1, FS_Subset, PerIPConnAssumption
<1>3. QED
  BY <1>1, <1>2 DEF Registered, Kept

\* A step that leaves the counter alone and leaves a connection registered, or not, as
\* it is.
LEMMA SameCount ==
  ASSUME IInv, NEW c \in Conns, NEW label, Goto(c, label), ip' = ip, m' = m,
         ip[c] # 0 =>
           /\ pc[c] \in {"wrap", "serve", "close", "unregister"}
                <=> label \in {"wrap", "serve", "close", "unregister"}
           /\ pc[c] = "excess" <=> label = "excess"
  PROVE  CountersExact' /\ KeptBound'
<1>1. ASSUME NEW a \in Addresses \ {0}
      PROVE  Registered(a)' = Registered(a) /\ Kept(a)' = Kept(a)
  <2>1. ip[c] # a \/ /\ c \in Registered(a) <=> label \in {"wrap", "excess", "serve", "close", "unregister"}
                     /\ c \in Kept(a) <=> label \in {"wrap", "serve", "close", "unregister"}
    BY DEF Registered, Kept
  <2>2. QED
    BY <2>1, Registering DEF IInv
<1>2. QED
  BY <1>1 DEF IInv, CountersExact, KeptBound

-----------------------------------------------------------------------------
(* The invariant, action by action. *)

LEMMA InitInv == Init => IInv
<1> SUFFICES ASSUME Init PROVE IInv
  OBVIOUS
<1> USE PerIPConnAssumption DEF Init
<1>1. \A a \in Addresses : Registered(a) = {} /\ Kept(a) = {}
  BY DEF Registered, Kept
<1>2. CountersExact /\ KeptBound
  <2>1. \A a \in Addresses : Cardinality(Registered(a)) = 0 /\ Cardinality(Kept(a)) = 0
    BY <1>1, FS_EmptySet
  <2>2. \A a \in Addresses : m[a] = 0
    OBVIOUS
  <2>3. QED
    BY <2>1, <2>2 DEF CountersExact, KeptBound
<1>3. TypeOK
  <2>1. \A S, T, x : x \in T => [s \in S |-> x] \in [S -> T]
    OBVIOUS
  <2>2. QED
    BY <2>1 DEF TypeOK
<1>4. OneAccepted /\ ConnState /\ WrappersPrivate /\ NoneMadeTwice
  BY DEF OneAccepted, ConnState, WrappersPrivate, NoneMadeTwice, Accepting, Closing
<1>5. QED
  BY <1>2, <1>3, <1>4 DEF IInv

LEMMA AcceptStep ==
  ASSUME IInv, NEW c \in Conns, Accept(c)
  PROVE  IInv'
<1> USE PerIPConnAssumption DEF IInv, Accept, Goto, wrapVars
<1>1. TypeOK'
  BY DEF TypeOK
<1>2. CountersExact' /\ KeptBound'
  BY SameCount
<1>3. OneAccepted' /\ ConnState'
  BY DEF TypeOK, OneAccepted, ConnState, Accepting, Closing
<1>4. WrappersPrivate' /\ NoneMadeTwice'
  BY DEF TypeOK, WrappersPrivate, NoneMadeTwice, ConnState, Accepting, Closing
<1>5. QED
  BY <1>1, <1>2, <1>3, <1>4

\* Register counts one more; beyond the limit the connection is refused.
LEMMA RegisterStep ==
  ASSUME IInv, NEW c \in Conns, Register(c)
  PROVE  IInv'
<1> USE PerIPConnAssumption DEF IInv
<1>0. PICK a \in Addresses \ {0} : a = ip[c]
  BY DEF Register, TypeOK, ConnState, Accepting
<1> DEFINE n == m[a] + 1
           label == IF TooMany(n) THEN "excess" ELSE "wrap"
<1>1. /\ pc[c] = "accept" /\ Goto(c, label) /\ m' = [m EXCEPT ![a] = n]
      /\ UNCHANGED <<ip, socket, conn, inner, innerIP, pool, fresh>>
  BY <1>0 DEF Register, wrapVars
<1>2. /\ m[a] \in Nat /\ n \in Nat
      /\ m[a] = Cardinality(Registered(a))
  BY DEF TypeOK, CountersExact
<1> HIDE DEF n
<1>3. /\ IsFiniteSet(Registered(a)) /\ IsFiniteSet(Kept(a))
      /\ Registered(a)' = Registered(a) \cup {c} /\ c \notin Registered(a)
      /\ Kept(a)' = IF TooMany(n) THEN Kept(a) ELSE Kept(a) \cup {c}
      /\ Kept(a) \subseteq Registered(a) /\ c \notin Kept(a)
  <2>1. c \notin Registered(a) /\ c \notin Kept(a) /\ Kept(a) \subseteq Registered(a)
    BY <1>1 DEF Registered, Kept
  <2>2. QED
    BY <1>0, <1>1, <2>1, Registering
<1>4. \A b \in Addresses : b # a => Registered(b)' = Registered(b) /\ Kept(b)' = Kept(b)
  BY <1>0, <1>1, Registering
<1>5. CountersExact'
  <2>1. Cardinality(Registered(a)') = n
    BY <1>2, <1>3, FS_AddElement DEF n
  <2>2. QED
    BY <1>1, <1>2, <1>4, <2>1 DEF CountersExact, TypeOK
<1>6. Cardinality(Kept(a)') <= MaxConnsPerIP
  <2>1. CASE TooMany(n)
    BY <1>2, <1>3, <2>1 DEF KeptBound
  <2>2. CASE ~TooMany(n)
    <3>1. Cardinality(Kept(a)') = Cardinality(Kept(a)) + 1
      BY <1>3, <2>2, FS_AddElement
    <3>2. Cardinality(Kept(a)) <= m[a] /\ Cardinality(Kept(a)) \in Nat
      BY <1>2, <1>3, FS_Subset, FS_CardinalityType
    <3>3. n <= MaxConnsPerIP
      BY <1>2, <2>2 DEF TooMany
    <3>4. QED
      BY <1>2, <3>1, <3>2, <3>3 DEF n
  <2>3. QED
    BY <2>1, <2>2
<1>7. KeptBound'
  BY <1>1, <1>4, <1>6 DEF KeptBound
<1>8. n <= MaxConnsPerIP + 1
  \* Nobody but c is being accepted, so none of those registered is refused.
  <2>1. Registered(a) \subseteq Kept(a)
    BY <1>1 DEF OneAccepted, Accepting, Registered, Kept
  <2>2. Registered(a) = Kept(a)
    BY <1>3, <2>1
  <2>3. m[a] <= MaxConnsPerIP
    BY <1>2, <2>2 DEF KeptBound
  <2>4. QED
    BY <1>2, <2>3 DEF n
<1>9. TypeOK'
  BY <1>1, <1>2, <1>8 DEF TypeOK, Goto
<1>10. OneAccepted' /\ ConnState' /\ WrappersPrivate' /\ NoneMadeTwice'
  BY <1>0, <1>1 DEF TypeOK, Goto, OneAccepted, ConnState, WrappersPrivate, NoneMadeTwice,
                    Accepting, Closing
<1>11. QED
  BY <1>5, <1>7, <1>9, <1>10

\* A connection is uncounted, by the address of c: as c is registered under it, the
\* counter is not zero already.
LEMMA UnregisterStep ==
  ASSUME IInv, NEW a \in Addresses \ {0}, NEW c \in Registered(a), NEW label, Goto(c, label),
         label \in {"refuse", "release"}, Unregister(a), UNCHANGED <<ip, socket, wrapVars>>
  PROVE  CountersExact' /\ KeptBound' /\ m' \in [Addresses -> 0..MaxConnsPerIP + 1]
<1> USE PerIPConnAssumption DEF IInv
<1>1. m[a] \in Nat /\ m[a] = Cardinality(Registered(a)) /\ c \in Conns /\ ip[c] = a
  BY DEF TypeOK, CountersExact, Registered
<1>2. /\ IsFiniteSet(Registered(a)) /\ IsFiniteSet(Kept(a))
      /\ Registered(a)' = Registered(a) \ {c}
      /\ Kept(a)' = Kept(a) \ {c}
  BY <1>1, Registering
<1>3. \A b \in Addresses : b # a => Registered(b)' = Registered(b) /\ Kept(b)' = Kept(b)
  BY <1>1, Registering
<1>4. Cardinality(Registered(a)') = m[a] - 1 /\ m[a] - 1 \in Nat
  <2>1. Cardinality(Registered(a)') = m[a] - 1
    BY <1>1, <1>2, FS_RemoveElement
  <2>2. QED
    BY <1>2, <2>1, FS_RemoveElement, FS_CardinalityType
<1>5. m' = [m EXCEPT ![a] = m[a] - 1]
  <2>1. ~(m[a] - 1 < 0)
    BY <1>1, <1>4
  <2>2. QED
    BY <2>1 DEF Unregister
<1>6. CountersExact'
  BY <1>1, <1>3, <1>4, <1>5 DEF CountersExact, TypeOK
<1>7. KeptBound'
  <2>1. Cardinality(Kept(a)') <= Cardinality(Kept(a))
    BY <1>2, FS_Subset
  <2>2. /\ Cardinality(Kept(a)) \in Nat /\ Cardinality(Kept(a)') \in Nat
        /\ Cardinality(Kept(a)) <= MaxConnsPerIP
    <3>1. IsFiniteSet(Kept(a)')
      BY <1>2, FS_RemoveElement
    <3>2. QED
      BY <1>1, <1>2, <3>1, FS_CardinalityType DEF KeptBound
  <2>3. Cardinality(Kept(a)') <= MaxConnsPerIP
    BY <2>1, <2>2
  <2>4. QED
    BY <1>3, <2>3 DEF KeptBound
<1>8. m' \in [Addresses -> 0..MaxConnsPerIP + 1]
  BY <1>1, <1>4, <1>5 DEF TypeOK
<1>9. QED
  BY <1>6, <1>7, <1>8

LEMMA UnregisterExcessStep ==
  ASSUME IInv, NEW c \in Conns, UnregisterExcess(c)
  PROVE  IInv'
<1> USE DEF IInv
<1>1. /\ pc[c] = "excess" /\ ip[c] # 0 /\ Goto(c, "refuse") /\ Unregister(ip[c])
      /\ UNCHANGED <<ip, socket, wrapVars>>
  BY DEF UnregisterExcess, ConnState, Accepting
<1>2. CountersExact' /\ KeptBound' /\ m' \in [Addresses -> 0..MaxConnsPerIP + 1]
  <2>1. c \in Registered(ip[c]) /\ ip[c] \in Addresses \ {0}
    BY <1>1 DEF Registered, TypeOK
  <2>2. QED
    BY <1>1, <2>1, UnregisterStep
<1>3. TypeOK'
  BY <1>1, <1>2 DEF TypeOK, Goto, wrapVars
<1>4. OneAccepted' /\ ConnState' /\ WrappersPrivate' /\ NoneMadeTwice'
  BY <1>1 DEF TypeOK, Goto, wrapVars, OneAccepted, ConnState, WrappersPrivate,
              NoneMadeTwice, Accepting, Closing
<1>5. QED
  BY <1>2, <1>3, <1>4

LEMMA RefuseStep ==
  ASSUME IInv, NEW c \in Conns, Refuse(c)
  PROVE  IInv'
<1> USE DEF IInv, Refuse, Shut
<1>1. CountersExact' /\ KeptBound'
  BY SameCount
<1>2. TypeOK'
  BY DEF TypeOK, Goto, wrapVars
<1>3. OneAccepted' /\ ConnState' /\ WrappersPrivate' /\ NoneMadeTwice'
  BY DEF TypeOK, Goto, wrapVars, OneAccepted, ConnState, WrappersPrivate,
         NoneMadeTwice, Accepting, Closing
<1>4. QED
  BY <1>1, <1>2, <1>3

\* A wrapper is taken from the pool, or is a new one; either way nobody uses it.
LEMMA WrapStep ==
  ASSUME IInv, NEW c \in Conns, Wrap(c)
  PROVE  IInv'
<1> USE PerIPConnAssumption DEF IInv
<1>1. PICK w \in pool \cup fresh :
        /\ conn' = [conn EXCEPT ![c] = w]
        /\ inner' = [inner EXCEPT ![w] = c]
        /\ innerIP' = [innerIP EXCEPT ![w] = ip[c]]
        /\ pool' = pool \ {w} /\ fresh' = fresh \ {w}
  BY DEF Wrap
<1>2. /\ pc[c] = "wrap" /\ Goto(c, "serve") /\ ip[c] # 0 /\ w \in Wrappers
      /\ UNCHANGED <<ip, socket, m>>
  BY DEF Wrap, ConnState, Accepting, TypeOK
<1>3. CountersExact' /\ KeptBound'
  BY <1>2, SameCount
<1>4. TypeOK'
  BY <1>1, <1>2 DEF TypeOK, Goto
<1>5. OneAccepted' /\ ConnState'
  BY <1>1, <1>2 DEF TypeOK, Goto, OneAccepted, ConnState, Accepting, Closing
<1>6. \A d \in Conns : conn[d] \in Wrappers /\ pc[d] \in Closing \cup {"serve"} => conn[d] # w
  BY DEF WrappersPrivate, NoneMadeTwice, Closing
<1>7. WrappersPrivate' /\ NoneMadeTwice'
  BY <1>1, <1>2, <1>6 DEF TypeOK, Goto, WrappersPrivate, NoneMadeTwice, Closing
<1>8. QED
  BY <1>3, <1>4, <1>5, <1>7

LEMMA CollectStep ==
  ASSUME IInv, NEW w \in Wrappers, Collect(w)
  PROVE  IInv'
<1> USE DEF IInv, Collect
<1>1. TypeOK' /\ OneAccepted' /\ ConnState' /\ WrappersPrivate' /\ NoneMadeTwice'
  BY DEF TypeOK, OneAccepted, ConnState, WrappersPrivate, NoneMadeTwice
<1>2. CountersExact' /\ KeptBound'
  BY DEF CountersExact, KeptBound, Registered, Kept
<1>3. QED
  BY <1>1, <1>2

-----------------------------------------------------------------------------
(* perIPConn.Close *)

\* The steps of perIPConn.Close in their order.
LEMMA StepOrder ==
  ASSUME NEW c \in Conns, NEW label, Step(c, label)
  PROVE  /\ pc[c] = label
         /\ label = "close" => Goto(c, "unregister")
         /\ label = "unregister" => Goto(c, "release")
         /\ label = "release" => Goto(c, "done")
<1>1. PICK i \in 1..3 : CloseOrder[i] = label /\ Goto(c, CloseOrder[i + 1])
  BY DEF Step
<1>2. i = 1 \/ i = 2 \/ i = 3
  BY <1>1
<1>3. QED
  BY <1>1, <1>2 DEF Step, CloseOrder

LEMMA CloseStep ==
  ASSUME IInv, NEW c \in Conns, Close(c)
  PROVE  IInv'
<1> USE DEF IInv
<1>1. pc[c] = "serve" /\ UNCHANGED <<ip, wrapVars, m>>
  BY DEF Close
<1>2. CASE conn[c] \in Wrappers
  <2>1. Goto(c, "close") /\ UNCHANGED socket /\ ip[c] # 0
    BY <1>1, <1>2 DEF Close, CloseOrder, ConnState
  <2>2. CountersExact' /\ KeptBound'
    BY <1>1, <2>1, SameCount
  <2>3. TypeOK' /\ OneAccepted' /\ ConnState'
    BY <1>1, <1>2, <2>1 DEF TypeOK, Goto, wrapVars, OneAccepted, ConnState, Accepting, Closing
  <2>4. WrappersPrivate' /\ NoneMadeTwice'
    BY <1>1, <1>2, <2>1 DEF TypeOK, Goto, wrapVars, WrappersPrivate, NoneMadeTwice, Closing
  <2>5. QED
    BY <2>2, <2>3, <2>4
<1>3. CASE conn[c] \notin Wrappers
  <2>1. Goto(c, "done") /\ Shut(c) /\ ip[c] = 0
    BY <1>1, <1>3 DEF Close, ConnState
  <2>2. CountersExact' /\ KeptBound'
    BY <1>1, <2>1, SameCount
  <2>3. TypeOK' /\ OneAccepted' /\ ConnState'
    BY <1>1, <2>1 DEF TypeOK, Goto, Shut, wrapVars, OneAccepted, ConnState, Accepting, Closing
  <2>4. WrappersPrivate' /\ NoneMadeTwice'
    BY <1>1, <2>1 DEF TypeOK, Goto, wrapVars, WrappersPrivate, NoneMadeTwice, Closing
  <2>5. QED
    BY <2>2, <2>3, <2>4
<1>4. QED
  BY <1>2, <1>3

\* The socket that a wrapper closes is that of its own connection.
LEMMA CloseInnerStep ==
  ASSUME IInv, NEW c \in Conns, CloseInner(c)
  PROVE  IInv'
<1> USE DEF IInv
<1>1. pc[c] = "close" /\ Goto(c, "unregister") /\ UNCHANGED <<ip, wrapVars, m>>
  BY StepOrder DEF CloseInner
<1>2. conn[c] \in Wrappers /\ inner[conn[c]] = c
  BY <1>1 DEF ConnState, WrappersPrivate, Closing
<1>3. Shut(c)
  BY <1>2 DEF CloseInner
<1>4. CountersExact' /\ KeptBound'
  BY <1>1, SameCount
<1>5. TypeOK' /\ OneAccepted' /\ ConnState'
  BY <1>1, <1>2, <1>3 DEF TypeOK, Goto, Shut, wrapVars, OneAccepted, ConnState, Accepting, Closing
<1>6. WrappersPrivate' /\ NoneMadeTwice'
  BY <1>1 DEF TypeOK, Goto, wrapVars, WrappersPrivate, NoneMadeTwice, Closing
<1>7. QED
  BY <1>4, <1>5, <1>6

\* Unregister goes by the address in the wrapper, which is that of its connection.
LEMMA CloseUnregisterStep ==
  ASSUME IInv, NEW c \in Conns, CloseUnregister(c)
  PROVE  IInv'
<1> USE DEF IInv
<1>1. pc[c] = "unregister" /\ Goto(c, "release") /\ UNCHANGED <<ip, socket, wrapVars>>
  BY StepOrder DEF CloseUnregister
<1>2. conn[c] \in Wrappers /\ ip[c] # 0 /\ innerIP[conn[c]] = ip[c]
  BY <1>1 DEF ConnState, WrappersPrivate, Closing
<1>3. CountersExact' /\ KeptBound' /\ m' \in [Addresses -> 0..MaxConnsPerIP + 1]
  <2>1. c \in Registered(ip[c]) /\ ip[c] \in Addresses \ {0} /\ Unregister(ip[c])
    BY <1>1, <1>2 DEF Registered, TypeOK, CloseUnregister
  <2>2. QED
    BY <1>1, <1>2, <2>1, UnregisterStep
<1>4. TypeOK' /\ OneAccepted' /\ ConnState'
  BY <1>1, <1>2, <1>3 DEF TypeOK, Goto, wrapVars, OneAccepted, ConnState, Accepting, Closing
<1>5. WrappersPrivate' /\ NoneMadeTwice'
  BY <1>1 DEF TypeOK, Goto, wrapVars, WrappersPrivate, NoneMadeTwice, Closing
<1>6. QED
  BY <1>3, <1>4, <1>5

\* The wrapper that goes back to the pool is no other connection's.
LEMMA CloseReleaseStep ==
  ASSUME IInv, NEW c \in Conns, CloseRelease(c)
  PROVE  IInv'
<1> USE DEF IInv
<1>1. /\ pc[c] = "release" /\ Goto(c, "done")
      /\ inner' = [inner EXCEPT ![conn[c]] = conn[c]]
      /\ pool' = pool \cup {conn[c]}
      /\ UNCHANGED <<ip, socket, conn, innerIP, fresh, m>>
  BY StepOrder DEF CloseRelease
<1>2. conn[c] \in Wrappers /\ ip[c] # 0
  BY <1>1 DEF ConnState, Closing
<1>3. CountersExact' /\ KeptBound'
  BY <1>1, SameCount
<1>4. TypeOK' /\ OneAccepted' /\ ConnState'
  BY <1>1, <1>2 DEF TypeOK, Goto, OneAccepted, ConnState, Accepting, Closing
<1>5. \A d \in Conns : d # c /\ conn[d] \in Wrappers /\ pc[d] \in Closing \cup {"serve"}
                         => conn[d] # conn[c]
  BY <1>1, <1>2 DEF WrappersPrivate, Closing
<1>6. WrappersPrivate' /\ NoneMadeTwice'
  BY <1>1, <1>2, <1>5 DEF TypeOK, Goto, WrappersPrivate, NoneMadeTwice, Closing
<1>7. QED
  BY <1>3, <1>4, <1>6

LEMMA NextStep == IInv /\ [Next]_vars => IInv'
<1> SUFFICES ASSUME IInv, [Next]_vars PROVE IInv'
  OBVIOUS
<1>1. ASSUME UNCHANGED vars PROVE IInv'
  BY <1>1 DEF vars, wrapVars, IInv, TypeOK, OneAccepted, ConnState, WrappersPrivate,
              NoneMadeTwice, CountersExact, KeptBound, Registered, Kept
<1>2. QED
  BY <1>1, AcceptStep, RegisterStep, UnregisterExcessStep, RefuseStep, WrapStep, CollectStep,
     CloseStep, CloseInnerStep, CloseUnregisterStep, CloseReleaseStep DEF Next

-----------------------------------------------------------------------------
(* The theorems. *)

\* The invariant holds in every reachable state, for any clients and any limit.
THEOREM Invariance == Spec => []IInv
<1>1. QED
  BY InitInv, NextStep, PTL DEF Spec

\* Every variable keeps its type; a counter exceeds the limit by one at most.
THEOREM TypeCorrect == Spec => []TypeOK
<1>1. IInv => TypeOK
  BY DEF IInv
<1>2. QED
  BY <1>1, Invariance, PTL

\* Register and Unregister keep each counter exact, although Unregister goes by the
\* address in a recycled wrapper: its guard against a count below zero never acts.
THEOREM CountersCorrect == Spec => []CountersExact
<1>1. IInv => CountersExact
  BY DEF IInv
<1>2. QED
  BY <1>1, Invariance, PTL

\* A wrapper that is in use is its connection's alone.
THEOREM WrappersCorrect == Spec => []WrappersPrivate
<1>1. IInv => WrappersPrivate
  BY DEF IInv
<1>2. QED
  BY <1>1, Invariance, PTL

\* wrapPerIPConn admits no more than MaxConnsPerIP connections of an address.
THEOREM LimitCorrect == Spec => []LimitKept
<1>1. ASSUME IInv PROVE LimitKept
  <2> SUFFICES ASSUME NEW a \in Addresses \ {0}
               PROVE  Cardinality({c \in Conns : /\ ip[c] = a /\ socket[c] = "open"
                                                 /\ pc[c] \notin {"accept", "excess", "refuse"}})
                        <= MaxConnsPerIP
    BY DEF LimitKept
  <2> DEFINE Open == {c \in Conns : /\ ip[c] = a /\ socket[c] = "open"
                                    /\ pc[c] \notin {"accept", "excess", "refuse"}}
  <2>1. Open \subseteq Kept(a)
    BY <1>1 DEF IInv, ConnState, Kept, Accepting
  <2>2. IsFiniteSet(Kept(a))
    <3>1. Kept(a) \in SUBSET Conns
      BY DEF Kept
    <3>2. QED
      BY <3>1, FS_Subset, PerIPConnAssumption
  <2>3. Cardinality(Open) <= Cardinality(Kept(a)) /\ IsFiniteSet(Open)
    BY <2>1, <2>2, FS_Subset
  <2>4. Cardinality(Kept(a)) <= MaxConnsPerIP
    BY <1>1 DEF IInv, KeptBound
  <2>5. QED
    BY <2>2, <2>3, <2>4, FS_CardinalityType, PerIPConnAssumption
<1>2. QED
  BY <1>1, Invariance, PTL

=============================================================================
