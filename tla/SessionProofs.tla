---------------------------- MODULE SessionProofs ----------------------------
(* Theorems about App, and about Session, which is one client of it among    *)
(* others, for every value of their constants.                               *)
EXTENDS Session, TLAPS

\* What a handler knows of its request, and what its answer rests on.
HandlerInv(h) ==
  /\ pc[h] # "idle" => req[h] \in Request /\ answer[h] = "none"
  /\ pc[h] # "idle" /\ req[h].type = "service" => req[h].payload.nonce \in drawn \cup {None}
  /\ pc[h] = "StoreNonce" => req[h].type = "challenge" /\ nonce[h] \in issued
  /\ pc[h] \in {"IsExistsHash", "unused", "StoreHash", "IsExistsNonce"} =>
       req[h].type = "service" /\ req[h].payload.valid
  /\ pc[h] = "IsExistsHash" /\ wasSpent[h] => req[h].payload \in spent
  /\ pc[h] \in {"unused", "StoreHash", "IsExistsNonce"} /\ wasSpent[h] /\ ~raced[h] =>
       req[h].payload.nonce \notin issued
  /\ answer[h] = "quote" => req[h].payload.valid /\ req[h].payload.nonce \in issued
  /\ answer[h] = "quote" /\ ~raced[h] => ~wasSpent[h]

\* A token that was stored without a race is found again, or its nonce was issued by
\* an earlier process, and so will not be by this one.
SpentKnown ==
  \A t \in spent : /\ t.nonce \in drawn \cup {None}
                   /\ t \in hashes \/ t.nonce \notin issued

DownSilent == ~up => answer = [h \in Handlers |-> "none"]

AppInv ==
  /\ TypeOK
  /\ SpentKnown
  /\ DownSilent
  /\ \A h \in Handlers : HandlerInv(h)

-----------------------------------------------------------------------------
\* What this client has asked for and been given.  Before it sends its header nobody
\* can have sent it, nor can the storage know it; then only line handles it.
MakersKept ==
  /\ \A h \in Handlers :
       pc[h] # "idle" /\ h # line /\ req[h].type = "service" => req[h].payload.maker # Client
  /\ (\E t \in hashes : t.maker = Client) =>
       \/ client \in {"served", "failed"}
       \/ client = "sent" /\ pc[line] \in {"idle", "IsExistsNonce"}

AskedInv ==
  client = "asked" =>
    /\ pc[line] \in {"idle", "got", "StoreNonce"}
    /\ pc[line] # "idle" => req[line].type = "challenge"
    /\ answer[line] = "challenge" =>
         /\ nonce[line] \in Nonces
         /\ raced[line] \/ spoiled \/ nonce[line] \in nonces

SentInv ==
  /\ client \in {"solved", "sent"} =>
       /\ header \in Token /\ header.maker = Client
       /\ spoiled \/ (header.valid /\ header.nonce \in nonces)
  /\ client = "sent" =>
       /\ req[line] = [type |-> "service", payload |-> header]
       /\ spoiled \/ raced[line] \/ answer[line] \in {"none", "quote"}

Kept == client \in {"asked", "solved", "sent"} /\ ~spoiled => up

SessionInv ==
  /\ AppInv
  /\ SessionTypeOK
  /\ MakersKept /\ AskedInv /\ SentInv /\ Kept
  /\ SolversServed

-----------------------------------------------------------------------------
(* What the actions of App have in common. *)

LEMMA Tokens ==
  /\ \A t \in Token : t.nonce \in Nonces \cup {None} /\ t.valid \in BOOLEAN
  /\ \A r \in Request : /\ r.type = "service" => r.payload \in Token
                       /\ r.type \in {"empty", "unknown", "challenge", "service"}
BY DEF Token, Request

LEMMA GotoMoves ==
  ASSUME TypeOK, NEW h \in Handlers, NEW label, Goto(h, label)
  PROVE  /\ pc' = [pc EXCEPT ![h] = label]
         /\ pc'[h] = label /\ \A g \in Handlers \ {h} : pc'[g] = pc[g]
         /\ raced' \in [Handlers -> BOOLEAN]
         /\ \A g \in Handlers : raced[g] => raced'[g]
         /\ Races(h) => raced'[h]
BY DEF TypeOK, Goto

LEMMA AnswerMoves ==
  ASSUME TypeOK, NEW h \in Handlers, NEW what, Answer(h, what)
  PROVE  /\ Goto(h, "idle")
         /\ answer'[h] = what /\ \A g \in Handlers \ {h} : answer'[g] = answer[g]
BY DEF TypeOK, Answer

\* The handlers that do not step: what they rest on grows only.
LEMMA OthersKeep ==
  ASSUME TypeOK, NEW g \in Handlers, HandlerInv(g),
         pc'[g] = pc[g], req'[g] = req[g], answer'[g] = answer[g], nonce'[g] = nonce[g],
         wasSpent'[g] = wasSpent[g], raced[g] => raced'[g],
         drawn \subseteq drawn', issued \subseteq issued', spent \subseteq spent',
         issued' \subseteq issued \cup (Nonces \ drawn)
  PROVE  HandlerInv(g)'
<1>1. pc[g] # "idle" /\ req[g].type = "service" /\ req[g].payload.nonce \notin issued
        => req[g].payload.nonce \notin issued'
  BY AppAssumption DEF HandlerInv
<1>2. QED
  BY <1>1 DEF HandlerInv

\* The steps that leave the storage alone.
LEMMA SpentKeeps ==
  ASSUME SpentKnown, spent' = spent, hashes \subseteq hashes', drawn \subseteq drawn',
         issued' \subseteq issued \cup (Nonces \ drawn)
  PROVE  SpentKnown'
BY AppAssumption DEF SpentKnown

LEMMA AppInitInv == Init => AppInv
<1> SUFFICES ASSUME Init PROVE AppInv
  OBVIOUS
<1>1. TypeOK
  BY AppAssumption DEF Init, TypeOK, MapOf
<1>2. SpentKnown /\ DownSilent /\ \A h \in Handlers : HandlerInv(h)
  BY DEF Init, SpentKnown, DownSilent, HandlerInv
<1>3. QED
  BY <1>1, <1>2 DEF AppInv

-----------------------------------------------------------------------------
(* The process dies, and starts again. *)

LEMMA DieStep ==
  ASSUME AppInv, Die
  PROVE  AppInv'
<1>1. TypeOK'
  BY DEF AppInv, TypeOK, Die, mapVars, history, MapOf
<1>2. SpentKnown' /\ DownSilent'
  BY DEF AppInv, SpentKnown, DownSilent, Die, mapVars, history
<1>3. \A h \in Handlers : HandlerInv(h)'
  BY DEF HandlerInv, Die
<1>4. QED
  BY <1>1, <1>2, <1>3 DEF AppInv

LEMMA RestartStep ==
  ASSUME AppInv, Restart
  PROVE  AppInv'
<1>1. TypeOK'
  BY AppAssumption DEF AppInv, TypeOK, Restart, LoseMaps
<1>2. SpentKnown' /\ DownSilent'
  BY DEF AppInv, SpentKnown, DownSilent, Restart, LoseMaps
<1>3. \A h \in Handlers : HandlerInv(h)'
  BY DEF AppInv, TypeOK, DownSilent, HandlerInv, Restart, LoseMaps
<1>4. QED
  BY <1>1, <1>2, <1>3 DEF AppInv

-----------------------------------------------------------------------------
(* A request is received, and handled. *)

LEMMA ReceiveStep ==
  ASSUME AppInv, NEW h \in Handlers, NEW r \in Request, Receive(h, r)
  PROVE  AppInv'
<1> USE DEF AppInv
<1>1. TypeOK'
  BY DEF TypeOK, Receive, mapVars, MapOf
<1>2. SpentKnown' /\ DownSilent'
  BY DEF SpentKnown, DownSilent, Receive, mapVars
<1>3. HandlerInv(h)'
  BY DEF TypeOK, HandlerInv, Receive
<1>4. ASSUME NEW g \in Handlers \ {h} PROVE HandlerInv(g)'
  BY OthersKeep DEF TypeOK, Receive
<1>5. QED
  BY <1>1, <1>2, <1>3, <1>4

\* A handler that answers or goes on changes nothing but what it holds itself.
LEMMA HandlerMoves ==
  ASSUME AppInv, NEW h \in Handlers, NEW label \in {"idle", "got", "unused"} \cup DOMAIN MapOf,
         Goto(h, label), pc[h] # "idle",
         UNCHANGED <<up, restarts, req, drawn>>,
         nonce' \in [Handlers -> Nonces \cup {None}],
         answer' \in [Handlers -> {"none", "error", "challenge", "quote"}],
         wasSpent' \in [Handlers -> BOOLEAN],
         nonces \subseteq nonces', nonces' \subseteq issued, issued' = issued,
         hashes \subseteq hashes', hashes' \subseteq {t \in Token : t.valid},
         spent' = spent,
         \A g \in Handlers \ {h} : /\ nonce'[g] = nonce[g] /\ answer'[g] = answer[g]
                                    /\ wasSpent'[g] = wasSpent[g],
         HandlerInv(h)'
  PROVE  AppInv'
<1>1. up
  BY DEF AppInv, TypeOK
<1>2. /\ pc' = [pc EXCEPT ![h] = label]
      /\ \A g \in Handlers \ {h} : pc'[g] = pc[g]
      /\ raced' \in [Handlers -> BOOLEAN]
      /\ \A g \in Handlers : raced[g] => raced'[g]
  BY GotoMoves DEF AppInv
<1>3. TypeOK'
  BY <1>1, <1>2 DEF AppInv, TypeOK
<1>4. SpentKnown'
  BY SpentKeeps DEF AppInv
<1>5. DownSilent'
  BY <1>1 DEF DownSilent
<1>6. ASSUME NEW g \in Handlers \ {h} PROVE HandlerInv(g)'
  BY <1>2, OthersKeep DEF AppInv
<1>7. QED
  BY <1>3, <1>4, <1>5, <1>6 DEF AppInv

LEMMA UnknownStep ==
  ASSUME AppInv, NEW h \in Handlers, Unknown(h)
  PROVE  AppInv'
<1>1. /\ Goto(h, "idle") /\ answer'[h] = "error" /\ pc'[h] = "idle"
      /\ answer' \in [Handlers -> {"none", "error", "challenge", "quote"}]
      /\ \A g \in Handlers \ {h} : answer'[g] = answer[g]
  BY AnswerMoves, GotoMoves DEF Unknown, AppInv, TypeOK, Answer
<1>2. HandlerInv(h)'
  BY <1>1 DEF HandlerInv
<1>3. QED
  BY <1>1, <1>2, HandlerMoves DEF Unknown, mapVars, AppInv, TypeOK

LEMMA NoNonceStep ==
  ASSUME AppInv, NEW h \in Handlers, NoNonce(h)
  PROVE  AppInv'
<1>1. /\ Goto(h, "idle") /\ answer'[h] = "error" /\ pc'[h] = "idle"
      /\ answer' \in [Handlers -> {"none", "error", "challenge", "quote"}]
      /\ \A g \in Handlers \ {h} : answer'[g] = answer[g]
  BY AnswerMoves, GotoMoves DEF NoNonce, AppInv, TypeOK, Answer
<1>2. HandlerInv(h)'
  BY <1>1 DEF HandlerInv
<1>3. QED
  BY <1>1, <1>2, HandlerMoves DEF NoNonce, mapVars, AppInv, TypeOK

\* The nonce drawn is none that any token names.
LEMMA ChallengeStep ==
  ASSUME AppInv, NEW h \in Handlers, Challenge(h)
  PROVE  AppInv'
<1>1. PICK n \in Nonces \ drawn : /\ nonce' = [nonce EXCEPT ![h] = n]
                                   /\ drawn' = drawn \cup {n} /\ issued' = issued \cup {n}
  BY DEF Challenge
<1>2. /\ pc' = [pc EXCEPT ![h] = "StoreNonce"]
      /\ pc'[h] = "StoreNonce" /\ \A g \in Handlers \ {h} : pc'[g] = pc[g]
      /\ raced' \in [Handlers -> BOOLEAN]
      /\ \A g \in Handlers : raced[g] => raced'[g]
  BY GotoMoves DEF AppInv, Challenge
<1>3. /\ UNCHANGED <<up, restarts, req, answer, nonces, hashes, spent, wasSpent>>
      /\ pc[h] = "got" /\ req[h].type = "challenge"
  BY DEF Challenge, mapVars
<1>4. TypeOK'
  BY <1>1, <1>2, <1>3 DEF AppInv, TypeOK, MapOf
<1>5. SpentKnown'
  BY <1>1, <1>3, SpentKeeps DEF AppInv
<1>6. DownSilent'
  BY <1>3 DEF AppInv, DownSilent
<1>7. HandlerInv(h)'
  BY <1>1, <1>2, <1>3 DEF AppInv, TypeOK, HandlerInv
<1>8. ASSUME NEW g \in Handlers \ {h} PROVE HandlerInv(g)'
  BY <1>1, <1>2, <1>3, OthersKeep DEF AppInv, TypeOK
<1>9. QED
  BY <1>4, <1>5, <1>6, <1>7, <1>8 DEF AppInv

LEMMA StoreNonceStep ==
  ASSUME AppInv, NEW h \in Handlers, StoreNonce(h)
  PROVE  AppInv'
<1>1. /\ Goto(h, "idle") /\ answer'[h] = "challenge" /\ pc'[h] = "idle"
      /\ answer' \in [Handlers -> {"none", "error", "challenge", "quote"}]
      /\ \A g \in Handlers \ {h} : answer'[g] = answer[g]
  BY AnswerMoves, GotoMoves DEF StoreNonce, AppInv, TypeOK, Answer
<1>2. HandlerInv(h)'
  BY <1>1 DEF HandlerInv
<1>3. nonces \subseteq nonces' /\ nonces' \subseteq issued
  BY DEF StoreNonce, AddNonce, AppInv, TypeOK, HandlerInv
<1>4. QED
  BY <1>1, <1>2, <1>3, HandlerMoves DEF StoreNonce, AppInv, TypeOK

LEMMA ServiceStep ==
  ASSUME AppInv, NEW h \in Handlers, Service(h)
  PROVE  AppInv'
<1> USE DEF AppInv
<1>1. UNCHANGED <<up, restarts, req, nonce, nonces, hashes, drawn, issued, spent>>
  BY DEF Service, mapVars
<1>2. CASE Verified(h)
  <2>1. /\ Goto(h, "IsExistsHash") /\ pc'[h] = "IsExistsHash" /\ answer' = answer
        /\ wasSpent' = [wasSpent EXCEPT ![h] = req[h].payload \in spent]
    BY <1>2, GotoMoves DEF Service
  <2>2. HandlerInv(h)'
    BY <1>1, <1>2, <2>1 DEF HandlerInv, Verified, Service, TypeOK
  <2>3. QED
    BY <1>1, <2>1, <2>2, HandlerMoves DEF TypeOK, Service, MapOf
<1>3. CASE ~Verified(h)
  <2>1. Answer(h, "error") /\ wasSpent' = wasSpent
    BY <1>3 DEF Service
  <2>2. /\ Goto(h, "idle") /\ answer'[h] = "error" /\ pc'[h] = "idle"
        /\ answer' \in [Handlers -> {"none", "error", "challenge", "quote"}]
        /\ \A g \in Handlers \ {h} : answer'[g] = answer[g]
    BY <2>1, AnswerMoves, GotoMoves DEF TypeOK, Answer
  <2>3. HandlerInv(h)'
    BY <2>2 DEF HandlerInv
  <2>4. QED
    BY <1>1, <2>1, <2>2, <2>3, HandlerMoves DEF Service, TypeOK
<1>4. QED
  BY <1>2, <1>3

\* A token that was spent and is not found has a nonce of an earlier process.
LEMMA IsExistsHashStep ==
  ASSUME AppInv, NEW h \in Handlers, IsExistsHash(h)
  PROVE  AppInv'
<1> USE DEF AppInv
<1>1. /\ UNCHANGED <<up, restarts, req, nonce, nonces, hashes, drawn, issued, spent, wasSpent>>
      /\ pc[h] = "IsExistsHash"
  BY DEF IsExistsHash, mapVars
<1>2. CASE Answer(h, "error")
  <2>1. /\ Goto(h, "idle") /\ answer'[h] = "error" /\ pc'[h] = "idle"
        /\ answer' \in [Handlers -> {"none", "error", "challenge", "quote"}]
        /\ \A g \in Handlers \ {h} : answer'[g] = answer[g]
    BY <1>2, AnswerMoves, GotoMoves DEF TypeOK, Answer
  <2>2. HandlerInv(h)'
    BY <2>1 DEF HandlerInv
  <2>3. QED
    BY <1>1, <2>1, <2>2, HandlerMoves DEF TypeOK
<1>3. CASE (req[h].payload \notin hashes \/ Races(h)) /\ Goto(h, "unused") /\ UNCHANGED answer
  <2>1. pc'[h] = "unused" /\ (Races(h) => raced'[h]) /\ (raced[h] => raced'[h])
    BY <1>3, GotoMoves
  <2>2. wasSpent[h] /\ req[h].payload \notin hashes => req[h].payload.nonce \notin issued
    BY <1>1 DEF HandlerInv, SpentKnown
  <2>3. HandlerInv(h)'
    BY <1>1, <1>3, <2>1, <2>2 DEF HandlerInv
  <2>4. QED
    BY <1>1, <1>3, <2>3, HandlerMoves DEF TypeOK, MapOf
<1>4. QED
  BY <1>2, <1>3 DEF IsExistsHash

LEMMA BeginStoreStep ==
  ASSUME AppInv, NEW h \in Handlers, BeginStore(h)
  PROVE  AppInv'
<1> USE DEF AppInv
<1>1. /\ UNCHANGED <<up, restarts, req, nonce, answer, nonces, hashes, drawn, issued, spent, wasSpent>>
      /\ pc[h] = "unused" /\ Goto(h, "StoreHash")
  BY DEF BeginStore, mapVars
<1>2. pc'[h] = "StoreHash" /\ (raced[h] => raced'[h])
  BY <1>1, GotoMoves
<1>3. HandlerInv(h)'
  BY <1>1, <1>2 DEF HandlerInv
<1>4. QED
  BY <1>1, <1>3, HandlerMoves DEF TypeOK, MapOf

\* A token enters spent only together with hashes.
LEMMA StoreHashStep ==
  ASSUME AppInv, NEW h \in Handlers, StoreHash(h)
  PROVE  AppInv'
<1> USE DEF AppInv
<1>1. /\ UNCHANGED <<up, restarts, req, nonce, answer, nonces, drawn, issued, wasSpent>>
      /\ pc[h] = "StoreHash"
      /\ spent' = spent \/ (spent' = spent \cup {req[h].payload} /\ req[h].payload \in hashes')
      /\ hashes \subseteq hashes' /\ hashes' \subseteq hashes \cup {req[h].payload}
  BY DEF StoreHash
<1>2. /\ pc' = [pc EXCEPT ![h] = "IsExistsNonce"]
      /\ pc'[h] = "IsExistsNonce" /\ \A g \in Handlers \ {h} : pc'[g] = pc[g]
      /\ raced' \in [Handlers -> BOOLEAN]
      /\ \A g \in Handlers : raced[g] => raced'[g]
  BY GotoMoves DEF StoreHash
<1>3. /\ req[h].payload \in Token /\ req[h].payload.valid
      /\ req[h].payload.nonce \in drawn \cup {None}
  BY <1>1, Tokens DEF HandlerInv
<1>4. TypeOK'
  BY <1>1, <1>2, <1>3 DEF TypeOK, MapOf
<1>5. SpentKnown'
  BY <1>1, <1>3 DEF SpentKnown
<1>6. DownSilent'
  BY <1>1 DEF DownSilent
<1>7. HandlerInv(h)'
  BY <1>1, <1>2 DEF HandlerInv
<1>8. ASSUME NEW g \in Handlers \ {h} PROVE HandlerInv(g)'
  BY <1>1, <1>2, OthersKeep
<1>9. QED
  BY <1>4, <1>5, <1>6, <1>7, <1>8

\* Only a nonce of this process is found, and so never that of a spent token.
LEMMA IsExistsNonceStep ==
  ASSUME AppInv, NEW h \in Handlers, IsExistsNonce(h)
  PROVE  AppInv'
<1> USE DEF AppInv
<1>1. /\ UNCHANGED <<up, restarts, req, nonce, nonces, hashes, drawn, issued, spent, wasSpent>>
      /\ pc[h] = "IsExistsNonce"
  BY DEF IsExistsNonce, mapVars
<1>2. PICK what \in {"quote", "error"} : Answer(h, what) /\ (what = "quote" => Found(h))
  BY DEF IsExistsNonce
<1>3. /\ Goto(h, "idle") /\ answer'[h] = what /\ pc'[h] = "idle"
      /\ (raced[h] => raced'[h])
      /\ answer' \in [Handlers -> {"none", "error", "challenge", "quote"}]
      /\ \A g \in Handlers \ {h} : answer'[g] = answer[g]
  BY <1>2, AnswerMoves, GotoMoves DEF TypeOK, Answer
<1>4. what = "quote" => req[h].payload.nonce \in issued
  BY <1>2 DEF Found, TypeOK
<1>5. HandlerInv(h)'
  BY <1>1, <1>3, <1>4 DEF HandlerInv
<1>6. QED
  BY <1>1, <1>3, <1>5, HandlerMoves DEF TypeOK

LEMMA HandleStep ==
  ASSUME AppInv, NEW h \in Handlers, Handle(h) \/ Crash(h)
  PROVE  AppInv'
BY DieStep, UnknownStep, NoNonceStep, ChallengeStep, StoreNonceStep, ServiceStep,
   IsExistsHashStep, BeginStoreStep, StoreHashStep, IsExistsNonceStep DEF Handle, Panic, Crash

LEMMA AppStutters ==
  ASSUME AppInv, UNCHANGED vars
  PROVE  AppInv'
<1>1. TypeOK' /\ SpentKnown' /\ DownSilent'
  BY DEF AppInv, vars, mapVars, history, TypeOK, SpentKnown, DownSilent
<1>2. \A h \in Handlers : HandlerInv(h)'
  BY DEF AppInv, vars, mapVars, history, HandlerInv
<1>3. QED
  BY <1>1, <1>2 DEF AppInv

LEMMA AppNextInv == AppInv /\ [Next]_vars => AppInv'
BY RestartStep, HandleStep, ReceiveStep, AppStutters DEF Next

-----------------------------------------------------------------------------
(* The theorems about App. *)

\* The invariant holds in every reachable state, for any number of handlers.
THEOREM AppInvariance == Spec => []AppInv
<1>1. QED
  BY AppInitInv, AppNextInv, PTL DEF Spec

\* Every variable keeps its type: the maps hold only nonces that this process has
\* issued and tokens that Parse accepts, and no handler runs in a dead process.
THEOREM AppTypeCorrect == Spec => []TypeOK
<1>1. AppInv => TypeOK
  BY DEF AppInv
<1>2. QED
  BY <1>1, AppInvariance, PTL

\* Quotes are only given for valid tokens whose nonces this very process has issued,
\* for any number of handlers, of nonces, of makers of headers and of restarts.
THEOREM QuotesCorrect == Spec => []QuotesEarned
<1>1. AppInv => QuotesEarned
  BY DEF AppInv, HandlerInv, QuotesEarned
<1>2. QED
  BY <1>1, AppInvariance, PTL

\* A token that was stored before a request began to look it up earns no second quote,
\* unless an access of the request raced, through any number of restarts.
THEOREM ReplayCorrect == Spec => []ReplayRefused
<1>1. AppInv => ReplayRefused
  BY DEF AppInv, HandlerInv, ReplayRefused
<1>2. QED
  BY <1>1, AppInvariance, PTL

-----------------------------------------------------------------------------
(* Session: its handlers, seen by this client. *)

\* A handler that does not end the process changes its own part, and storage grows.
LEMMA HandlerEffect ==
  ASSUME AppInv, NEW h \in Handlers, Handle(h), ~Panic(h)
  PROVE  /\ pc[h] # "idle" /\ UNCHANGED <<up, req>>
         /\ \A g \in Handlers \ {h} : /\ pc'[g] = pc[g] /\ answer'[g] = answer[g]
                                      /\ nonce'[g] = nonce[g]
         /\ \A g \in Handlers : raced[g] => raced'[g]
         /\ nonces \subseteq nonces'
         /\ \A t \in hashes' \ hashes : t = req[h].payload /\ pc[h] = "StoreHash"
                                        /\ pc'[h] = "IsExistsNonce"
<1> USE DEF AppInv
<1>1. PICK label : Goto(h, label) /\ (StoreHash(h) => label = "IsExistsNonce")
  BY DEF Handle, Unknown, Challenge, NoNonce, Service, StoreNonce, IsExistsHash, BeginStore,
         StoreHash, IsExistsNonce, Answer
<1>2. /\ pc'[h] = label
      /\ \A g \in Handlers \ {h} : pc'[g] = pc[g]
      /\ \A g \in Handlers : raced[g] => raced'[g]
  BY <1>1, GotoMoves
<1>3. pc[h] # "idle" /\ UNCHANGED <<up, req>>
  BY DEF Handle, Unknown, Challenge, NoNonce, Service, StoreNonce, IsExistsHash, BeginStore,
         StoreHash, IsExistsNonce
<1>4. answer' = answer \/ \E what : Answer(h, what)
  BY DEF Handle, Unknown, Challenge, NoNonce, Service, StoreNonce, IsExistsHash, BeginStore,
         StoreHash, IsExistsNonce
<1>5. \A g \in Handlers \ {h} : answer'[g] = answer[g]
  BY <1>4, AnswerMoves
<1>6. \A g \in Handlers \ {h} : nonce'[g] = nonce[g]
  BY DEF Handle, Unknown, Challenge, NoNonce, Service, StoreNonce, IsExistsHash, BeginStore,
         StoreHash, IsExistsNonce, TypeOK
<1>7. nonces \subseteq nonces'
  BY DEF Handle, Unknown, Challenge, NoNonce, Service, StoreNonce, IsExistsHash, BeginStore,
         StoreHash, IsExistsNonce, mapVars, AddNonce
<1>8. hashes' = hashes \/ (StoreHash(h) /\ hashes' \subseteq hashes \cup {req[h].payload})
  BY DEF Handle, Unknown, Challenge, NoNonce, Service, StoreNonce, IsExistsHash, BeginStore,
         StoreHash, IsExistsNonce, mapVars
<1>9. QED
  BY <1>1, <1>2, <1>3, <1>5, <1>6, <1>7, <1>8 DEF StoreHash

\* Asked for a challenge, a handler draws a nonce that the storage then has, unless
\* its access races.
LEMMA ChallengeEffect ==
  ASSUME AppInv, NEW h \in Handlers, Handle(h), ~Panic(h),
         req[h].type = "challenge", pc[h] \in {"got", "StoreNonce"}
  PROVE  /\ pc'[h] \in {"idle", "StoreNonce"}
         /\ answer'[h] = "challenge" => /\ nonce'[h] \in Nonces
                                        /\ raced'[h] \/ nonce'[h] \in nonces'
<1> USE DEF AppInv
<1>1. CASE Challenge(h)
  BY <1>1, GotoMoves DEF Challenge, HandlerInv
<1>2. CASE NoNonce(h)
  BY <1>2, AnswerMoves, GotoMoves DEF NoNonce
<1>3. CASE StoreNonce(h)
  <2>1. Goto(h, "idle") /\ pc'[h] = "idle" /\ (Races(h) => raced'[h]) /\ nonce' = nonce
    BY <1>3, AnswerMoves, GotoMoves DEF StoreNonce
  <2>2. nonce[h] \in Nonces
    BY <1>3 DEF StoreNonce, HandlerInv, TypeOK
  <2>3. nonce[h] \in nonces' \/ Races(h)
    BY <1>3 DEF StoreNonce, AddNonce
  <2>4. QED
    BY <2>1, <2>2, <2>3
<1>4. QED
  BY <1>1, <1>2, <1>3 DEF Handle, Unknown, Service, IsExistsHash, BeginStore, StoreHash, IsExistsNonce

\* A token in time, unknown yet, whose nonce the storage has, is not refused unless
\* an access races.
LEMMA ServiceEffect ==
  ASSUME AppInv, NEW h \in Handlers, Handle(h), ~Panic(h),
         req[h].type = "service", req[h].payload.valid,
         req[h].payload.nonce \in nonces,
         pc[h] = "IsExistsHash" => req[h].payload \notin hashes
  PROVE  answer'[h] \in {"none", "quote"} \/ raced'[h]
<1> USE DEF AppInv
<1>1. CASE Service(h)
  BY <1>1 DEF Service, Verified, HandlerInv
<1>2. CASE IsExistsHash(h)
  BY <1>2 DEF IsExistsHash, HandlerInv
<1>3. CASE StoreHash(h) \/ BeginStore(h)
  BY <1>3 DEF StoreHash, BeginStore, HandlerInv
<1>4. CASE IsExistsNonce(h)
  <2>1. PICK what \in {"quote", "error"} : Answer(h, what) /\ (what = "error" => Races(h))
    BY <1>4 DEF IsExistsNonce, Found
  <2>2. Goto(h, "idle") /\ answer'[h] = what
    BY <2>1, AnswerMoves
  <2>3. Races(h) => raced'[h]
    BY <2>2, GotoMoves
  <2>4. QED
    BY <2>1, <2>2, <2>3
<1>5. QED
  BY <1>1, <1>2, <1>3, <1>4 DEF Handle, Unknown, Challenge, NoNonce, StoreNonce, HandlerInv

-----------------------------------------------------------------------------
(* Session is App for the server's part of its state. *)

LEMMA SessionMapsToApp ==
  ASSUME SessionInv, [SessionNext]_allVars
  PROVE  [Next]_vars
<1>1. CASE UNCHANGED allVars
  BY <1>1 DEF allVars
<1>2. CASE GetService
  <2>1. ASSUME NEW h \in Handlers, GetChallenge(h) PROVE Next
    <3>1. [type |-> "challenge", payload |-> None] \in Request
      BY DEF Request
    <3>2. QED
      BY <2>1, <3>1 DEF GetChallenge, Send, Next
  <2>2. ASSUME NEW h \in Handlers, GetQuote(h) PROVE Next
    <3>1. [type |-> "service", payload |-> header] \in Request
      BY <2>2 DEF Request, GetQuote, SessionInv, SentInv
    <3>2. QED
      BY <2>2, <3>1 DEF GetQuote, Send, Next
  <2>3. QED
    BY <1>2, <2>1, <2>2
       DEF GetService, DialFails, AnswerLost, NoSolution, Compute, ReadQuote, Fails
<1>3. CASE ServerStep
  BY <1>3 DEF ServerStep, Next
<1>4. CASE \E h \in Handlers, r \in Request : OtherReceive(h, r)
  BY <1>4 DEF OtherReceive, Next
<1>5. QED
  BY <1>1, <1>2, <1>3, <1>4 DEF SessionNext

LEMMA SessionInitInv == SessionInit => SessionInv
<1> SUFFICES ASSUME SessionInit PROVE SessionInv
  OBVIOUS
<1>1. AppInv
  BY AppInitInv DEF SessionInit
<1>2. SessionTypeOK
  BY <1>1, AppAssumption DEF SessionInit, SessionTypeOK, AppInv
<1>3. MakersKept /\ AskedInv /\ SentInv /\ Kept /\ SolversServed
  BY DEF SessionInit, Init, MakersKept, AskedInv, SentInv, Kept, SolversServed
<1>4. QED
  BY <1>1, <1>2, <1>3 DEF SessionInv

\* getService sends a request on a connection of its own.
LEMMA SendStep ==
  ASSUME SessionInv, NEW h \in Handlers, GetChallenge(h) \/ GetQuote(h)
  PROVE  SessionInv'
<1> USE AppAssumption DEF SessionInv
<1>1. PICK r \in Request, label \in {"asked", "sent"} :
        /\ Send(h, r, label) /\ line = None /\ client \in {"start", "solved"}
        /\ \/ label = "asked" /\ r.type = "challenge"
           \/ label = "sent" /\ r = [type |-> "service", payload |-> header] /\ client = "solved"
  <2>1. CASE GetChallenge(h)
    <3>1. [type |-> "challenge", payload |-> None] \in Request
      BY DEF Request
    <3>2. QED
      BY <2>1, <3>1 DEF GetChallenge, SessionTypeOK
  <2>2. CASE GetQuote(h)
    <3>1. [type |-> "service", payload |-> header] \in Request
      BY <2>2 DEF Request, GetQuote, SentInv
    <3>2. QED
      BY <2>2, <3>1 DEF GetQuote, SessionTypeOK
  <2>3. QED
    BY <2>1, <2>2
<1>2. /\ up /\ up' = up /\ pc[h] = "idle" /\ pc'[h] = "got" /\ req'[h] = r /\ answer'[h] = "none"
      /\ line' = h /\ client' = label /\ UNCHANGED <<header, spoiled, nonces, hashes>>
      /\ \A g \in Handlers \ {h} : pc'[g] = pc[g] /\ req'[g] = req[g]
  BY <1>1 DEF Send, Receive, AppInv, TypeOK, mapVars
<1>3. AppInv'
  BY <1>1, ReceiveStep DEF Send
<1>4. SessionTypeOK'
  BY <1>1, <1>2, <1>3 DEF SessionTypeOK, AppInv
<1>5. MakersKept'
  BY <1>1, <1>2 DEF MakersKept
<1>6. AskedInv' /\ SentInv'
  BY <1>1, <1>2 DEF AskedInv, SentInv
<1>7. Kept' /\ SolversServed'
  BY <1>1, <1>2 DEF Kept, SolversServed
<1>8. QED
  BY <1>3, <1>4, <1>5, <1>6, <1>7

\* getService computes, reads what it is answered, or gives up.
LEMMA ClientStep ==
  ASSUME SessionInv, DialFails \/ AnswerLost \/ NoSolution \/ Compute \/ ReadQuote
  PROVE  SessionInv'
<1> USE AppAssumption, SessionAssumption DEF SessionInv
<1>1. UNCHANGED vars
  BY DEF DialFails, AnswerLost, NoSolution, Compute, ReadQuote, Fails
<1>2. AppInv'
  BY <1>1, AppStutters
<1>3. line' = None /\ (line = None \/ (line \in Handlers /\ pc[line] = "idle"))
  BY DEF DialFails, AnswerLost, NoSolution, Compute, ReadQuote, Fails, SessionTypeOK, AppInv,
         HandlerInv
<1>4. UNCHANGED <<pc, req, hashes, nonces, up>>
  BY <1>1 DEF vars, mapVars
<1>5. CASE Compute
  <2>1. PICK inTime \in BOOLEAN :
          /\ header' = IF answer[line] = "challenge"
                       THEN [nonce |-> nonce[line], valid |-> inTime, maker |-> Client]
                       ELSE [nonce |-> None, valid |-> FALSE, maker |-> Client]
          /\ spoiled' = (spoiled \/ ~inTime \/ answer[line] = "error" \/ raced[line])
    BY <1>5 DEF Compute
  <2>2. client = "asked" /\ client' = "solved" /\ answer[line] \in {"challenge", "error"}
    BY <1>5 DEF Compute
  <2>3. header' \in Token /\ header'.maker = Client
    <3>1. CASE answer[line] = "challenge"
      BY <2>1, <2>2, <3>1 DEF Token, AskedInv
    <3>2. CASE answer[line] # "challenge"
      BY <2>1, <3>2 DEF Token
    <3>3. QED
      BY <3>1, <3>2
  <2>4. spoiled' \/ (header'.valid /\ header'.nonce \in nonces)
    BY <2>1, <2>2 DEF AskedInv
  <2>5. SessionTypeOK'
    <3>1. spoiled' \in BOOLEAN
      BY <2>1
    <3>2. QED
      BY <1>2, <1>3, <2>2, <2>3, <3>1 DEF SessionTypeOK, AppInv
  <2>6. MakersKept'
    BY <1>3, <1>4, <2>2 DEF MakersKept
  <2>7. SentInv' /\ AskedInv'
    BY <1>4, <2>2, <2>3, <2>4 DEF SentInv, AskedInv
  <2>8. (spoiled => spoiled') /\ Kept' /\ SolversServed'
    BY <1>4, <2>1, <2>2 DEF Kept, SolversServed
  <2>9. QED
    BY <1>2, <2>5, <2>6, <2>7, <2>8
<1>6. CASE ~Compute
  <2>1. client' \in {"served", "failed"} /\ header' = header
    BY <1>6 DEF DialFails, AnswerLost, NoSolution, ReadQuote, Fails
  <2>2. client' = "failed" => spoiled'
    BY <1>6 DEF DialFails, AnswerLost, NoSolution, ReadQuote, Fails, SentInv
  <2>3. spoiled' \in BOOLEAN
    BY <1>6 DEF DialFails, AnswerLost, NoSolution, ReadQuote, Fails, SessionTypeOK, AppInv, TypeOK
  <2>4. SessionTypeOK'
    BY <1>2, <1>3, <2>1, <2>3 DEF SessionTypeOK, AppInv
  <2>5. MakersKept'
    BY <1>3, <1>4, <2>1 DEF MakersKept
  <2>6. AskedInv' /\ SentInv' /\ Kept' /\ SolversServed'
    BY <2>1, <2>2 DEF AskedInv, SentInv, Kept, SolversServed
  <2>7. QED
    BY <1>2, <2>4, <2>5, <2>6
<1>7. QED
  BY <1>5, <1>6

\* The others cannot send this client's header.
LEMMA OtherReceiveStep ==
  ASSUME SessionInv, NEW h \in Handlers, NEW r \in Request, OtherReceive(h, r)
  PROVE  SessionInv'
<1> USE AppAssumption DEF SessionInv
<1>1. AppInv'
  BY ReceiveStep DEF OtherReceive
<1>2. /\ up' = up /\ pc[h] = "idle" /\ pc'[h] = "got" /\ req'[h] = r /\ h # line
      /\ r.type = "service" => r.payload.maker # Client
      /\ UNCHANGED <<client, line, header, spoiled, nonces, hashes>>
      /\ \A g \in Handlers \ {h} : /\ pc'[g] = pc[g] /\ req'[g] = req[g] /\ answer'[g] = answer[g]
                                   /\ nonce'[g] = nonce[g] /\ raced'[g] = raced[g]
  BY DEF OtherReceive, Receive, AppInv, TypeOK, mapVars, clientVars
<1>3. line = None \/ line \in Handlers \ {h}
  BY <1>2 DEF SessionTypeOK
<1>4. SessionTypeOK' /\ Kept' /\ SolversServed'
  BY <1>1, <1>2 DEF SessionTypeOK, AppInv, Kept, SolversServed
<1>5. MakersKept'
  BY <1>2, <1>3 DEF MakersKept, SessionTypeOK
<1>6. AskedInv' /\ SentInv'
  BY <1>2, <1>3 DEF AskedInv, SentInv, SessionTypeOK
<1>7. QED
  BY <1>1, <1>4, <1>5, <1>6

\* The process dies or starts again: from then on a failure is excused.
LEMMA ProcessStep ==
  ASSUME SessionInv, Die \/ Restart,
         spoiled' = (spoiled \/ (client # "start" /\ up # up')),
         UNCHANGED <<client, line, header>>
  PROVE  SessionInv'
<1> USE AppAssumption DEF SessionInv
<1>1. AppInv'
  BY DieStep, RestartStep
<1>2. /\ req' = req /\ hashes' \subseteq hashes
      /\ \A h \in Handlers : pc'[h] = "idle" /\ answer'[h] = "none"
      /\ nonces' = nonces \/ up # up'
  BY DEF Die, Restart, LoseMaps, mapVars, history, AppInv, TypeOK, DownSilent
<1>3. spoiled' \in BOOLEAN /\ (spoiled => spoiled')
  BY DEF SessionTypeOK
<1>4. up # up' /\ client # "start" => spoiled'
  OBVIOUS
<1>5. SessionTypeOK'
  BY <1>1, <1>3 DEF SessionTypeOK, AppInv
<1>6. MakersKept'
  BY <1>2 DEF MakersKept, SessionTypeOK
<1>7. AskedInv'
  BY <1>2 DEF AskedInv, SessionTypeOK
<1>8. SentInv'
  BY <1>2, <1>3, <1>4 DEF SentInv, SessionTypeOK
<1>9. Kept' /\ SolversServed'
  BY <1>3, <1>4 DEF Kept, SolversServed
<1>10. QED
  BY <1>1, <1>5, <1>6, <1>7, <1>8, <1>9

LEMMA HandlerStep ==
  ASSUME SessionInv, NEW h \in Handlers, Handle(h), ~Panic(h),
         spoiled' = (spoiled \/ (client # "start" /\ up # up')),
         UNCHANGED <<client, line, header>>
  PROVE  SessionInv'
<1> USE AppAssumption DEF SessionInv
<1>1. AppInv'
  BY HandleStep
<1>2. /\ pc[h] # "idle" /\ up' = up /\ req' = req
      /\ \A g \in Handlers \ {h} : /\ pc'[g] = pc[g] /\ answer'[g] = answer[g]
                                   /\ nonce'[g] = nonce[g]
      /\ \A g \in Handlers : raced[g] => raced'[g]
      /\ nonces \subseteq nonces'
      /\ \A t \in hashes' \ hashes : t = req[h].payload /\ pc[h] = "StoreHash"
                                     /\ pc'[h] = "IsExistsNonce"
  BY HandlerEffect
<1>3. spoiled' = spoiled
  BY <1>2 DEF SessionTypeOK
<1>4. SessionTypeOK' /\ Kept' /\ SolversServed'
  BY <1>1, <1>2, <1>3 DEF SessionTypeOK, AppInv, Kept, SolversServed
<1>5. line \in Handlers \/ line = None
  BY DEF SessionTypeOK
<1>6. MakersKept'
  <2>1. ASSUME NEW t \in hashes', t.maker = Client
        PROVE  \/ client \in {"served", "failed"}
               \/ client = "sent" /\ pc'[line] \in {"idle", "IsExistsNonce"}
    <3>1. CASE t \in hashes /\ line # h
      BY <1>2, <1>5, <2>1, <3>1 DEF MakersKept, SessionTypeOK
    <3>2. CASE t \in hashes /\ line = h
      <4>1. client = "sent" => IsExistsNonce(h)
        BY <1>2, <2>1, <3>2
           DEF MakersKept, Handle, Unknown, Challenge, NoNonce, Service, StoreNonce, IsExistsHash,
               BeginStore, StoreHash
      <4>2. IsExistsNonce(h) => pc'[h] = "idle"
        BY AnswerMoves, GotoMoves DEF IsExistsNonce, AppInv
      <4>3. QED
        BY <2>1, <3>2, <4>1, <4>2 DEF MakersKept
    <3>3. CASE t \notin hashes
      <4>1. req[h].payload.maker = Client /\ pc[h] = "StoreHash" /\ pc'[h] = "IsExistsNonce"
        BY <1>2, <2>1, <3>3
      <4>2. req[h].type = "service"
        BY <4>1 DEF AppInv, HandlerInv
      <4>3. h = line
        BY <4>1, <4>2 DEF MakersKept
      <4>4. client = "sent"
        BY <4>1, <4>2, <4>3 DEF SessionTypeOK, AskedInv
      <4>5. QED
        BY <4>1, <4>3, <4>4
    <3>4. QED
      BY <3>1, <3>2, <3>3
  <2>2. QED
    BY <1>2, <2>1 DEF MakersKept
<1>7. AskedInv'
  <2>1. CASE line = h /\ client = "asked"
    BY <1>2, <1>3, <2>1, ChallengeEffect DEF AskedInv
  <2>2. CASE line # h \/ client # "asked"
    BY <1>2, <1>3, <1>5, <2>2 DEF AskedInv, SessionTypeOK
  <2>3. QED
    BY <2>1, <2>2
<1>8. SentInv'
  <2>1. CASE line = h /\ client = "sent" /\ ~spoiled
    <3>1. /\ req[h].type = "service" /\ req[h].payload = header
          /\ header.valid /\ header.nonce \in nonces /\ header.maker = Client
      BY <2>1 DEF SentInv
    <3>2. pc[h] = "IsExistsHash" => header \notin hashes
      BY <2>1, <3>1 DEF MakersKept
    <3>3. answer'[h] \in {"none", "quote"} \/ raced'[h]
      BY <3>1, <3>2, ServiceEffect
    <3>4. QED
      BY <1>2, <1>3, <2>1, <3>3 DEF SentInv
  <2>2. CASE line # h \/ client # "sent" \/ spoiled
    BY <1>2, <1>3, <1>5, <2>2 DEF SentInv, SessionTypeOK
  <2>3. QED
    BY <2>1, <2>2
<1>9. QED
  BY <1>1, <1>4, <1>6, <1>7, <1>8

LEMMA SessionNextInv == SessionInv /\ [SessionNext]_allVars => SessionInv'
<1> SUFFICES ASSUME SessionInv, [SessionNext]_allVars PROVE SessionInv'
  OBVIOUS
<1>1. CASE UNCHANGED allVars
  <2>1. AppInv'
    BY <1>1, AppStutters DEF allVars, SessionInv
  <2>2. SessionTypeOK' /\ MakersKept' /\ AskedInv' /\ SentInv' /\ Kept' /\ SolversServed'
    BY <1>1, <2>1
       DEF allVars, vars, mapVars, history, clientVars, SessionInv, AppInv, SessionTypeOK,
           MakersKept, AskedInv, SentInv, Kept, SolversServed
  <2>3. QED
    BY <2>1, <2>2 DEF SessionInv
<1>2. CASE GetService
  BY <1>2, SendStep, ClientStep DEF GetService
<1>3. CASE ServerStep
  BY <1>3, ProcessStep, HandlerStep DEF ServerStep, Crash, Panic
<1>4. CASE \E h \in Handlers, r \in Request : OtherReceive(h, r)
  BY <1>4, OtherReceiveStep
<1>5. QED
  BY <1>1, <1>2, <1>3, <1>4 DEF SessionNext

-----------------------------------------------------------------------------
(* The theorems about Session. *)

\* The invariant holds in every reachable state, whatever the other clients send.
THEOREM SessionInvariance == SessionSpec => []SessionInv
<1>1. QED
  BY SessionInitInv, SessionNextInv, PTL DEF SessionSpec

\* A session with its other clients is a behaviour of the handlers and the storage, so
\* what App promises holds of it.
THEOREM SessionRunsApp == SessionSpec => Spec
<1>1. SessionInit => Init
  BY DEF SessionInit
<1>2. SessionInv /\ [SessionNext]_allVars => [Next]_vars
  BY SessionMapsToApp
<1>3. QED
  BY <1>1, <1>2, SessionInvariance, PTL DEF SessionSpec, Spec

\* A client that solves its challenge in time is given its quote, whatever any number
\* of others send meanwhile: a failure has one of the excuses that spoiled records.
THEOREM SolversCorrect == SessionSpec => []SolversServed
<1>1. SessionInv => SolversServed
  BY DEF SessionInv
<1>2. QED
  BY <1>1, SessionInvariance, PTL

=============================================================================
