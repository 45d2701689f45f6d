-------------------------------- MODULE App --------------------------------
(***************************************************************************)
(* The handler of requests (internal/app/app.go) over the storage in       *)
(* memory (internal/storage/memory).  Server calls Handler from a          *)
(* goroutine per connection; the two maps are not guarded.  An access to   *)
(* a map begins with one step of a handler and ends with another, so that  *)
(* accesses overlap; Go may then stop the process ("concurrent map writes"), lose   *)
(* the entry written, or miss the entry read.                              *)
(*                                                                         *)
(* A token stands for the header sent as proof of work; its hash is        *)
(* identified with it, and valid is what Parser.Parse says of it.          *)
(***************************************************************************)
EXTENDS Naturals, FiniteSets

CONSTANTS
  Handlers,      \* the goroutines that call Handler
  Nonces,        \* bound: the nonces newNonce may draw; it draws none twice
  MaxRestarts,   \* bound: how often the process is started again
  Makers,        \* who computes headers; the random part of one tells who
  None

\* None is a nonce that is never drawn.
Token == [nonce : Nonces \cup {None}, valid : BOOLEAN, maker : Makers]
Request == [type : {"empty", "unknown", "challenge"}, payload : {None}]
             \cup [type : {"service"}, payload : Token]

ASSUME AppAssumption ==
  /\ None \notin Nonces \cup Handlers
  /\ MaxRestarts \in Nat

VARIABLES
  up,          \* the process runs
  restarts,    \* how often it was started again
  pc,          \* where each handler is
  req,         \* the request it handles
  nonce,       \* the nonce it has drawn
  answer,      \* what it has answered last
  nonces,      \* memory.nonce
  hashes,      \* memory.hashes
  drawn,       \* history: the nonces drawn
  issued,      \* history: the nonces this process has drawn
  raced,       \* history: an access of this request overlapped a conflicting one
  spent,       \* history: tokens stored by an access that did not race, in any run
  wasSpent     \* history: the token was in spent when the handler began to look it up

mapVars == <<nonces, hashes>>
history == <<drawn, issued, raced, spent, wasSpent>>
vars == <<up, restarts, pc, req, nonce, answer, mapVars, history>>

Writes == {"StoreNonce", "StoreHash"}
MapOf == [StoreNonce |-> "nonce", IsExistsNonce |-> "nonce",
          StoreHash |-> "hashes", IsExistsHash |-> "hashes"]

TypeOK ==
  /\ up \in BOOLEAN /\ restarts \in 0..MaxRestarts
  /\ pc \in [Handlers -> {"idle", "got", "unused"} \cup DOMAIN MapOf]
  /\ req \in [Handlers -> Request \cup {None}]
  /\ nonce \in [Handlers -> Nonces \cup {None}]
  /\ answer \in [Handlers -> {"none", "error", "challenge", "quote"}]
  /\ nonces \subseteq issued /\ issued \subseteq drawn /\ drawn \subseteq Nonces
  /\ hashes \subseteq {t \in Token : t.valid} /\ spent \subseteq Token
  /\ raced \in [Handlers -> BOOLEAN]
  /\ wasSpent \in [Handlers -> BOOLEAN]
  /\ ~up => pc = [h \in Handlers |-> "idle"]

Init ==
  /\ up = TRUE /\ restarts = 0
  /\ pc = [h \in Handlers |-> "idle"]
  /\ req = [h \in Handlers |-> None]
  /\ nonce = [h \in Handlers |-> None]
  /\ answer = [h \in Handlers |-> "none"]
  /\ nonces = {} /\ hashes = {} /\ drawn = {} /\ issued = {} /\ spent = {}
  /\ raced = [h \in Handlers |-> FALSE]
  /\ wasSpent = [h \in Handlers |-> FALSE]

-----------------------------------------------------------------------------
(* A panic, or an overlap that Go detects, ends the process.  It starts again *)
(* with empty maps.                                                           *)

Die ==
  /\ up' = FALSE
  /\ pc' = [h \in Handlers |-> "idle"]
  /\ answer' = [h \in Handlers |-> "none"]
  /\ UNCHANGED <<restarts, req, nonce, mapVars, history>>

KeepNonces == hashes' = {} /\ UNCHANGED nonces
LoseMaps   == hashes' = {} /\ nonces' = {}

Restart ==
  /\ ~up /\ restarts < MaxRestarts
  /\ up' = TRUE /\ restarts' = restarts + 1
  /\ LoseMaps
  /\ issued' = nonces'
  /\ UNCHANGED <<pc, req, nonce, answer, drawn, raced, spent, wasSpent>>

\* h's access overlaps one to the same map, and one of them writes.
Overlaps(h, g) ==
  /\ {pc[h], pc[g]} \subseteq DOMAIN MapOf
  /\ MapOf[pc[h]] = MapOf[pc[g]]
  /\ pc[h] \in Writes \/ pc[g] \in Writes
Races(h) == \E g \in Handlers \ {h} : Overlaps(h, g)

\* h goes on to label, and so does its history.
Goto(h, label) ==
  /\ pc' = [pc EXCEPT ![h] = label]
  /\ raced' = [g \in Handlers |->
                 raced[g] \/ (g = h /\ Races(h)) \/ (g # h /\ pc[h] \in DOMAIN MapOf /\ Overlaps(g, h))]

Answer(h, what) ==
  /\ Goto(h, "idle")
  /\ answer' = [answer EXCEPT ![h] = what]

-----------------------------------------------------------------------------
(* Handler *)

\* Clients cannot know a nonce before it is drawn.
Receive(h, r) ==
  /\ up /\ pc[h] = "idle"
  /\ r.type = "service" => r.payload.nonce \in drawn \cup {None}
  /\ pc' = [pc EXCEPT ![h] = "got"]
  /\ req' = [req EXCEPT ![h] = r]
  /\ answer' = [answer EXCEPT ![h] = "none"]
  /\ nonce' = [nonce EXCEPT ![h] = None]
  /\ raced' = [raced EXCEPT ![h] = FALSE]
  /\ wasSpent' = [wasSpent EXCEPT ![h] = FALSE]
  /\ UNCHANGED <<up, restarts, mapVars, drawn, issued, spent>>

\* parseRequestBody returns no request, and Handler uses it after writeError.
Panic(h) == pc[h] = "got" /\ req[h].type = "empty" /\ Die

Unknown(h) ==
  /\ pc[h] = "got" /\ req[h].type = "unknown"
  /\ Answer(h, "error")
  /\ UNCHANGED <<up, restarts, req, nonce, mapVars, drawn, issued, spent, wasSpent>>

\* handleChallenge draws a nonce and begins to store it.
Challenge(h) ==
  /\ pc[h] = "got" /\ req[h].type = "challenge"
  /\ \E n \in Nonces \ drawn :
       /\ nonce' = [nonce EXCEPT ![h] = n]
       /\ drawn' = drawn \cup {n} /\ issued' = issued \cup {n}
  /\ Goto(h, "StoreNonce")
  /\ UNCHANGED <<up, restarts, req, answer, mapVars, spent, wasSpent>>

\* No random bytes are to be had.
NoNonce(h) ==
  /\ pc[h] = "got" /\ req[h].type = "challenge"
  /\ Answer(h, "error")
  /\ UNCHANGED <<up, restarts, req, nonce, mapVars, drawn, issued, spent, wasSpent>>

ForgetNonce(h) == UNCHANGED nonces
AddNonce(h) ==
  nonces' \in {nonces \cup {nonce[h]}} \cup (IF Races(h) THEN {nonces} ELSE {})

StoreNonce(h) ==
  /\ pc[h] = "StoreNonce"
  /\ AddNonce(h)
  /\ Answer(h, "challenge")
  /\ UNCHANGED <<up, restarts, req, nonce, hashes, drawn, issued, spent, wasSpent>>

Unverified(h) == TRUE
Verified(h)   == req[h].payload.valid

\* handleService parses the token and begins to look up its hash.
Service(h) ==
  /\ pc[h] = "got" /\ req[h].type = "service"
  /\ IF Verified(h)
     THEN /\ Goto(h, "IsExistsHash")
          /\ wasSpent' = [wasSpent EXCEPT ![h] = req[h].payload \in spent]
          /\ UNCHANGED answer
     ELSE Answer(h, "error") /\ UNCHANGED wasSpent
  /\ UNCHANGED <<up, restarts, req, nonce, mapVars, drawn, issued, spent>>

IsExistsHash(h) ==
  /\ pc[h] = "IsExistsHash"
  /\ \/ req[h].payload \in hashes /\ Answer(h, "error")
     \/ /\ req[h].payload \notin hashes \/ Races(h)
        /\ Goto(h, "unused")
        /\ UNCHANGED answer
  /\ UNCHANGED <<up, restarts, req, nonce, mapVars, drawn, issued, spent, wasSpent>>

\* Between its look-up and its store nothing keeps others with the same token away.
BeginStore(h) ==
  /\ pc[h] = "unused"
  /\ Goto(h, "StoreHash")
  /\ UNCHANGED <<up, restarts, req, nonce, answer, mapVars, drawn, issued, spent, wasSpent>>

\* The nonce is looked up next, in the other map.
StoreHash(h) ==
  /\ pc[h] = "StoreHash"
  /\ hashes' \in {hashes \cup {req[h].payload}} \cup (IF Races(h) THEN {hashes} ELSE {})
  /\ spent' = spent \cup (IF Races(h) \/ raced[h] THEN {} ELSE {req[h].payload})
  /\ Goto(h, "IsExistsNonce")
  /\ UNCHANGED <<up, restarts, req, nonce, answer, nonces, drawn, issued, wasSpent>>

AnyNonce(h) == TRUE
Found(h)    == req[h].payload.nonce \in nonces

IsExistsNonce(h) ==
  /\ pc[h] = "IsExistsNonce"
  /\ \/ Found(h) /\ Answer(h, "quote")
     \/ (~Found(h) \/ Races(h)) /\ Answer(h, "error")
  /\ UNCHANGED <<up, restarts, req, nonce, mapVars, drawn, issued, spent, wasSpent>>

Crash(h) == Races(h) /\ Die

Handle(h) ==
  \/ Panic(h) \/ Unknown(h) \/ Challenge(h) \/ NoNonce(h) \/ Service(h)
  \/ StoreNonce(h) \/ IsExistsHash(h) \/ BeginStore(h) \/ StoreHash(h) \/ IsExistsNonce(h)

Next ==
  \/ Restart
  \/ \E h \in Handlers : Handle(h) \/ Crash(h) \/ \E r \in Request : Receive(h, r)

Spec == Init /\ [][Next]_vars

-----------------------------------------------------------------------------
(* Properties *)

\* A quote is only given for a valid token whose nonce this very process has
\* issued: in no interleaving does a lost or missed entry, or a restart, earn one.
QuotesEarned ==
  \A h \in Handlers : answer[h] = "quote" => req[h].payload.valid /\ req[h].payload.nonce \in issued

\* A token that was stored before a request began to look it up earns no second
\* quote, unless an access of the request raced.  This outlives a restart, which
\* forgets the hashes but with them the nonces.
ReplayRefused ==
  \A h \in Handlers : answer[h] = "quote" /\ ~raced[h] => ~wasSpent[h]

=============================================================================
