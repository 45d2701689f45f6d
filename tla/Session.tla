------------------------------ MODULE Session ------------------------------
(***************************************************************************)
(* getService of cmd/client, on the handler and the storage of App, while  *)
(* other clients send them what they like: a challenge is asked for on one *)
(* connection, a header is computed from it, and sent on another.          *)
(***************************************************************************)
EXTENDS App

CONSTANT Client    \* the maker of this client's header

ASSUME SessionAssumption == Client \in Makers

VARIABLES
  client,     \* where getService is
  line,       \* the handler of the client's connection
  header,     \* what it has computed
  spoiled     \* history: what excuses a failure has happened

clientVars == <<client, line, header, spoiled>>
allVars    == <<vars, clientVars>>

SessionTypeOK ==
  /\ TypeOK
  /\ client \in {"start", "asked", "solved", "sent", "served", "failed"}
  /\ line \in Handlers \cup {None}
  /\ line # None <=> client \in {"asked", "sent"}
  /\ header \in Token \cup {None}
  /\ spoiled \in BOOLEAN

SessionInit ==
  /\ Init
  /\ client = "start" /\ line = None /\ header = None /\ spoiled = FALSE

-----------------------------------------------------------------------------
(* getService *)

Send(h, r, label) ==
  /\ Receive(h, r)
  /\ line' = h
  /\ client' = label
  /\ UNCHANGED <<header, spoiled>>

GetChallenge(h) ==
  client = "start" /\ Send(h, [type |-> "challenge", payload |-> None], "asked")

GetQuote(h) ==
  client = "solved" /\ Send(h, [type |-> "service", payload |-> header], "sent")

Fails ==
  /\ client' = "failed"
  /\ line' = None
  /\ UNCHANGED <<vars, header>>

\* The server is down, or the network does not reach it.
DialFails ==
  /\ client \in {"start", "solved"}
  /\ spoiled' = TRUE
  /\ Fails

\* The process has died with the connection, which ends without an answer.
AnswerLost ==
  /\ line # None /\ pc[line] = "idle" /\ answer[line] = "none"
  /\ spoiled' = TRUE
  /\ Fails

\* Compute finds no solution.
NoSolution ==
  /\ client = "asked" /\ answer[line] # "none"
  /\ spoiled' = TRUE
  /\ Fails

\* The header that is computed is valid when it is sent, or too old by then.  The text
\* of an error is taken for a nonce: the colon in it makes the header one that Parse
\* rejects.
Compute ==
  /\ client = "asked" /\ answer[line] \in {"challenge", "error"}
  /\ \E inTime \in BOOLEAN :
       /\ header' = IF answer[line] = "challenge"
                    THEN [nonce |-> nonce[line], valid |-> inTime, maker |-> Client]
                    ELSE [nonce |-> None, valid |-> FALSE, maker |-> Client]
       /\ spoiled' = (spoiled \/ ~inTime \/ answer[line] = "error" \/ raced[line])
  /\ client' = "solved" /\ line' = None
  /\ UNCHANGED vars

\* A quote is JSON, an error is not.
ReadQuote ==
  /\ client = "sent" /\ answer[line] \in {"quote", "error"}
  /\ client' = IF answer[line] = "quote" THEN "served" ELSE "failed"
  /\ line' = None
  /\ spoiled' = (spoiled \/ raced[line])
  /\ UNCHANGED <<vars, header>>

GetService ==
  \/ \E h \in Handlers : GetChallenge(h) \/ GetQuote(h)
  \/ DialFails \/ AnswerLost \/ NoSolution \/ Compute \/ ReadQuote

-----------------------------------------------------------------------------
(* The server, and its other clients, who cannot make this client's header.  The  *)
(* nonce of a header that does not pass does not matter.                          *)

OtherReceive(h, r) ==
  /\ h # line
  /\ r.type = "service" =>
       /\ r.payload.maker # Client
       /\ r.payload.valid \/ r.payload.nonce = None
  /\ Receive(h, r)
  /\ UNCHANGED clientVars

ServerStep ==
  /\ \/ Restart
     \/ \E h \in Handlers : Handle(h) \/ Crash(h)
  /\ spoiled' = (spoiled \/ (client # "start" /\ up # up'))
  /\ UNCHANGED <<client, line, header>>

SessionNext ==
  \/ GetService \/ ServerStep
  \/ \E h \in Handlers, r \in Request : OtherReceive(h, r)

SessionSpec == SessionInit /\ [][SessionNext]_allVars

-----------------------------------------------------------------------------
(* Properties *)

\* A client that asks for a challenge and solves it in time is given its quote,
\* whatever others send meanwhile, also with the same nonce: it only fails when there
\* were no random bytes for a nonce, when it could not connect or the process has died
\* since it began, or when a map access of its own requests overlapped another's.
SolversServed == client = "failed" => spoiled

=============================================================================
