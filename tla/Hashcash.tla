------------------------------ MODULE Hashcash ------------------------------
(***************************************************************************)
(* The proof of work of internal/hashcash: a HashCash whose Compute is     *)
(* called, also again after it has failed, and a parser that checks the    *)
(* headers it and others make, while time passes and the server restarts.  *)
(*                                                                         *)
(* The hash of a header is the number of its leading zero bits, chosen for *)
(* every counter when the HashCash is made.  Time is counted in units of   *)
(* which Day make a day.                                                   *)
(***************************************************************************)
EXTENDS Integers

CONSTANTS
  MaxIterations,   \* maxIterations, 2^30 in the code
  MaxCounter,      \* bound: the largest counter tried
  BitsOffered,     \* what WithBits is given
  ParserBits,      \* DefaultParserConfig.Bits
  ZeroBits,        \* bound: how many leading zero bits a hash may have
  Day, Past, Future,   \* DefaultParserConfig.Expired and .Future, from the start
  Zones,           \* by how much the client's local time is ahead of UTC
  MaxTime,         \* bound: how long time passes
  None

Time == 0..MaxTime
HashCash == [bits : BitsOffered, created : Time, counter : 1..MaxCounter]

ASSUME HashcashAssumption ==
  /\ MaxIterations \in Nat \ {0} /\ MaxCounter \in Nat /\ MaxIterations <= MaxCounter
  /\ BitsOffered \subseteq Nat /\ ParserBits \in Nat /\ ZeroBits \subseteq Nat
  /\ Day \in Nat \ {0} /\ {Past, Future, MaxTime} \subseteq Nat
  /\ Zones \subseteq Int
  /\ None \notin HashCash

Min0(a, b) == IF a < b THEN a ELSE b

\* A header as the parser sees it: how many parts, the zero bits of its hash, and
\* its date, of some length and valid or not.
Header == [parts : {6, 7}, zeros : ZeroBits, length : {6, 8, 10, 12},
           date : Time, valid : BOOLEAN]

VARIABLES
  now,       \* the time
  window,    \* expired and future of the parser made when the process started
  zone,      \* the client's zone
  hc,        \* the client's HashCash
  digest,    \* the zero bits of the hash of hc's header, for each counter
  proof      \* the counter of what Compute returned last; 0 for ErrSolutionFail

clientVars == <<zone, hc, digest, proof>>
vars == <<now, window, clientVars>>

TypeOK ==
  /\ now \in Time
  /\ window \in [expired : Int, future : Int] /\ window.expired <= now - Past
  /\ zone \in Zones
  /\ hc \in HashCash \cup {None}
  /\ digest \in [1..MaxCounter -> ZeroBits]
  /\ proof \in 0..MaxCounter

WindowAhead(t) == [expired |-> t + Past, future |-> t + Future]
Window(t) == [expired |-> t - Past, future |-> t + Future]

Init ==
  /\ now = 0
  /\ window = Window(0)
  /\ zone \in Zones
  /\ hc = None /\ proof = 0
  /\ digest \in [1..MaxCounter -> ZeroBits]

Tick ==
  /\ now < MaxTime
  /\ now' = now + 1
  /\ UNCHANGED <<window, clientVars>>

\* DefaultParserConfig is made when the process starts.
Restart ==
  /\ window' = Window(now)
  /\ UNCHANGED <<now, clientVars>>

-----------------------------------------------------------------------------
(* HashCash *)

New(bits) ==
  /\ hc = None
  /\ hc' = [bits |-> bits, created |-> now, counter |-> 1]
  /\ UNCHANGED <<now, window, zone, digest, proof>>

\* acceptableHeader compares hex digits, of four bits each.
WantZeros(bits) == bits \div 4
Acceptable(zeros, bits) == zeros \div 4 >= WantZeros(bits)

SkipFirst ==
  LET end[c \in 1..MaxCounter] ==
        IF Acceptable(digest[c], hc.bits) THEN [counter |-> c, found |-> TRUE]
        ELSE IF c + 1 >= MaxIterations THEN [counter |-> c + 1, found |-> FALSE]
        ELSE end[c + 1]
  IN end[Min0(hc.counter + 1, MaxIterations)]

\* Where the loop of Compute ends: with a counter that solves, or past one that
\* does not when the next one is maxIterations.
Loop ==
  LET end[c \in 1..MaxCounter] ==
        IF Acceptable(digest[c], hc.bits) THEN [counter |-> c, found |-> TRUE]
        ELSE IF c + 1 >= MaxIterations THEN [counter |-> c + 1, found |-> FALSE]
        ELSE end[c + 1]
  IN end[hc.counter]

Compute ==
  /\ hc # None /\ hc.counter < MaxCounter
  /\ hc' = [hc EXCEPT !.counter = Loop.counter]
  /\ proof' = IF Loop.found THEN Loop.counter ELSE 0
  /\ UNCHANGED <<now, window, zone, digest>>

-----------------------------------------------------------------------------
(* parser *)

ZeroTime == -1000 * Day    \* time.Time{}, long before anything else

\* A date without hours is midnight; a length that is none of the three gives the
\* zero time and no error.
Midnight(t) == t - (t % Day)
HashcashTime(h) ==
  IF h.length \notin {6, 10, 12} THEN ZeroTime ELSE IF h.length = 6 THEN Midnight(h.date) ELSE h.date
DateFails(h) == h.length \in {6, 10, 12} /\ ~h.valid

EdgeOutside(t)   == t >= window.future \/ t <= window.expired
FutureIgnored(t) == t < window.expired
Outside(t) == t > window.future \/ t < window.expired

\* The error that Parse returns.
Verdict(h) ==
  IF h.parts # 7 THEN "ErrInvalidHeader"
  ELSE IF ~Acceptable(h.zeros, ParserBits) THEN "ErrNoCollision"
  ELSE IF DateFails(h) THEN "time.ParseError"
  ELSE IF Outside(HashcashTime(h)) THEN "ErrExpiredTimestamp"
  ELSE "ok"

\* createHeader writes local time, in full, which the parser takes for UTC.
OwnHeader == [parts |-> 7, zeros |-> digest[proof], length |-> 12,
              date |-> hc.created + zone, valid |-> TRUE]

Next ==
  \/ Tick \/ Restart \/ Compute
  \/ \E bits \in BitsOffered : New(bits)

Spec == Init /\ [][Next]_vars

-----------------------------------------------------------------------------
(* Properties *)

\* The proof that Compute returns is the first counter that solves, of all: calls
\* that failed have skipped none, though each leaves its last hash untested.
FirstSolution ==
  proof # 0 =>
    /\ Acceptable(digest[proof], hc.bits)
    /\ \A c \in 1..proof - 1 : ~Acceptable(digest[c], hc.bits)

\* The server accepts the client's own proof, made for as many bits as it asks, if
\* by the client's local time it is not older than Past, nor made later than Future
\* after the server was first started; also when the server has restarted since.
OwnProofAccepted ==
  proof # 0 /\ hc.bits >= ParserBits
    /\ now - OwnHeader.date <= Past /\ OwnHeader.date <= Future =>
  Verdict(OwnHeader) = "ok"

\* No header is accepted whose date is further ahead of the clock than Future, for
\* however long the process has been up.
NoneFromFuture ==
  \A h \in Header : Verdict(h) = "ok" => HashcashTime(h) <= now + Future

\* "Future hashcash in the future that should be rejected" (config.go:32): one whose
\* date is not in the future, nor old, is not rejected for its date.  The code
\* rejects it once the process has been up for longer than Future.
FreshNotExpired ==
  \A h \in Header :
    h.length = 12 /\ h.date \in (now - Past)..now => Verdict(h) # "ErrExpiredTimestamp"

=============================================================================
