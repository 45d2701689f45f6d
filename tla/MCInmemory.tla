----------------------------- MODULE MCInmemory -----------------------------
\* On p1 the client writes twice and the server reads, both with deadlines; p2 is
\* only dialed and accepted.
EXTENDS InmemoryListener

CONSTANTS p1, p2

MCReadSizes(e) == IF e = <<p1, 2>> THEN {1, 3} ELSE {}
MCWrites(e) == IF e = <<p1, 1>> THEN 2 ELSE 0
MCDeadlineEnds == {<<<<p1, 1>>, "write">>, <<<<p1, 2>>, "read">>}

=============================================================================
