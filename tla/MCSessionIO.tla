---------------------------- MODULE MCSessionIO ----------------------------
EXTENDS SessionIO

CONSTANTS s1, s2

\* Two requests of one client, one of the other.
TwoAndOne == [s \in Session |-> IF s = s1 THEN 2 ELSE 1]

OneAndNone == [s \in Session |-> IF s = s1 THEN 1 ELSE 0]

\* An answer to a request, and a batch of about 30 offline messages of 1 kB.
Batch == {1, 2^15 - 4}
=============================================================================
