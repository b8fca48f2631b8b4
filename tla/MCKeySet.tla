------------------------------ MODULE MCKeySet ------------------------------
EXTENDS KeySet

CONSTANTS r1, r2, c1, c2, c3

OneHome == [c \in Callers |-> r1]
TwoHomes == [c \in Callers |-> IF c = c1 THEN r1 ELSE r2]

BothDurabilities == BOOLEAN
OnlyDurable == {TRUE}
=============================================================================
