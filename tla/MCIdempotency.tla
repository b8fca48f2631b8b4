--------------------------- MODULE MCIdempotency ---------------------------
EXTENDS Idempotency

CONSTANTS n1, n2, c1, c2, c3, k1, k2

TheTargets ==
    [c \in {c1, c2, c3} |-> CASE c = c1 -> {<<n1, k1>>}
                              [] c = c2 -> {<<n1, k1>>, <<n1, k2>>}
                              [] c = c3 -> {<<n1, k1>>, <<n2, k1>>}]

BothBackends == BOOLEAN
=============================================================================
