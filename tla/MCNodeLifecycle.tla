-------------------------- MODULE MCNodeLifecycle --------------------------
EXTENDS NodeLifecycle

CONSTANTS s1, s2, q1, q2, a1, a2

MCService == {s1, s2}
MCRequest == {q1, q2}
MCAddress == {a1, a2}
MCConfWS == a1
=============================================================================
