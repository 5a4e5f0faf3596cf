----------------------------- MODULE MCHvEvent -----------------------------
EXTENDS HvEvent

CONSTANTS c0, s0, s1, s2, off, stop
=============================================================================
