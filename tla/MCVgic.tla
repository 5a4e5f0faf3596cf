------------------------------- MODULE MCVgic -------------------------------
EXTENDS Vgic

CONSTANTS c0, c1, c2, s1, s2, g0, g1, n1, p1

\* The owners of the private interrupts of the instances
OwnerPriv == [i \in Priv |-> IF i = g0 THEN c0 ELSE c1]

\* The bound of the runs whose properties claim nothing after a race
BeforeRace == ~raced
=============================================================================
