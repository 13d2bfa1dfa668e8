---------------------------- MODULE MCCoordination ----------------------------
EXTENDS Coordination, TLC
CONSTANTS s1, s2, w1, w2, a, b
OneHome == [s \in Server |-> w1]
TwoHomes == [s \in Server |-> IF s = s1 THEN w1 ELSE w2]
OneAgent == [s \in Server |-> a]
Agents == [s \in Server |-> IF s = s1 THEN a ELSE b]
===============================================================================
