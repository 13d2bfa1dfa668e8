------------------------------- MODULE MCRecords -------------------------------
EXTENDS Records, TLC

OneToken == [c \in Chunk |-> 1]
OneTopic == {{"notes"}, {"symbols"}, {"sessions"}, {"history"}}
Symmetry == Permutations(Server)
===============================================================================
