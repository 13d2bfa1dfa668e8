----------------------------- MODULE ForwardStore -----------------------------
(***************************************************************************)
(* What the snapshot store promises the calls that write to it: a row only *)
(* ever moves to a later write, and a write that was answered with success *)
(* stays until a later write of the same row.  Which process wrote, which  *)
(* copy it had in memory and which step of a save failed do not show.      *)
(***************************************************************************)
EXTENDS Naturals

CONSTANT Row

VARIABLES stored,   \* stored[r]: the latest write of row r in the store
          acked     \* acked[r]: the latest write of r answered with success

Init == /\ stored \in [Row -> Nat]
        /\ acked = [r \in Row |-> 0]

\* A save lands: some rows move forward, together.
Commit == /\ stored' \in [Row -> Nat]
          /\ \A r \in Row : stored'[r] >= stored[r]
          /\ UNCHANGED acked

\* A reply says that a row was written.
Acknowledge == \E r \in Row : \E w \in acked[r]..stored[r] :
    /\ acked' = [acked EXCEPT ![r] = w]
    /\ UNCHANGED stored

Spec == Init /\ [][Commit \/ Acknowledge]_<<stored, acked>>
===============================================================================
