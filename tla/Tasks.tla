-------------------------------- MODULE Tasks --------------------------------
(***************************************************************************)
(* The frame in which the pure parts of the program are run: a task is     *)
(* chosen with its input, one step computes the answer, and the invariants *)
(* compare it with reference definitions.                                  *)
(***************************************************************************)
EXTENDS Integers, Sequences, SequencesExt, FiniteSetsExt, Functions

CONSTANTS Ordinal(_),           \* the order of characters
          Folded(_)             \* the lower case of one

VARIABLES task, input, answer,
          done                  \* answer is the answer

taskVars == <<task, input, answer, done>>

Chosen(name) == task = name /\ answer = <<>> /\ done = FALSE

Runs(name) == task = name /\ ~done /\ done' = TRUE /\ UNCHANGED <<task, input>>

Answered(name) == task = name /\ done
=============================================================================
