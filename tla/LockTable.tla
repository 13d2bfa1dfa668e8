------------------------------ MODULE LockTable ------------------------------
(***************************************************************************)
(* The document-lock table: the `locks` array of coordination.json and the *)
(* `locks` vector of a store snapshot have the same rows, and locks.rs     *)
(* runs the same retain/push code over either.  A table is a set of rows;  *)
(* the code's vector order is only seen by `find`, and OneRowPerPath makes *)
(* that row unique.                                                        *)
(***************************************************************************)
EXTENDS Integers

CONSTANTS Path,     \* document paths
          Agent,    \* agent ids
          TTL       \* seconds a lock lives after a grant or a refresh

ASSUME TTLAssumption == TTL \in Nat \ {0}

\* One lock row.  auto marks an index-time lock, which is not a claim.
Row == [path : Path, agent : Agent, until : Int, auto : BOOLEAN]

LockRow(p, a, until, auto) ==
    [path |-> p, agent |-> a, until |-> until, auto |-> auto]

\* The rows of path p that have not expired: at most one (OneRowPerPath).
Live(table, p, now) == {row \in table : row.path = p /\ row.until > now}

\* A live row that refuses another agent's plain acquire.
Claimed(table, p, now) == {row \in Live(table, p, now) : ~row.auto}

\* retain(|lock| lock.path not in paths)
WithoutPaths(table, paths) == {row \in table : row.path \notin paths}

\* retain(|lock| lock.agent != a)
WithoutAgent(table, a) == {row \in table : row.agent # a}

\* Mutant: a renewal counts from the old expiry.
WriteLock_Extends(table, p, a, now) ==
    WithoutPaths(table, {p}) \cup
        IF Live(table, p, now) = {} THEN {LockRow(p, a, now + TTL, FALSE)}
        ELSE {LockRow(p, a, r.until + TTL, FALSE) : r \in Live(table, p, now)}

\* Grant or renew an explicit lock: the old row of the path is replaced.
WriteLock(table, p, a, now) ==
    WithoutPaths(table, {p}) \cup {LockRow(p, a, now + TTL, FALSE)}

\* Index-time locks: every path without a live explicit lock gets one.
HoldAuto(table, paths, a, now) ==
    LET fresh == {p \in paths : Claimed(table, p, now) = {}}
    IN  WithoutPaths(table, fresh)
            \cup {LockRow(p, a, now + TTL, TRUE) : p \in fresh}

\* Drop what has expired.
Reap(table, now) == {row \in table : row.until > now}

\* The invariant of the retain/push pairs above.
OneRowPerPath(table) == \A r, s \in table : r.path = s.path => r = s
===============================================================================
