------------------------------- MODULE DocLocks -------------------------------
(***************************************************************************)
(* What the document locks promise when every operation runs alone: each   *)
(* document_lock call, index, removal and clear is one step.  This is the  *)
(* abstract specification Coordination is compared with, where the same    *)
(* operations read and write a file that other processes write too.        *)
(*                                                                         *)
(* A worktree keeps a copy of the table and of the conflict log in its own *)
(* snapshot; with a git directory the coordination file holds the table    *)
(* and the log every worktree reads.                                       *)
(***************************************************************************)
EXTENDS LockTable

CONSTANTS Worktree,     \* checkouts, each with its own store
          Coordinated,  \* coordination_dir() found a git directory
          MaxTime       \* bound: the clock stops here

\* Without a git directory every root is a system of its own.
ASSUME CoordinationAssumption ==
    /\ Coordinated \in BOOLEAN
    /\ ~Coordinated => \A v, w \in Worktree : v = w
ASSUME MaxTimeAssumption == MaxTime \in Nat

VARIABLES now,       \* wall-clock seconds
          shared,    \* lock table of coordination.json
          sharedLog, \* its conflict log
          local,     \* lock table in each worktree's snapshot
          localLog,  \* conflict log in each worktree's snapshot
          claim,     \* history: until when each agent was last told it holds
                     \* a path (0: told nothing, refused, or released)
          lost       \* history: locks that went with their document, or with
                     \* the store, where no coordination file keeps them

tables == <<shared, local>>
logs == <<sharedLog, localLog>>
vars == <<now, tables, logs, claim, lost>>

\* One lock_stolen row.
Conflict == [path : Path, holder : Agent, requester : Agent, at : Int]

\* What worktree w consults: the coordination file when there is one, and
\* never the snapshot's copy then, which may still name the agent robbed.
Table(w) == IF Coordinated THEN shared ELSE local[w]
Log(w) == IF Coordinated THEN sharedLog ELSE localLog[w]

\* Mutant: an index-time lock of another agent counts as a claim.
Blocking_AutoCounts(w, p, a) == {r \in Live(Table(w), p, now) : r.agent # a}

\* The explicit live locks of others that stand in the way of a.
Blocking(w, p, a) == {r \in Claimed(Table(w), p, now) : r.agent # a}

\* The history of what agents were told.
Told(p, a, until) == /\ claim' = [claim EXCEPT ![p][a] = until]
                     /\ UNCHANGED lost

\* The history of locks nobody was told of losing.
Dropped(rows) == lost' = IF Coordinated THEN lost ELSE lost \cup rows

Init == /\ now = 1
        /\ shared = {}
        /\ sharedLog = {}
        /\ local = [w \in Worktree |-> {}]
        /\ localLog = [w \in Worktree |-> {}]
        /\ claim = [p \in Path |-> [a \in Agent |-> 0]]
        /\ lost = {}

-------------------------------------------------------------------------------
\* document_lock.  Both copies of the table change the same way.

\* The rows a forced acquire logs.
Steals(rows, a) ==
    {[path |-> r.path, holder |-> r.agent, requester |-> a, at |-> now]
        : r \in rows}

RecordConflict(w, rows, a) ==
    IF Coordinated
    THEN /\ sharedLog' = sharedLog \cup Steals(rows, a)
         /\ UNCHANGED localLog
    ELSE /\ localLog' = [localLog EXCEPT ![w] = @ \cup Steals(rows, a)]
         /\ UNCHANGED sharedLog

Grant(w, p, a) ==
    /\ local' = [local EXCEPT ![w] = WriteLock(@, p, a, now)]
    /\ shared' = IF Coordinated THEN WriteLock(shared, p, a, now) ELSE shared
    /\ Told(p, a, now + TTL)
    /\ UNCHANGED now

\* Mutant: only the snapshot's copy is released.
Remove_LocalOnly(w, p) ==
    /\ local' = [local EXCEPT ![w] = WithoutPaths(@, {p})]
    /\ UNCHANGED shared

Remove(w, p) ==
    /\ local' = [local EXCEPT ![w] = WithoutPaths(@, {p})]
    /\ shared' = IF Coordinated THEN WithoutPaths(shared, {p}) ELSE shared

\* Mutant: a lock that somebody holds is granted without force.
Acquire_Unforced(w, p, a, force) ==
    /\ RecordConflict(w, IF force THEN Blocking(w, p, a) ELSE {}, a)
    /\ Grant(w, p, a)

\* Granted; the lock of another agent is stolen only with force, and logged.
Acquire(w, p, a, force) ==
    /\ force \/ Blocking(w, p, a) = {}
    /\ RecordConflict(w, Blocking(w, p, a), a)
    /\ Grant(w, p, a)

Refused(w, p, a) ==
    /\ Blocking(w, p, a) # {}
    /\ Told(p, a, 0)
    /\ UNCHANGED <<now, tables, logs>>

\* The live holder renews; an index-time lock of its own becomes explicit.
Refresh(w, p, a) ==
    /\ \E r \in Live(Table(w), p, now) : r.agent = a
    /\ Grant(w, p, a)
    /\ UNCHANGED logs

NotRefreshed(w, p, a) ==
    /\ \A r \in Live(Table(w), p, now) : r.agent # a
    /\ Told(p, a, 0)
    /\ UNCHANGED <<now, tables, logs>>

\* Anyone may drop an index-time lock, only the holder an explicit one.
Release(w, p, a) ==
    /\ Live(Table(w), p, now) # {}
    /\ Blocking(w, p, a) = {}
    /\ Remove(w, p)
    /\ Told(p, a, 0)
    /\ UNCHANGED <<now, logs>>

\* not_locked (an expired row stays where it is) and not_owner.
NotReleased(w, p, a) ==
    /\ Live(Table(w), p, now) = {} \/ Blocking(w, p, a) # {}
    /\ Told(p, a, 0)
    /\ UNCHANGED <<now, tables, logs>>

ReleaseAll(w, a) ==
    /\ local' = [local EXCEPT ![w] = WithoutAgent(@, a)]
    /\ shared' = IF Coordinated THEN WithoutAgent(shared, a) ELSE shared
    /\ claim' = [p \in Path |-> [claim[p] EXCEPT ![a] = 0]]
    /\ UNCHANGED <<now, logs, lost>>

ReapExpired(w) ==
    /\ local' = [local EXCEPT ![w] = Reap(@, now)]
    /\ shared' = IF Coordinated THEN Reap(shared, now) ELSE shared
    /\ UNCHANGED <<now, logs, claim, lost>>

-------------------------------------------------------------------------------
\* The engine's own use of the table.

\* index locks what it indexed for the server's agent: in the coordination
\* file, or in the snapshot when there is no git directory.
IndexLocks(w, a, paths) ==
    /\ IF Coordinated
       THEN shared' = HoldAuto(shared, paths, a, now) /\ UNCHANGED local
       ELSE /\ local' = [local EXCEPT ![w] = HoldAuto(@, paths, a, now)]
            /\ UNCHANGED shared
    /\ UNCHANGED <<now, logs, claim, lost>>

\* remove, and detect on a file that is gone: the document row goes and the
\* snapshot's lock with it, whoever holds it and without a word to anyone.  The
\* coordination file's lock stays.
DropDocument(w, p) ==
    /\ local' = [local EXCEPT ![w] = WithoutPaths(@, {p})]
    /\ Dropped(Claimed(local[w], p, now))
    /\ UNCHANGED <<now, shared, logs, claim>>

\* What agents were promised and still count on.
Promises ==
    {r \in UNION {{LockRow(p, a, claim[p][a], FALSE) : a \in Agent} : p \in Path} :
        r.until > now}

\* clear empties the snapshot, with the locks of every agent and the conflict
\* log that named the robbed; the coordination file stays.
Clear(w) ==
    /\ local' = [local EXCEPT ![w] = {}]
    /\ localLog' = [localLog EXCEPT ![w] = {}]
    /\ Dropped(Promises)
    /\ UNCHANGED <<now, shared, sharedLog, claim>>

Tick == /\ now < MaxTime
        /\ now' = now + 1
        /\ UNCHANGED <<tables, logs, claim, lost>>

LockCall(w, p, a) ==
    \/ \E force \in BOOLEAN : Acquire(w, p, a, force)
    \/ Refused(w, p, a)
    \/ Refresh(w, p, a)
    \/ NotRefreshed(w, p, a)
    \/ Release(w, p, a)
    \/ NotReleased(w, p, a)

Next ==
    \/ \E w \in Worktree, p \in Path, a \in Agent : LockCall(w, p, a)
    \/ \E w \in Worktree, a \in Agent : ReleaseAll(w, a)
    \/ \E w \in Worktree : ReapExpired(w)
    \/ \E w \in Worktree, a \in Agent, paths \in (SUBSET Path) \ {{}} :
            IndexLocks(w, a, paths)
    \/ \E w \in Worktree, p \in Path : DropDocument(w, p)
    \/ \E w \in Worktree : Clear(w)
    \/ Tick

Spec == Init /\ [][Next]_vars

-------------------------------------------------------------------------------
\* A lock expires at most TTL after the present unless it is renewed.
ExpiresInTime(table) == \A r \in table : r.until <= now + TTL

\* The types of the state, and no lock row outlives the TTL.
TypeOK ==
    /\ now \in Nat
    /\ shared \subseteq Row /\ sharedLog \subseteq Conflict
    /\ local \in [Worktree -> SUBSET Row]
    /\ localLog \in [Worktree -> SUBSET Conflict]
    /\ claim \in [Path -> [Agent -> Nat]]
    /\ lost \subseteq Row
    /\ ExpiresInTime(shared) /\ \A w \in Worktree : ExpiresInTime(local[w])

\* Each table has one row per path, so `find` has one answer.
UniqueRows == OneRowPerPath(shared) /\ \A w \in Worktree : OneRowPerPath(local[w])

\* w's table holds the explicit lock a was promised.
Holds(w, p, a) ==
    \E r \in Table(w) : r = LockRow(p, a, claim[p][a], FALSE)

\* The conflict log says that a lost the lock it was promised.
Robbed(w, p, a) ==
    \E c \in Log(w) : c.path = p /\ c.holder = a /\ c.at + TTL >= claim[p][a]

\* The lock a was promised went silently.  It takes a store without a
\* coordination file, where remove, a file that is gone and clear drop the
\* locks of every agent.
Bereft(p, a) == ~Coordinated /\ LockRow(p, a, claim[p][a], FALSE) \in lost

\* An agent told that it holds a path holds it until it expires, or the
\* conflict log names it as robbed: no index, reap, release by another agent or
\* acquire drops a claim behind its owner's back, and with a git directory no
\* removal or clear either.  Without one they do, and only they.
ClaimBacked ==
    \A w \in Worktree, p \in Path, a \in Agent :
        claim[p][a] > now => Holds(w, p, a) \/ Robbed(w, p, a) \/ Bereft(p, a)

\* A live explicit lock stands for an agent that was told exactly that: a
\* table never blocks others for an agent that has been refused or released.
HolderKnows ==
    \A w \in Worktree, p \in Path : \A r \in Claimed(Table(w), p, now) :
        claim[p][r.agent] = r.until

\* Two agents never both believe they hold a path unless the log says that
\* one of them was robbed, or, without a coordination file, a removal or a
\* clear dropped the lock of one of them.
MutualExclusion ==
    \A w \in Worktree, p \in Path, a, b \in Agent :
        a # b /\ claim[p][a] > now /\ claim[p][b] > now
            => \E c \in {a, b} : Robbed(w, p, c) \/ Bereft(p, c)

\* The step took over the live claims it logged.
LogsTakeovers ==
    \A w \in Worktree : \A c \in Log(w)' \ Log(w) :
        /\ claim[c.path][c.holder] > now
        /\ \E r \in Table(w)' : r.path = c.path /\ r.agent = c.requester
                                    /\ ~r.auto /\ r.until > now

\* A conflict row is written only when a live claim is really taken over by
\* the requester: taking over an index-time or expired lock logs nothing.
LogTruthful == [][LogsTakeovers]_vars
===============================================================================
