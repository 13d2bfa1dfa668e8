---------------------------- MODULE DocLocks_proofs ----------------------------
(***************************************************************************)
(* DocLocks, for every set of agents, paths and worktrees, with and without*)
(* a git directory: the types, one row per path, and in which ways an      *)
(* agent can lose a lock it was promised: the conflict log says so, or     *)
(* nobody keeps a coordination file and the document went.                 *)
(***************************************************************************)
EXTENDS DocLocks, TLAPS

USE TTLAssumption, CoordinationAssumption DEF TTLAssumption, CoordinationAssumption

\* What the operations on one table keep, whatever table they are given.
TableOK(table, t) ==
    /\ table \subseteq Row
    /\ \A r \in table : r.until <= t + TTL
    /\ OneRowPerPath(table)

\* Granting a lock keeps a table well formed.
LEMMA WriteLockOK ==
    ASSUME NEW table, NEW p \in Path, NEW a \in Agent, NEW t \in Nat,
           TableOK(table, t)
    PROVE  TableOK(WriteLock(table, p, a, t), t)
  <1> DEFINE new == LockRow(p, a, t + TTL, FALSE)
  <1>1. /\ new \in Row
        /\ new.path = p /\ new.until <= t + TTL
    BY DEF LockRow, Row
  <1> HIDE DEF new
  <1>2. \A r \in WithoutPaths(table, {p}) : r \in table /\ r.path # p
    BY DEF WithoutPaths
  <1>3. WriteLock(table, p, a, t) = WithoutPaths(table, {p}) \cup {new}
    BY DEF WriteLock, new
  <1>4. QED
    BY <1>1, <1>2, <1>3 DEF TableOK, OneRowPerPath

\* Index-time locks keep a table well formed.
LEMMA HoldAutoOK ==
    ASSUME NEW table, NEW paths \in SUBSET Path, NEW a \in Agent, NEW t \in Nat,
           TableOK(table, t)
    PROVE  TableOK(HoldAuto(table, paths, a, t), t)
  <1> DEFINE fresh == {p \in paths : Claimed(table, p, t) = {}}
             new == {LockRow(p, a, t + TTL, TRUE) : p \in fresh}
  <1>1. \A r \in new : /\ r \in Row /\ r.path \in fresh /\ r.until <= t + TTL
                       /\ r = LockRow(r.path, a, t + TTL, TRUE)
    <2> TAKE r \in new
    <2>1. PICK p \in fresh : r = LockRow(p, a, t + TTL, TRUE)
      OBVIOUS
    <2>2. p \in Path
      OBVIOUS
    <2> HIDE DEF fresh, new
    <2>3. r = [path |-> p, agent |-> a, until |-> t + TTL, auto |-> TRUE]
      BY <2>1 DEF LockRow
    <2>4. r.path = p /\ r.until = t + TTL /\ r \in Row
      BY <2>2, <2>3 DEF Row
    <2>5. r.until <= t + TTL
      BY <2>4
    <2>6. r.path \in fresh /\ r = LockRow(r.path, a, t + TTL, TRUE)
      BY <2>1, <2>4, Zenon
    <2>7. QED
      BY <2>4, <2>5, <2>6
  <1>2. \A r, s \in new : r.path = s.path => r = s
    BY <1>1
  <1>3. \A r \in WithoutPaths(table, fresh) : r \in table /\ r.path \notin fresh
    BY DEF WithoutPaths
  <1>4. HoldAuto(table, paths, a, t) = WithoutPaths(table, fresh) \cup new
    BY DEF HoldAuto
  <1> HIDE DEF new, fresh
  <1>5. QED
    BY <1>1, <1>2, <1>3, <1>4 DEF TableOK, OneRowPerPath

\* Dropping rows keeps a table well formed.
LEMMA SubTableOK ==
    ASSUME NEW table, NEW sub \in SUBSET table, NEW t \in Nat, TableOK(table, t)
    PROVE  TableOK(sub, t)
  BY DEF TableOK, OneRowPerPath

\* The later the clock, the weaker the expiry bound.
LEMMA TickOK ==
    ASSUME NEW table, NEW t \in Nat, TableOK(table, t)
    PROVE  TableOK(table, t + 1)
  BY DEF TableOK, OneRowPerPath, Row

\* The state is well typed and both kinds of table are well formed.
Typed ==
    /\ now \in Nat
    /\ TableOK(shared, now)
    /\ local \in [Worktree -> SUBSET Row]
    /\ \A w \in Worktree : TableOK(local[w], now)
    /\ sharedLog \subseteq Conflict
    /\ localLog \in [Worktree -> SUBSET Conflict]
    /\ claim \in [Path -> [Agent -> Nat]]
    /\ lost \subseteq Row

\* The typing invariant is the two invariants the runs check.
LEMMA TypedMeans == Typed <=> TypeOK /\ UniqueRows
  BY DEF Typed, TableOK, TypeOK, UniqueRows, ExpiresInTime

\* It holds of the empty tables.
LEMMA TypedInit == Init => Typed
  BY DEF Init, Typed, TableOK, OneRowPerPath

\* A forced acquire logs well-typed rows.
LEMMA RecordConflictTyped ==
    ASSUME Typed, NEW w \in Worktree, NEW p \in Path, NEW a \in Agent,
           RecordConflict(w, Blocking(w, p, a), a)
    PROVE  sharedLog' \subseteq Conflict /\ localLog' \in [Worktree -> SUBSET Conflict]
  <1>1. Table(w) \subseteq Row
    BY DEF Typed, Table, TableOK
  <1>2. Steals(Blocking(w, p, a), a) \subseteq Conflict
    BY <1>1 DEF Steals, Blocking, Claimed, Live, Conflict, Row, Typed
  <1> HIDE DEF Steals
  <1>3. QED
    BY <1>2 DEF RecordConflict, Typed

\* A grant writes one row in the snapshot and, with git, in the file.
LEMMA GrantTyped ==
    ASSUME Typed, NEW w \in Worktree, NEW p \in Path, NEW a \in Agent,
           Grant(w, p, a)
    PROVE  /\ now' \in Nat /\ TableOK(shared', now')
           /\ local' \in [Worktree -> SUBSET Row]
           /\ \A v \in Worktree : TableOK(local'[v], now')
           /\ claim' \in [Path -> [Agent -> Nat]] /\ lost' \subseteq Row
  <1>1. TableOK(WriteLock(shared, p, a, now), now)
    BY WriteLockOK DEF Typed
  <1>2. TableOK(WriteLock(local[w], p, a, now), now)
    BY WriteLockOK DEF Typed
  <1>3. WriteLock(local[w], p, a, now) \subseteq Row
    BY <1>2 DEF TableOK
  <1>4. claim' \in [Path -> [Agent -> Nat]] /\ lost' \subseteq Row
    BY DEF Grant, Told, Typed
  <1> QED
    BY <1>1, <1>2, <1>3, <1>4 DEF Grant, Typed

\* Taking rows out of the tables, whichever they are, keeps the types.
LEMMA ShrinkTyped ==
    ASSUME Typed, now' = now,
           shared' \subseteq shared,
           local' \in [Worktree -> SUBSET Row],
           \A v \in Worktree : local'[v] \subseteq local[v]
    PROVE  /\ now' \in Nat /\ TableOK(shared', now')
           /\ \A v \in Worktree : TableOK(local'[v], now')
  BY SubTableOK DEF Typed

\* What agents count on, as lock rows.
LEMMA PromisesTyped ==
    ASSUME Typed
    PROVE  /\ Promises \subseteq Row
           /\ \A p \in Path, a \in Agent :
                claim[p][a] > now => LockRow(p, a, claim[p][a], FALSE) \in Promises
  <1>1. ASSUME NEW p \in Path, NEW a \in Agent
        PROVE  LockRow(p, a, claim[p][a], FALSE) \in Row
    <2>1. claim[p][a] \in Int
      BY DEF Typed
    <2>2. QED
      BY <2>1 DEF LockRow, Row
  <1>2. ASSUME NEW p \in Path, NEW a \in Agent, claim[p][a] > now
        PROVE  LockRow(p, a, claim[p][a], FALSE) \in Promises
    <2>1. LockRow(p, a, claim[p][a], FALSE).until = claim[p][a]
      BY DEF LockRow
    <2>2. LockRow(p, a, claim[p][a], FALSE)
            \in UNION {{LockRow(q, b, claim[q][b], FALSE) : b \in Agent} : q \in Path}
      <3> DEFINE of(q) == {LockRow(q, b, claim[q][b], FALSE) : b \in Agent}
      <3>1. LockRow(p, a, claim[p][a], FALSE) \in of(p)
        OBVIOUS
      <3> HIDE DEF of
      <3>2. LockRow(p, a, claim[p][a], FALSE) \in UNION {of(q) : q \in Path}
        BY <3>1
      <3>3. QED
        BY <3>2 DEF of
    <2>3. QED
      BY <1>2, <2>1, <2>2 DEF Promises
  <1>3. \A r \in Promises : \E p \in Path, a \in Agent :
            r = LockRow(p, a, claim[p][a], FALSE)
    BY DEF Promises
  <1>4. QED
    BY <1>1, <1>2, <1>3

\* Every step keeps the types: grants write one row, everything else but an
\* index and the clock only takes rows out.
LEMMA TypedStep ==
    ASSUME Typed, [Next]_vars
    PROVE  Typed'
  <1>1. ASSUME NEW w \in Worktree, NEW p \in Path, NEW a \in Agent,
               LockCall(w, p, a)
        PROVE  Typed'
    <2>1. ASSUME NEW force \in BOOLEAN, Acquire(w, p, a, force)
          PROVE  Typed'
      BY <2>1, GrantTyped, RecordConflictTyped DEF Acquire, Typed
    <2>2. CASE Refused(w, p, a)
      BY <2>2 DEF Refused, Told, Typed, tables, logs
    <2>3. CASE Refresh(w, p, a)
      BY <2>3, GrantTyped DEF Refresh, Typed, logs
    <2>4. CASE NotRefreshed(w, p, a)
      BY <2>4 DEF NotRefreshed, Told, Typed, tables, logs
    <2>5. CASE Release(w, p, a)
      <3>1. /\ shared' \subseteq shared
            /\ local' \in [Worktree -> SUBSET Row]
            /\ \A v \in Worktree : local'[v] \subseteq local[v]
        BY <2>5 DEF Release, Remove, WithoutPaths, Typed
      <3>2. claim' \in [Path -> [Agent -> Nat]] /\ lost' \subseteq Row
        BY <2>5 DEF Release, Told, Typed
      <3>3. QED
        BY <2>5, <3>1, <3>2, ShrinkTyped DEF Release, Typed, logs
    <2>6. CASE NotReleased(w, p, a)
      BY <2>6 DEF NotReleased, Told, Typed, tables, logs
    <2>7. QED
      BY <1>1, <2>1, <2>2, <2>3, <2>4, <2>5, <2>6 DEF LockCall
  <1>2. ASSUME NEW w \in Worktree, NEW a \in Agent, ReleaseAll(w, a)
        PROVE  Typed'
    <2>1. /\ shared' \subseteq shared
          /\ local' \in [Worktree -> SUBSET Row]
          /\ \A v \in Worktree : local'[v] \subseteq local[v]
      BY <1>2 DEF ReleaseAll, WithoutAgent, Typed
    <2>2. claim' \in [Path -> [Agent -> Nat]]
      BY <1>2 DEF ReleaseAll, Typed
    <2>3. QED
      BY <1>2, <2>1, <2>2, ShrinkTyped DEF ReleaseAll, Typed, logs
  <1>3. ASSUME NEW w \in Worktree, ReapExpired(w)
        PROVE  Typed'
    <2>1. /\ shared' \subseteq shared
          /\ local' \in [Worktree -> SUBSET Row]
          /\ \A v \in Worktree : local'[v] \subseteq local[v]
      BY <1>3 DEF ReapExpired, Reap, Typed
    <2>2. QED
      BY <1>3, <2>1, ShrinkTyped DEF ReapExpired, Typed, logs
  <1>4. ASSUME NEW w \in Worktree, NEW a \in Agent,
               NEW paths \in (SUBSET Path) \ {{}}, IndexLocks(w, a, paths)
        PROVE  Typed'
    <2>1. TableOK(HoldAuto(shared, paths, a, now), now)
      BY HoldAutoOK DEF Typed
    <2>2. TableOK(HoldAuto(local[w], paths, a, now), now)
      BY HoldAutoOK DEF Typed
    <2>3. HoldAuto(local[w], paths, a, now) \subseteq Row
      BY <2>2 DEF TableOK
    <2>4. QED
      BY <1>4, <2>1, <2>2, <2>3 DEF IndexLocks, Typed, logs
  <1>5. ASSUME NEW w \in Worktree, NEW p \in Path, DropDocument(w, p)
        PROVE  Typed'
    <2>1. /\ shared' \subseteq shared
          /\ local' \in [Worktree -> SUBSET Row]
          /\ \A v \in Worktree : local'[v] \subseteq local[v]
      BY <1>5 DEF DropDocument, WithoutPaths, Typed
    <2>2. claim' \in [Path -> [Agent -> Nat]] /\ lost' \subseteq Row
      <3>1. Claimed(local[w], p, now) \subseteq Row
        BY DEF Claimed, Live, Typed
      <3>2. QED
        BY <1>5, <3>1 DEF DropDocument, Dropped, Typed
    <2>3. QED
      BY <1>5, <2>1, <2>2, ShrinkTyped DEF DropDocument, Typed, logs
  <1>6. ASSUME NEW w \in Worktree, Clear(w)
        PROVE  Typed'
    <2>1. /\ shared' \subseteq shared
          /\ local' \in [Worktree -> SUBSET Row]
          /\ \A v \in Worktree : local'[v] \subseteq local[v]
      BY <1>6 DEF Clear, Typed
    <2>2. claim' \in [Path -> [Agent -> Nat]] /\ lost' \subseteq Row
      BY <1>6, PromisesTyped DEF Clear, Dropped, Typed
    <2>3. sharedLog' = sharedLog /\ localLog' \in [Worktree -> SUBSET Conflict]
      BY <1>6 DEF Clear, Typed
    <2>4. QED
      BY <1>6, <2>1, <2>2, <2>3, ShrinkTyped DEF Clear, Typed
  <1>7. CASE Tick
    BY <1>7, TickOK DEF Tick, Typed, tables, logs
  <1>8. CASE UNCHANGED vars
    BY <1>8 DEF vars, tables, logs, Typed
  <1>9. QED
    BY <1>1, <1>2, <1>3, <1>4, <1>5, <1>6, <1>7, <1>8 DEF Next

\* Type correctness of every reachable state, and the TTL bound on the rows.
THEOREM TypeCorrect == Spec => []TypeOK
  <1>1. Typed /\ [Next]_vars => Typed'
    BY TypedStep
  <1>2. QED
    BY <1>1, TypedInit, TypedMeans, PTL DEF Spec

\* `find` has one answer: no table ever has two rows for a path.
THEOREM RowsUnique == Spec => []UniqueRows
  <1>1. Typed /\ [Next]_vars => Typed'
    BY TypedStep
  <1>2. QED
    BY <1>1, TypedInit, TypedMeans, PTL DEF Spec

-------------------------------------------------------------------------------
(***************************************************************************)
(* No agent loses a lock silently.  ClaimBacked alone is not inductive: a  *)
(* release or a refusal must not meet a live row of the agent it answers,  *)
(* which is HolderKnows with one row per path.                             *)
(***************************************************************************)
Backed == Typed /\ HolderKnows /\ ClaimBacked

\* All worktrees consult the same table and the same log.
LEMMA OneTable ==
    ASSUME NEW v \in Worktree, NEW w \in Worktree
    PROVE  /\ Table(v) = Table(w) /\ Log(v) = Log(w)
           /\ Table(v)' = Table(w)' /\ Log(v)' = Log(w)'
  BY DEF Table, Log

\* The table the worktrees consult, after a grant and after a removal.
LEMMA GrantTable ==
    ASSUME Typed, NEW w \in Worktree, NEW p \in Path, NEW a \in Agent,
           Grant(w, p, a)
    PROVE  Table(w)' = WriteLock(Table(w), p, a, now)
  BY DEF Grant, Table, Typed

\* ... and after a removal.
LEMMA RemoveTable ==
    ASSUME Typed, NEW w \in Worktree, NEW p \in Path, Remove(w, p)
    PROVE  Table(w)' = WithoutPaths(Table(w), {p})
  BY DEF Remove, Table, Typed

\* The log the worktrees consult, after a steal.
LEMMA RecordConflictLog ==
    ASSUME Typed, NEW w \in Worktree, NEW rows, NEW a \in Agent,
           RecordConflict(w, rows, a)
    PROVE  Log(w)' = Log(w) \cup Steals(rows, a)
  BY DEF RecordConflict, Log, Typed

\* The table the worktrees consult is well formed.
LEMMA TableTyped ==
    ASSUME Typed, NEW w \in Worktree
    PROVE  TableOK(Table(w), now)
  BY DEF Typed, Table

\* Granting a lock backs it, and robs nobody who is not logged.
LEMMA GrantBacked ==
    ASSUME Backed, NEW w \in Worktree, NEW p \in Path, NEW a \in Agent,
           Grant(w, p, a), Log(w) \subseteq Log(w)',
           \A r \in Blocking(w, p, a) : 
                \E c \in Log(w)' : c.path = p /\ c.holder = r.agent /\ c.at = now
    PROVE  HolderKnows' /\ ClaimBacked'
  <1> DEFINE new == LockRow(p, a, now + TTL, FALSE)
  <1>1. /\ Table(w)' = WithoutPaths(Table(w), {p}) \cup {new}
        /\ now' = now
    BY GrantTable DEF WriteLock, Grant, Backed
  <1>2. /\ claim' = [claim EXCEPT ![p][a] = now + TTL] /\ lost' = lost
        /\ claim \in [Path -> [Agent -> Nat]] /\ now \in Nat
        /\ TableOK(Table(w), now)
    BY TableTyped DEF Grant, Told, Backed, Typed
  <1>3. /\ new.path = p /\ new.agent = a /\ new.until = now + TTL
        /\ new.auto = FALSE
    BY DEF LockRow
  <1>4. /\ claim'[p][a] = now + TTL
        /\ \A q \in Path, b \in Agent : q # p \/ b # a => claim'[q][b] = claim[q][b]
    BY <1>2
  <1>5. \A r \in Table(w)' : r = new \/ (r \in Table(w) /\ r.path # p)
    BY <1>1 DEF WithoutPaths
  <1>6. \A q \in Path : \A r \in Claimed(Table(w)', q, now) :
            claim'[q][r.agent] = r.until
    <2> SUFFICES ASSUME NEW q \in Path, NEW r \in Claimed(Table(w)', q, now)
                 PROVE  claim'[q][r.agent] = r.until
      OBVIOUS
    <2>1. r \in Table(w)' /\ r.path = q /\ r.until > now /\ ~r.auto
      BY DEF Claimed, Live
    <2>2. CASE r = new
      BY <2>1, <2>2, <1>3, <1>4
    <2>3. CASE r \in Table(w) /\ r.path # p
      <3>1. r \in Claimed(Table(w), q, now) /\ r.agent \in Agent
        BY <2>1, <2>3, <1>2 DEF Claimed, Live, TableOK, Row
      <3>2. QED
        BY <3>1, <2>1, <2>3, <1>4 DEF Backed, HolderKnows
    <2>4. QED
      BY <2>1, <2>2, <2>3, <1>5
  <1>7. \A q \in Path, b \in Agent : claim'[q][b] > now
            => \/ LockRow(q, b, claim'[q][b], FALSE) \in Table(w)'
               \/ \E c \in Log(w)' : c.path = q /\ c.holder = b
                                      /\ c.at + TTL >= claim'[q][b]
               \/ Bereft(q, b)'
    <2> SUFFICES ASSUME NEW q \in Path, NEW b \in Agent, claim'[q][b] > now
                 PROVE  \/ LockRow(q, b, claim'[q][b], FALSE) \in Table(w)'
                        \/ \E c \in Log(w)' : c.path = q /\ c.holder = b
                                               /\ c.at + TTL >= claim'[q][b]
                        \/ Bereft(q, b)'
      OBVIOUS
    <2>1. CASE q = p /\ b = a
      BY <2>1, <1>1, <1>4
    <2>2. CASE q # p \/ b # a
      <3> DEFINE row == LockRow(q, b, claim[q][b], FALSE)
      <3>1. claim'[q][b] = claim[q][b]
        BY <2>2, <1>4
      <3>2. CASE Robbed(w, q, b)
        BY <3>1, <3>2 DEF Robbed
      <3>3. CASE Holds(w, q, b)
        <4>1. /\ row \in Table(w) /\ row.path = q /\ row.agent = b
              /\ row.until = claim[q][b] /\ row.auto = FALSE
          BY <3>3 DEF Holds, LockRow
        <4>2. CASE q # p
          BY <4>1, <4>2, <3>1, <1>1 DEF WithoutPaths
        <4>3. CASE q = p
          <5>1. row \in Blocking(w, p, a)
            BY <4>1, <4>3, <2>2, <3>1 DEF Blocking, Claimed, Live
          <5>2. claim[q][b] <= now + TTL
            BY <4>1, <1>2 DEF TableOK
          <5>3. PICK c \in Log(w)' : c.path = p /\ c.holder = row.agent /\ c.at = now
            BY <5>1
          <5>4. QED
            BY <5>2, <5>3, <4>1, <4>3, <3>1
        <4>4. QED
          BY <4>2, <4>3
      <3>4. CASE Bereft(q, b)
        BY <3>1, <3>4, <1>2 DEF Bereft
      <3>5. QED
        BY <3>1, <3>2, <3>3, <3>4 DEF Backed, ClaimBacked
    <2>3. QED
      BY <2>1, <2>2
  <1>8. HolderKnows'
    BY <1>1, <1>6, OneTable DEF HolderKnows
  <1>9. ClaimBacked'
    <2> SUFFICES ASSUME NEW v \in Worktree, NEW q \in Path, NEW b \in Agent,
                        claim'[q][b] > now'
                 PROVE  Holds(v, q, b)' \/ Robbed(v, q, b)' \/ Bereft(q, b)'
      BY DEF ClaimBacked
    <2>1. Table(v)' = Table(w)' /\ Log(v)' = Log(w)'
      BY OneTable
    <2>2. QED
      BY <2>1, <1>1, <1>7 DEF Holds, Robbed
  <1>10. QED
    BY <1>8, <1>9

\* What every other step does: agents are told nothing new or that they hold
\* nothing, live claims that stand keep their row, or the history keeps it, and
\* no claim appears.
LEMMA KeepBacked ==
    ASSUME Backed, NEW w \in Worktree, Log(w) \subseteq Log(w)',
           now' \in Nat, now' >= now,
           \A q \in Path, b \in Agent :
                claim'[q][b] = claim[q][b] \/ claim'[q][b] = 0,
           lost \subseteq lost',
           \A q \in Path : \A r \in Claimed(Table(w), q, now') :
                claim'[q][r.agent] = claim[q][r.agent]
                    => r \in Table(w)' \/ (~Coordinated /\ r \in lost'),
           \A q \in Path : \A r \in Claimed(Table(w)', q, now') :
                r \in Table(w) /\ claim'[q][r.agent] = claim[q][r.agent]
    PROVE  HolderKnows' /\ ClaimBacked'
  <1>1. now \in Nat /\ TableOK(Table(w), now) /\ claim \in [Path -> [Agent -> Nat]]
    BY TableTyped DEF Backed, Typed
  <1>2. HolderKnows'
    <2> SUFFICES ASSUME NEW v \in Worktree, NEW q \in Path,
                        NEW r \in Claimed(Table(v)', q, now')
                 PROVE  claim'[q][r.agent] = r.until
      BY DEF HolderKnows
    <2>1. r \in Claimed(Table(w)', q, now')
      BY OneTable
    <2>2. r \in Claimed(Table(w), q, now) /\ claim'[q][r.agent] = claim[q][r.agent]
      BY <2>1, <1>1 DEF Claimed, Live, TableOK, Row
    <2>3. QED
      BY <2>2 DEF Backed, HolderKnows
  <1>3. ClaimBacked'
    <2> SUFFICES ASSUME NEW v \in Worktree, NEW q \in Path, NEW b \in Agent,
                        claim'[q][b] > now'
                 PROVE  Holds(v, q, b)' \/ Robbed(v, q, b)' \/ Bereft(q, b)'
      BY DEF ClaimBacked
    <2> DEFINE row == LockRow(q, b, claim[q][b], FALSE)
    <2>1. Table(v)' = Table(w)' /\ Log(v)' = Log(w)'
      BY OneTable
    <2>2. claim'[q][b] = claim[q][b] /\ claim[q][b] > now
      BY <1>1
    <2>3. CASE Robbed(w, q, b)
      BY <2>1, <2>2, <2>3 DEF Robbed
    <2>4. CASE Holds(w, q, b)
      <3>1. /\ row \in Table(w) /\ row.path = q /\ row.agent = b
            /\ row.until = claim[q][b] /\ row.auto = FALSE
        BY <2>4 DEF Holds, LockRow
      <3>2. row \in Claimed(Table(w), q, now')
        BY <3>1, <2>2 DEF Claimed, Live
      <3>3. row \in Table(w)' \/ (~Coordinated /\ row \in lost')
        BY <3>1, <3>2, <2>2
      <3>4. QED
        BY <3>3, <2>1, <2>2 DEF Holds, Bereft
    <2>5. CASE Bereft(q, b)
      BY <2>2, <2>5 DEF Bereft
    <2>6. QED
      BY <2>2, <2>3, <2>4, <2>5 DEF Backed, ClaimBacked
  <1>4. QED
    BY <1>2, <1>3

\* A refusal, of an acquire, a refresh or a release, does not answer the
\* agent of the live row.
LEMMA RefusalBacked ==
    ASSUME Backed, NEW w \in Worktree, NEW p \in Path, NEW a \in Agent,
           \A r \in Claimed(Table(w), p, now) : r.agent # a,
           Told(p, a, 0), UNCHANGED <<now, tables, logs>>
    PROVE  HolderKnows' /\ ClaimBacked'
  <1>1. now \in Nat /\ TableOK(Table(w), now) /\ claim \in [Path -> [Agent -> Nat]]
    BY TableTyped DEF Backed, Typed
  <1>2. Table(w)' = Table(w) /\ Log(w)' = Log(w) /\ now' = now
    BY DEF Table, Log, tables, logs
  <1>3. \A q \in Path, b \in Agent :
            /\ q # p \/ b # a => claim'[q][b] = claim[q][b]
            /\ q = p /\ b = a => claim'[q][b] = 0
    BY <1>1 DEF Told
  <1> lost' = lost
    BY DEF Told
  <1>4. \A q \in Path : \A r \in Claimed(Table(w), q, now) :
            r \in Table(w) /\ claim'[q][r.agent] = claim[q][r.agent]
    BY <1>1, <1>3 DEF Claimed, Live, TableOK, Row
  <1>5. QED
    BY <1>1, <1>2, <1>3, <1>4, KeepBacked

\* Nobody was told anything to begin with.
LEMMA BackedInit == Init => Backed
  BY TypedInit DEF Init, Backed, HolderKnows, ClaimBacked, Table, Claimed, Live

\* One document_lock call keeps promises and table together.
LEMMA LockCallBacked ==
    ASSUME Backed, NEW w \in Worktree, NEW p \in Path, NEW a \in Agent,
           LockCall(w, p, a)
    PROVE  HolderKnows' /\ ClaimBacked'
  <1>1. /\ Typed /\ now \in Nat /\ TableOK(Table(w), now)
        /\ claim \in [Path -> [Agent -> Nat]]
    BY TableTyped DEF Backed, Typed
  <1>2. ASSUME NEW force \in BOOLEAN, Acquire(w, p, a, force)
        PROVE  HolderKnows' /\ ClaimBacked'
    <2>1. Log(w)' = Log(w) \cup Steals(Blocking(w, p, a), a)
      BY <1>1, <1>2, RecordConflictLog DEF Acquire
    <2>2. \A r \in Blocking(w, p, a) :
            \E c \in Log(w)' : c.path = p /\ c.holder = r.agent /\ c.at = now
      <3> TAKE r \in Blocking(w, p, a)
      <3> DEFINE c == [path |-> r.path, holder |-> r.agent, requester |-> a, at |-> now]
      <3>1. c \in Log(w)'
        BY <2>1 DEF Steals
      <3>2. c.path = p /\ c.holder = r.agent /\ c.at = now
        BY DEF Blocking, Claimed, Live
      <3>3. QED
        BY <3>1, <3>2
    <2>3. QED
      BY <1>2, <2>1, <2>2, GrantBacked DEF Acquire
  <1>3. CASE Refused(w, p, a)
    <2>1. \A r \in Claimed(Table(w), p, now) : r.agent # a
      BY <1>1, <1>3 DEF Refused, Blocking, Claimed, Live, TableOK, OneRowPerPath
    <2>2. QED
      BY <1>3, <2>1, RefusalBacked DEF Refused
  <1>4. CASE Refresh(w, p, a)
    <2>1. Log(w)' = Log(w)
      BY <1>4 DEF Refresh, Log, logs
    <2>2. Blocking(w, p, a) = {}
      BY <1>1, <1>4 DEF Refresh, Blocking, Claimed, Live, TableOK, OneRowPerPath
    <2>3. QED
      BY <1>4, <2>1, <2>2, GrantBacked DEF Refresh
  <1>5. CASE NotRefreshed(w, p, a)
    BY <1>5, RefusalBacked DEF NotRefreshed, Claimed
  <1>6. CASE Release(w, p, a)
    <2>1. Table(w)' = WithoutPaths(Table(w), {p})
      BY <1>1, <1>6, RemoveTable DEF Release
    <2>2. Log(w)' = Log(w) /\ now' = now /\ lost' = lost
      BY <1>6 DEF Release, Told, Log, logs
    <2>3. \A q \in Path, b \in Agent :
            /\ q # p \/ b # a => claim'[q][b] = claim[q][b]
            /\ q = p /\ b = a => claim'[q][b] = 0
      BY <1>1, <1>6 DEF Release, Told
    <2>4. \A q \in Path : \A r \in Claimed(Table(w), q, now) :
            /\ r \in Table(w) /\ r.agent \in Agent /\ r.path = q
            /\ r.until \in Int /\ r.until > now
            /\ claim[q][r.agent] = r.until
            /\ q = p => r.agent = a
      <3>1. \A r \in Claimed(Table(w), p, now) : r.agent = a
        BY <1>6 DEF Release, Blocking
      <3>2. QED
        BY <1>1, <3>1 DEF Claimed, Live, TableOK, Row, Backed, HolderKnows
    <2>5. \A q \in Path : \A r \in Claimed(Table(w), q, now) :
            claim'[q][r.agent] = claim[q][r.agent] => r \in Table(w)'
      BY <1>1, <2>1, <2>3, <2>4 DEF WithoutPaths
    <2>6. \A q \in Path : \A r \in Claimed(Table(w)', q, now) :
            r \in Table(w) /\ claim'[q][r.agent] = claim[q][r.agent]
      <3> SUFFICES ASSUME NEW q \in Path, NEW r \in Claimed(Table(w)', q, now)
                   PROVE  r \in Table(w) /\ claim'[q][r.agent] = claim[q][r.agent]
        OBVIOUS
      <3>1. r \in Claimed(Table(w), q, now) /\ q # p
        BY <2>1 DEF Claimed, Live, WithoutPaths
      <3>2. QED
        BY <3>1, <2>3, <2>4
    <2>7. QED
      BY <1>1, <2>2, <2>3, <2>5, <2>6, KeepBacked
  <1>7. CASE NotReleased(w, p, a)
    <2>1. \A r \in Claimed(Table(w), p, now) : r.agent # a
      BY <1>1, <1>7
         DEF NotReleased, Blocking, Claimed, Live, TableOK, OneRowPerPath
    <2>2. QED
      BY <1>7, <2>1, RefusalBacked DEF NotReleased
  <1>8. QED
    BY <1>2, <1>3, <1>4, <1>5, <1>6, <1>7 DEF LockCall

\* So does every other operation, and the clock.
LEMMA BackedStep ==
    ASSUME Backed, [Next]_vars
    PROVE  Backed'
  <1>0. /\ Typed /\ Typed' /\ now \in Nat /\ claim \in [Path -> [Agent -> Nat]]
        /\ \A w \in Worktree : TableOK(Table(w), now)
    BY TableTyped, TypedStep DEF Backed, Typed
  <1>1. ASSUME NEW w \in Worktree, NEW p \in Path, NEW a \in Agent,
               LockCall(w, p, a)
        PROVE  Backed'
    BY <1>0, <1>1, LockCallBacked DEF Backed
  <1>2. ASSUME NEW w \in Worktree, NEW a \in Agent, ReleaseAll(w, a)
        PROVE  Backed'
    <2>1. Table(w)' = WithoutAgent(Table(w), a)
      BY <1>0, <1>2 DEF ReleaseAll, Table, Typed
    <2>2. Log(w)' = Log(w) /\ now' = now /\ lost' = lost
      BY <1>2 DEF ReleaseAll, Log, logs
    <2>3. \A q \in Path, b \in Agent :
            /\ b # a => claim'[q][b] = claim[q][b]
            /\ b = a => claim'[q][b] = 0
      BY <1>0, <1>2 DEF ReleaseAll
    <2>4. \A q \in Path : \A r \in Claimed(Table(w), q, now) :
            /\ r \in Table(w) /\ r.agent \in Agent
            /\ r.until > now /\ r.until \in Int
            /\ claim[q][r.agent] = r.until
      BY <1>0 DEF Claimed, Live, TableOK, Row, Backed, HolderKnows
    <2>5. \A q \in Path : \A r \in Claimed(Table(w), q, now) :
            claim'[q][r.agent] = claim[q][r.agent] => r \in Table(w)'
      BY <1>0, <2>1, <2>3, <2>4 DEF WithoutAgent
    <2>6. \A q \in Path : \A r \in Claimed(Table(w)', q, now) :
            r \in Table(w) /\ claim'[q][r.agent] = claim[q][r.agent]
      <3> SUFFICES ASSUME NEW q \in Path, NEW r \in Claimed(Table(w)', q, now)
                   PROVE  r \in Table(w) /\ claim'[q][r.agent] = claim[q][r.agent]
        OBVIOUS
      <3>1. r \in Claimed(Table(w), q, now) /\ r.agent # a
        BY <2>1 DEF Claimed, Live, WithoutAgent
      <3>2. QED
        BY <3>1, <2>3, <2>4
    <2>7. QED
      BY <1>0, <2>2, <2>3, <2>5, <2>6, KeepBacked DEF Backed
  <1>3. ASSUME NEW w \in Worktree, ReapExpired(w)
        PROVE  Backed'
    <2>1. Table(w)' = Reap(Table(w), now)
      BY <1>0, <1>3 DEF ReapExpired, Table, Typed
    <2>2. Log(w)' = Log(w) /\ now' = now /\ claim' = claim /\ lost' = lost
      BY <1>3 DEF ReapExpired, Log, logs
    <2>3. \A q \in Path : Claimed(Table(w)', q, now) = Claimed(Table(w), q, now)
      BY <2>1 DEF Claimed, Live, Reap
    <2>4. QED
      BY <1>0, <2>2, <2>3, KeepBacked DEF Backed, Claimed, Live
  <1>4. ASSUME NEW w \in Worktree, NEW a \in Agent,
               NEW paths \in (SUBSET Path) \ {{}}, IndexLocks(w, a, paths)
        PROVE  Backed'
    <2>1. Table(w)' = HoldAuto(Table(w), paths, a, now)
      BY <1>0, <1>4 DEF IndexLocks, Table, Typed
    <2>2. Log(w)' = Log(w) /\ now' = now /\ claim' = claim /\ lost' = lost
      BY <1>4 DEF IndexLocks, Log, logs
    <2>3. \A q \in Path : \A r \in Claimed(Table(w), q, now) : r \in Table(w)'
      BY <2>1 DEF HoldAuto, WithoutPaths, Claimed, Live
    <2>4. \A q \in Path : \A r \in Claimed(Table(w)', q, now) : r \in Table(w)
      BY <2>1 DEF HoldAuto, WithoutPaths, LockRow, Claimed, Live
    <2>5. QED
      BY <1>0, <2>2, <2>3, <2>4, KeepBacked DEF Backed
  <1>5. ASSUME NEW w \in Worktree, NEW p \in Path, DropDocument(w, p)
        PROVE  Backed'
    <2>1. Log(w)' = Log(w) /\ now' = now /\ claim' = claim
      BY <1>5 DEF DropDocument, Log, logs
    <2>2. CASE Coordinated
      <3>1. Table(w)' = Table(w) /\ lost' = lost
        BY <1>5, <2>2 DEF DropDocument, Dropped, Table
      <3>2. QED
        BY <1>0, <2>1, <3>1, KeepBacked DEF Backed, Claimed, Live
    <2>3. CASE ~Coordinated
      <3>1. /\ Table(w)' = WithoutPaths(Table(w), {p})
            /\ lost' = lost \cup Claimed(Table(w), p, now)
        BY <1>0, <1>5, <2>3 DEF DropDocument, Dropped, Table, Typed
      <3>2. \A q \in Path : \A r \in Claimed(Table(w), q, now) :
              r \in Table(w)' \/ r \in lost'
        BY <3>1 DEF WithoutPaths, Claimed, Live
      <3>3. \A q \in Path : \A r \in Claimed(Table(w)', q, now) : r \in Table(w)
        BY <3>1 DEF Claimed, Live, WithoutPaths
      <3>4. lost \subseteq lost'
        BY <3>1
      <3>5. QED
        BY <1>0, <2>1, <2>3, <3>2, <3>3, <3>4, KeepBacked DEF Backed
    <2>4. QED
      BY <2>2, <2>3
  <1>6. ASSUME NEW w \in Worktree, Clear(w)
        PROVE  Backed'
    <2>1. CASE Coordinated
      <3>1. /\ Table(w)' = Table(w) /\ Log(w)' = Log(w) /\ claim' = claim /\ now' = now
            /\ lost' = lost
        BY <1>6, <2>1 DEF Clear, Dropped, Table, Log
      <3>2. QED
        BY <1>0, <3>1, KeepBacked DEF Backed, Claimed, Live
    <2>2. CASE ~Coordinated
      <3>1. \A v \in Worktree : Table(v)' = {}
        BY <1>0, <1>6, <2>2 DEF Clear, Table, Typed
      <3>2. now' = now /\ claim' = claim /\ Promises \subseteq lost'
        BY <1>6, <2>2 DEF Clear, Dropped
      <3>3. HolderKnows'
        BY <3>1 DEF HolderKnows, Claimed, Live
      <3>4. \A p \in Path, a \in Agent : (claim[p][a] > now)' => Bereft(p, a)'
        BY <1>0, <2>2, <3>2, PromisesTyped DEF Bereft
      <3>5. ClaimBacked'
        BY <3>4 DEF ClaimBacked
      <3>6. QED
        BY <1>0, <3>3, <3>5 DEF Backed
    <2>3. QED
      BY <2>1, <2>2
  <1>7. CASE Tick
    <2>1. /\ now' = now + 1 /\ claim' = claim /\ lost' = lost
          /\ \A w \in Worktree : Table(w)' = Table(w) /\ Log(w)' = Log(w)
      BY <1>7 DEF Tick, Table, Log, tables, logs
    <2>2. \A w \in Worktree : HolderKnows' /\ ClaimBacked'
      BY <1>0, <2>1, KeepBacked DEF Backed, Claimed, Live
    <2>3. QED
      BY <1>0, <2>2 DEF Backed, HolderKnows, ClaimBacked
  <1>8. CASE UNCHANGED vars
    <2>1. /\ now' = now /\ claim' = claim /\ lost' = lost
          /\ \A w \in Worktree : Table(w)' = Table(w) /\ Log(w)' = Log(w)
      BY <1>8 DEF Table, Log, tables, logs, vars
    <2>2. \A w \in Worktree : HolderKnows' /\ ClaimBacked'
      BY <1>0, <2>1, KeepBacked DEF Backed, Claimed, Live
    <2>3. QED
      BY <1>0, <2>2 DEF Backed, HolderKnows, ClaimBacked
  <1>9. QED
    BY <1>1, <1>2, <1>3, <1>4, <1>5, <1>6, <1>7, <1>8 DEF Next

\* An agent told that it holds a path holds it until it expires, unless the
\* conflict log names it as robbed.  Where no coordination file keeps the locks
\* there is one more way to lose one, and without a log row: the document is
\* removed, or the store cleared, by whoever (Engine::remove, detect, clear).
THEOREM NoSilentLoss == Spec => []ClaimBacked
  <1>1. Backed /\ [Next]_vars => Backed'
    BY BackedStep
  <1>2. Backed => ClaimBacked
    BY DEF Backed
  <1>3. QED
    BY <1>1, <1>2, BackedInit, PTL DEF Spec

\* A live explicit row stands for an agent that was told exactly that.
THEOREM NoStrayLock == Spec => []HolderKnows
  <1>1. Backed /\ [Next]_vars => Backed'
    BY BackedStep
  <1>2. Backed => HolderKnows
    BY DEF Backed
  <1>3. QED
    BY <1>1, <1>2, BackedInit, PTL DEF Spec

\* Two agents believe they hold one path only if the log names one as robbed or,
\* without a coordination file, the lock of one went with its document.
THEOREM Exclusion == Spec => []MutualExclusion
  <1>1. Backed /\ [Next]_vars => Backed'
    BY BackedStep
  <1>2. Backed => MutualExclusion
    <2> SUFFICES ASSUME Backed, NEW w \in Worktree, NEW p \in Path,
                        NEW a \in Agent, NEW b \in Agent, a # b,
                        claim[p][a] > now, claim[p][b] > now,
                        \A c \in {a, b} : ~Robbed(w, p, c) /\ ~Bereft(p, c)
                 PROVE  FALSE
      BY DEF MutualExclusion
    <2>1. /\ LockRow(p, a, claim[p][a], FALSE) \in Table(w)
          /\ LockRow(p, b, claim[p][b], FALSE) \in Table(w)
      BY DEF Backed, ClaimBacked, Holds
    <2>2. OneRowPerPath(Table(w))
      BY TableTyped DEF Backed, TableOK
    <2>3. QED
      BY <2>1, <2>2 DEF OneRowPerPath, LockRow
  <1>3. QED
    BY <1>1, <1>2, BackedInit, PTL DEF Spec

\* What a step adds to the log: only an acquire writes there.
LEMMA LogGrows ==
    ASSUME Typed, Next, NEW w \in Worktree, NEW c \in Log(w)' \ Log(w)
    PROVE  \E v \in Worktree, p \in Path, a \in Agent, force \in BOOLEAN :
               Acquire(v, p, a, force) /\ c \in Steals(Blocking(v, p, a), a)
  <1>1. ASSUME UNCHANGED logs PROVE FALSE
    BY <1>1 DEF logs, Log
  <1>2. CASE \E v \in Worktree, p \in Path, a \in Agent : LockCall(v, p, a)
    <2>1. PICK v \in Worktree, p \in Path, a \in Agent : LockCall(v, p, a)
      BY <1>2
    <2>2. PICK force \in BOOLEAN : Acquire(v, p, a, force)
      BY <1>1, <2>1 DEF LockCall, Refused, Refresh, NotRefreshed, Release, NotReleased
    <2>3. Log(v)' = Log(v) \cup Steals(Blocking(v, p, a), a)
      BY <2>2, RecordConflictLog DEF Acquire
    <2>4. c \in Steals(Blocking(v, p, a), a)
      BY <2>3, OneTable
    <2>5. QED
      BY <2>2, <2>4
  <1>3. CASE \E v \in Worktree : Clear(v)
    BY <1>3 DEF Clear, Log, Typed
  <1>4. QED
    BY <1>1, <1>2, <1>3 DEF Next, ReleaseAll, ReapExpired, IndexLocks, DropDocument, Tick

\* A conflict row is written only when a live claim is taken over by the
\* requester, who holds the path from then on (document_lock with force).
THEOREM TruthfulLog == Spec => LogTruthful
  <1>1. ASSUME Backed, Next, NEW w \in Worktree, NEW c \in Log(w)' \ Log(w)
        PROVE  /\ claim[c.path][c.holder] > now
               /\ \E r \in Table(w)' : /\ r.path = c.path /\ r.agent = c.requester
                                       /\ ~r.auto /\ r.until > now
    <2>1. PICK v \in Worktree, p \in Path, a \in Agent, force \in BOOLEAN :
              Acquire(v, p, a, force) /\ c \in Steals(Blocking(v, p, a), a)
      BY <1>1, LogGrows DEF Backed
    <2>2. PICK r \in Blocking(v, p, a) :
              c = [path |-> r.path, holder |-> r.agent, requester |-> a, at |-> now]
      BY <2>1 DEF Steals
    <2>3. /\ r \in Claimed(Table(v), p, now) /\ r.path = p /\ r.until > now
          /\ c.path = p /\ c.holder = r.agent /\ c.requester = a
      BY <2>2 DEF Blocking, Claimed, Live
    <2>4. claim[p][r.agent] = r.until
      BY <1>1, <2>3 DEF Backed, HolderKnows
    <2>5. Table(v)' = WriteLock(Table(v), p, a, now)
      BY <1>1, <2>1, GrantTable DEF Acquire, Backed
    <2>6. LockRow(p, a, now + TTL, FALSE) \in Table(w)'
      BY <2>5, OneTable DEF WriteLock
    <2>7. now + TTL > now
      BY <1>1 DEF Backed, Typed
    <2>8. LET row == LockRow(p, a, now + TTL, FALSE)
          IN  row.path = p /\ row.agent = a /\ ~row.auto /\ row.until > now
      BY <2>7 DEF LockRow
    <2>9. QED
      BY <2>3, <2>4, <2>6, <2>8
  <1>2. Backed /\ [Next]_vars => Backed'
    BY BackedStep
  <1>3. Backed /\ [Next]_vars => [LogsTakeovers]_vars
    BY <1>1 DEF LogsTakeovers
  <1>4. QED
    BY <1>2, <1>3, BackedInit, PTL DEF Spec, LogTruthful
===============================================================================
