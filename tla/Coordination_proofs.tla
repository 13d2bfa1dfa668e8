-------------------------- MODULE Coordination_proofs --------------------------
(***************************************************************************)
(* Proofs about Coordination, for any servers, agents and paths.           *)
(*                                                                         *)
(* With any worktrees, registrations and crashes the file stays well       *)
(* formed, because every write in flight carries a well-formed table, and  *)
(* a call holds its store until it ends.  When the servers share one       *)
(* worktree, are registered and are not killed, the store lock leaves one  *)
(* server in a call: what it has read is still in the file when it writes, *)
(* so nothing is lost, and each call is one DocLocks operation at the      *)
(* moment it reads the file.                                               *)
(***************************************************************************)
EXTENDS Coordination, FiniteSetTheorems, TLAPS

USE TTLAssumption, ServerAssumption, BoundAssumption
    DEF TTLAssumption, ServerAssumption, BoundAssumption

-------------------------------------------------------------------------------
\* What the operations on one table keep, whatever table they are given.

TableOK(table, t) ==
    /\ table \subseteq Row
    /\ \A r \in table : r.until <= t + TTL
    /\ OneRowPerPath(table)

LEMMA WriteLockOK ==
    ASSUME NEW table, NEW p \in Path, NEW a \in Agent, NEW t \in Nat,
           TableOK(table, t)
    PROVE  TableOK(WriteLock(table, p, a, t), t)
<1> DEFINE new == LockRow(p, a, t + TTL, FALSE)
<1>1. new \in Row /\ new.path = p /\ new.until <= t + TTL
  BY DEF LockRow, Row
<1> HIDE DEF new
<1>2. WriteLock(table, p, a, t) = WithoutPaths(table, {p}) \cup {new}
  BY DEF WriteLock, new
<1>3. \A r \in WithoutPaths(table, {p}) : r \in table /\ r.path # p
  BY DEF WithoutPaths
<1> QED BY <1>1, <1>2, <1>3 DEF TableOK, OneRowPerPath

LEMMA HoldAutoOK ==
    ASSUME NEW table, NEW paths \in SUBSET Path, NEW a \in Agent, NEW t \in Nat,
           TableOK(table, t)
    PROVE  TableOK(HoldAuto(table, paths, a, t), t)
<1> DEFINE fresh == {p \in paths : Claimed(table, p, t) = {}}
           auto(p) == LockRow(p, a, t + TTL, TRUE)
<1>1. \A p \in Path : auto(p) \in Row /\ auto(p).path = p /\ auto(p).until <= t + TTL
  BY DEF LockRow, Row
<1> HIDE DEF auto
<1>2. HoldAuto(table, paths, a, t) = WithoutPaths(table, fresh) \cup {auto(p) : p \in fresh}
  BY DEF HoldAuto, auto
<1>3. fresh \subseteq Path
  OBVIOUS
<1> HIDE DEF fresh
<1>4. \A r \in WithoutPaths(table, fresh) : r \in table /\ r.path \notin fresh
  BY DEF WithoutPaths
<1> QED BY <1>1, <1>2, <1>3, <1>4 DEF TableOK, OneRowPerPath

LEMMA SubTableOK ==
    ASSUME NEW table, NEW sub \in SUBSET table, NEW t \in Nat, TableOK(table, t)
    PROVE  TableOK(sub, t)
BY DEF TableOK, OneRowPerPath

LEMMA LaterOK ==
    ASSUME NEW table, NEW t \in Nat, TableOK(table, t)
    PROVE  TableOK(table, t + 1)
BY DEF TableOK, Row

-------------------------------------------------------------------------------
(* Any worktrees, registrations in flight, crashes.                            *)

Writing(s) == pc[s] \in {"loaded", "torn"}

\* What a server is about to write is well formed.
WriteOK == \A s \in Server : Writing(s) => TableOK(pending[s].coord.locks, now)

\* A server that is not registered only registers, and does it without the store.
Outside ==
    /\ \A s \in Server \ registered : pc[s] \in {"idle", "loaded", "torn"}
    /\ \A w \in Worktree : storeLock[w] \in Server =>
        storeLock[w] \in registered /\ Home[storeLock[w]] = w

\* Notifications written and about to be written.
Noting == {t \in Server : pending[t].notes = 1}
NotesBound == noted + Cardinality(Noting) <= MaxNotes

Inv == TypeOK /\ StoreHeld /\ ExpiresInTime /\ WriteOK /\ Outside /\ NotesBound

LEMMA NotingFinite == IsFiniteSet(Noting) /\ Cardinality(Noting) \in Nat
BY FS_Subset, FS_CardinalityType DEF Noting

\* Reading the file gives a well-formed table.
LEMMA LoadOK == ASSUME Inv PROVE Load \in Coord /\ TableOK(Load.locks, now)
<1>1. Empty \in Coord /\ TableOK(Empty.locks, now)
  BY DEF Empty, Coord, TableOK, OneRowPerPath
<1>2. file # Torn => file \in Coord /\ TableOK(file.locks, now)
  BY DEF Inv, TypeOK, ExpiresInTime, TableOK, Coord
<1> QED BY <1>1, <1>2 DEF Load

LEMMA NoWorkOK == Empty \in Coord /\ NoWork \in Pending /\ NoWork.notes = 0
<1>1. Empty \in Coord
  BY DEF Empty, Coord
<1> QED BY <1>1 DEF NoWork, Pending

\* What Prepare and Note leave in flight.
Prepared(coord, told) == [NoWork EXCEPT !.coord = coord, !.told = told]
Noted(coord, hold) == [NoWork EXCEPT !.coord = coord, !.notes = 1, !.hold = hold]

LEMMA PreparedOK ==
    ASSUME NEW coord \in Coord, NEW told \in SUBSET Told
    PROVE  /\ Prepared(coord, told) \in Pending
           /\ Prepared(coord, told).coord = coord /\ Prepared(coord, told).told = told
           /\ Prepared(coord, told).notes = 0
<1>1. NoWork \in [coord : Coord, told : SUBSET Told, notes : 0..1, hold : SUBSET Path]
  BY NoWorkOK DEF Pending
<1>2. Prepared(coord, told)
        \in [coord : Coord, told : SUBSET Told, notes : 0..1, hold : SUBSET Path]
  BY <1>1 DEF Prepared
<1>3. Prepared(coord, told).coord = coord /\ Prepared(coord, told).told = told
  BY <1>1 DEF Prepared
<1>4. Prepared(coord, told).notes = 0
  BY <1>1, NoWorkOK DEF Prepared
<1> QED BY <1>2, <1>3, <1>4 DEF Pending

LEMMA NotedOK ==
    ASSUME NEW coord \in Coord, NEW hold \in SUBSET Path
    PROVE  /\ Noted(coord, hold) \in Pending
           /\ Noted(coord, hold).coord = coord /\ Noted(coord, hold).told = {}
           /\ Noted(coord, hold).notes = 1
<1>1. NoWork \in [coord : Coord, told : SUBSET Told, notes : 0..1, hold : SUBSET Path]
      /\ 1 \in 0..1
  BY NoWorkOK DEF Pending
<1>2. Noted(coord, hold)
        \in [coord : Coord, told : SUBSET Told, notes : 0..1, hold : SUBSET Path]
  BY <1>1 DEF Noted
<1>3. Noted(coord, hold).coord = coord /\ Noted(coord, hold).notes = 1
  BY <1>1 DEF Noted
<1>4. Noted(coord, hold).told = {}
  <2>1. NoWork.told = {}
    BY DEF NoWork
  <2> QED BY <1>1, <2>1 DEF Noted
<1> QED BY <1>2, <1>3, <1>4 DEF Pending

LEMMA InitInv == Init => Inv
<1> SUFFICES ASSUME Init PROVE Inv
  OBVIOUS
<1> USE DEF Init
<1>1. file = [Empty EXCEPT !.agents = Server \ Fresh]
  OBVIOUS
<1>2. file \in Coord /\ file.locks = {}
  <2>1. Empty.locks = {}
    BY DEF Empty
  <2> QED BY <1>1, <2>1, NoWorkOK DEF Coord
<1>3. TypeOK
  BY <1>2, NoWorkOK DEF TypeOK, OneRowPerPath
<1>4. StoreHeld /\ ExpiresInTime /\ WriteOK /\ Outside
  BY <1>2 DEF StoreHeld, ExpiresInTime, WriteOK, Writing, Outside
<1>5. NotesBound
  <2>1. Noting = {}
    BY NoWorkOK DEF Noting
  <2> QED BY <2>1, FS_EmptySet DEF NotesBound
<1> QED BY <1>3, <1>4, <1>5 DEF Inv

\* A server reads the file and has something to write.
LEMMA LoadStep ==
    ASSUME Inv, NEW s \in Server, NEW work \in Pending,
           TableOK(work.coord.locks, now),
           work.notes = 1 => noted + Cardinality(Noting) < MaxNotes,
           pc[s] \in {"call", "index"} \/ (pc[s] = "idle" /\ s \notin registered),
           pending' = [pending EXCEPT ![s] = work],
           pc' = [pc EXCEPT ![s] = "loaded"],
           local' \in [Worktree -> SUBSET Row],
           UNCHANGED <<now, file, storeLock, registered, claim, noted, crashes>>
    PROVE  Inv'
<1> USE DEF Inv
<1>1. TypeOK'
  BY DEF TypeOK
<1>2. StoreHeld' /\ ExpiresInTime' /\ Outside'
  BY DEF StoreHeld, ExpiresInTime, Outside, TypeOK
<1>3. WriteOK'
  BY DEF WriteOK, Writing, TypeOK
<1>4. NotesBound'
  <2>1. Noting' \subseteq Noting \cup {s} /\ (work.notes = 0 => Noting' \subseteq Noting)
    BY DEF Noting, TypeOK
  <2>2. work.notes \in 0..1
    BY DEF Pending
  <2>3. /\ IsFiniteSet(Noting \cup {s}) /\ Cardinality(Noting \cup {s}) \in Nat
        /\ Cardinality(Noting \cup {s}) <= Cardinality(Noting) + 1
    <3>1. IsFiniteSet(Noting \cup {s})
      BY NotingFinite, FS_AddElement
    <3>2. Cardinality(Noting \cup {s}) \in {Cardinality(Noting), Cardinality(Noting) + 1}
      BY NotingFinite, FS_AddElement, Zenon
    <3> QED BY <3>1, <3>2, NotingFinite
  <2>4. CASE work.notes = 1
    <3>1. Cardinality(Noting') <= Cardinality(Noting \cup {s}) /\ Cardinality(Noting') \in Nat
      BY <2>1, <2>3, FS_Subset, FS_CardinalityType
    <3> QED BY <2>3, <2>4, <3>1, NotingFinite DEF NotesBound, TypeOK
  <2>5. CASE work.notes = 0
    <3>1. Cardinality(Noting') <= Cardinality(Noting) /\ Cardinality(Noting') \in Nat
      BY <2>1, <2>5, NotingFinite, FS_Subset, FS_CardinalityType
    <3> QED BY <3>1, NotingFinite DEF NotesBound, TypeOK
  <2> QED BY <2>2, <2>4, <2>5
<1> QED BY <1>1, <1>2, <1>3, <1>4
LEMMA PrepareStep ==
    ASSUME Inv, NEW s \in Server, NEW coord \in Coord, NEW told \in SUBSET Told,
           TableOK(coord.locks, now), Prepare(s, coord, told),
           pc[s] \in {"call", "index"} \/ (pc[s] = "idle" /\ s \notin registered),
           local' \in [Worktree -> SUBSET Row],
           UNCHANGED <<now, file, storeLock, registered, claim, noted, crashes>>
    PROVE  Inv'
<1> DEFINE work == Prepared(coord, told)
<1>1. work \in Pending /\ work.coord = coord /\ work.notes = 0
  BY PreparedOK
<1>2. pending' = [pending EXCEPT ![s] = work] /\ pc' = [pc EXCEPT ![s] = "loaded"]
  BY DEF Prepare, Prepared
<1> HIDE DEF work
<1>3. TableOK(work.coord.locks, now) /\ work.notes # 1
  BY <1>1
<1> QED BY <1>1, <1>2, <1>3, LoadStep

LEMMA TellOK ==
    ASSUME NEW p \in Path, NEW a \in Agent, NEW until \in Nat
    PROVE  Tell(p, a, until) \in Told
BY DEF Tell, Told

\* The tables that an operation on locks makes.
LEMMA TablesOK ==
    ASSUME Inv, NEW s \in Server, NEW p \in Path, NEW a \in Agent
    PROVE  /\ Home[s] \in Worktree /\ local[Home[s]] \subseteq Row
           /\ WriteLock(local[Home[s]], p, a, now) \subseteq Row
           /\ WithoutPaths(local[Home[s]], {p}) \subseteq Row
           /\ WithoutAgent(local[Home[s]], a) \subseteq Row
           /\ Reap(local[Home[s]], now) \subseteq Row
<1>1. Home[s] \in Worktree /\ local[Home[s]] \subseteq Row /\ now \in Nat
  BY DEF Inv, TypeOK
<1>2. LockRow(p, a, now + TTL, FALSE) \in Row
  BY <1>1 DEF LockRow, Row
<1> QED BY <1>1, <1>2 DEF WriteLock, WithoutPaths, WithoutAgent, Reap

\* document_lock: a grant, a refusal, and what removes rows.
LEMMA GrantStep ==
    ASSUME Inv, NEW s \in Server, NEW p \in Path, NEW a \in Agent, InCall(s),
           NEW coord \in Coord, TableOK(coord.locks, now), Grant(s, p, a, coord)
    PROVE  Inv'
<1> DEFINE new == [coord EXCEPT !.locks = WriteLock(@, p, a, now)]
<1>1. now \in Nat /\ TableOK(WriteLock(coord.locks, p, a, now), now)
  BY WriteLockOK DEF Inv, TypeOK
<1>2. new \in Coord /\ new.locks = WriteLock(coord.locks, p, a, now)
  BY <1>1 DEF Coord, TableOK
<1>3. {Tell(p, a, now + TTL)} \in SUBSET Told
  BY <1>1, TellOK
<1>4. local' \in [Worktree -> SUBSET Row]
  BY TablesOK DEF Grant, Inv, TypeOK
<1>5. Prepare(s, new, {Tell(p, a, now + TTL)})
  BY DEF Grant
<1> HIDE DEF new
<1> QED BY <1>1, <1>2, <1>3, <1>4, <1>5, PrepareStep DEF InCall

LEMMA DenyStep ==
    ASSUME Inv, NEW s \in Server, NEW p \in Path, NEW a \in Agent, InCall(s), Deny(s, p, a)
    PROVE  Inv'
<1>1. {Tell(p, a, 0)} \in SUBSET Told
  BY TellOK
<1>2. local' \in [Worktree -> SUBSET Row]
  BY DEF Deny, Inv, TypeOK
<1> QED BY <1>1, <1>2, LoadOK, PrepareStep DEF Deny, InCall

LEMMA SubStep ==
    ASSUME Inv, NEW s \in Server, InCall(s), NEW rows \in SUBSET Load.locks,
           NEW told \in SUBSET Told, Prepare(s, [Load EXCEPT !.locks = rows], told),
           local' \in [Worktree -> SUBSET Row]
    PROVE  Inv'
<1> DEFINE new == [Load EXCEPT !.locks = rows]
<1>1. TableOK(rows, now) /\ now \in Nat
  BY LoadOK, SubTableOK DEF Inv, TypeOK
<1>2. new \in Coord /\ new.locks = rows
  BY <1>1, LoadOK DEF Coord, TableOK
<1> HIDE DEF new
<1> QED BY <1>1, <1>2, PrepareStep DEF InCall, new

LEMMA LockToolStep ==
    ASSUME Inv, NEW s \in Server,
           \/ \E p \in Path, a \in Agent :
                \/ \E force \in BOOLEAN : Acquire(s, p, a, force)
                \/ Refresh(s, p, a)
                \/ Release(s, p, a)
           \/ \E a \in Agent : ReleaseAll(s, a)
           \/ ReapExpired(s)
           \/ Ask(s)
    PROVE  Inv'
<1>1. ASSUME NEW p \in Path, NEW a \in Agent, NEW force \in BOOLEAN, Acquire(s, p, a, force)
      PROVE  Inv'
  <2> DEFINE robbed == Blocking(Load, p, a)
             noting == [Load EXCEPT !.log = @ \cup Steals(robbed, a)]
  <2>1. CASE Deny(s, p, a)
    BY <1>1, <2>1, DenyStep DEF Acquire
  <2>2. CASE Grant(s, p, a, noting)
    <3>1. robbed \subseteq Row /\ now \in Nat
      BY LoadOK DEF Blocking, Claimed, Live, TableOK, Inv, TypeOK
    <3> HIDE DEF robbed
    <3>2. Steals(robbed, a) \subseteq Conflict
      BY <3>1 DEF Steals, Conflict, Row
    <3>3. noting \in Coord /\ noting.locks = Load.locks
      BY <3>2, LoadOK DEF Coord
    <3> HIDE DEF noting
    <3> QED BY <1>1, <2>2, <3>3, LoadOK, GrantStep DEF Acquire
  <2> QED BY <1>1, <2>1, <2>2 DEF Acquire
<1>2. ASSUME NEW p \in Path, NEW a \in Agent, Refresh(s, p, a) PROVE Inv'
  BY <1>2, LoadOK, GrantStep, DenyStep DEF Refresh
<1>3. ASSUME NEW p \in Path, NEW a \in Agent, Release(s, p, a) PROVE Inv'
  <2>1. CASE Live(Load.locks, p, now) = {} \/ Blocking(Load, p, a) # {}
    BY <1>3, <2>1, DenyStep DEF Release
  <2>2. CASE ~(Live(Load.locks, p, now) = {} \/ Blocking(Load, p, a) # {})
    <3>1. WithoutPaths(Load.locks, {p}) \in SUBSET Load.locks
      BY DEF WithoutPaths
    <3>2. {Tell(p, a, 0)} \in SUBSET Told
      BY TellOK
    <3>3. WithoutPaths(local[Home[s]], {p}) \subseteq Row
      BY TablesOK
    <3>4. /\ Prepare(s, [Load EXCEPT !.locks = WithoutPaths(@, {p})], {Tell(p, a, 0)})
          /\ local' = [local EXCEPT ![Home[s]] = WithoutPaths(@, {p})]
          /\ InCall(s)
      BY <1>3, <2>2 DEF Release
    <3>5. local' \in [Worktree -> SUBSET Row]
      BY <3>3, <3>4 DEF Inv, TypeOK
    <3> QED BY <3>1, <3>2, <3>4, <3>5, SubStep
  <2> QED BY <2>1, <2>2
<1>4. ASSUME NEW a \in Agent, ReleaseAll(s, a) PROVE Inv'
  <2>1. WithoutAgent(Load.locks, a) \in SUBSET Load.locks
    BY DEF WithoutAgent
  <2>2. {Tell(p, a, 0) : p \in Path} \in SUBSET Told
    BY TellOK
  <2>3. WithoutAgent(local[Home[s]], a) \subseteq Row
    BY DEF WithoutAgent, Inv, TypeOK
  <2>4. local' \in [Worktree -> SUBSET Row]
    BY <1>4, <2>3 DEF ReleaseAll, Inv, TypeOK
  <2> QED BY <1>4, <2>1, <2>2, <2>4, SubStep DEF ReleaseAll
<1>5. CASE ReapExpired(s)
  <2>1. Reap(Load.locks, now) \in SUBSET Load.locks
    BY DEF Reap
  <2>2. Reap(local[Home[s]], now) \subseteq Row
    BY DEF Reap, Inv, TypeOK
  <2>3. local' \in [Worktree -> SUBSET Row]
    BY <1>5, <2>2 DEF ReapExpired, Inv, TypeOK
  <2> QED BY <1>5, <2>1, <2>3, SubStep DEF ReapExpired
<1>6. CASE Ask(s)
  <2>1. local' \in [Worktree -> SUBSET Row] /\ {} \in SUBSET Told
    BY <1>6 DEF Ask, Inv, TypeOK
  <2> QED BY <1>6, <2>1, LoadOK, PrepareStep DEF Ask, InCall
<1> QED BY <1>1, <1>2, <1>3, <1>4, <1>5, <1>6

\* index, detect and remove note the change, and index then takes its locks.
LEMMA NoteStep ==
    ASSUME Inv, NEW s \in Server, NEW hold \in SUBSET Path, InCall(s), Note(s, hold),
           local' \in [Worktree -> SUBSET Row]
    PROVE  Inv'
<1> DEFINE coord == [Load EXCEPT !.notes = @ + 1]
           work == Noted(coord, hold)
<1>1. coord \in Coord /\ coord.locks = Load.locks
  BY LoadOK DEF Coord
<1> HIDE DEF coord
<1>2. work \in Pending /\ work.coord = coord
  BY <1>1, NotedOK
<1>3. /\ pending' = [pending EXCEPT ![s] = work] /\ pc' = [pc EXCEPT ![s] = "loaded"]
      /\ noted + Cardinality(Noting) < MaxNotes
  BY DEF Note, Noted, Noting, coord
<1> HIDE DEF work
<1> QED BY <1>1, <1>2, <1>3, LoadOK, LoadStep DEF InCall

LEMMA EngineStep ==
    ASSUME Inv, NEW s \in Server,
           \/ \E paths \in (SUBSET Path) \ {{}} : Index(s, paths)
           \/ DetectModified(s)
           \/ \E p \in Path : DropDocument(s, p)
           \/ HoldShared(s)
    PROVE  Inv'
<1>1. local \in [Worktree -> SUBSET Row] /\ Home[s] \in Worktree
  BY DEF Inv, TypeOK
<1>2. CASE DetectModified(s) \/ \E paths \in (SUBSET Path) \ {{}} : Index(s, paths)
  BY <1>1, <1>2, NoteStep DEF DetectModified, Index
<1>3. ASSUME NEW p \in Path, DropDocument(s, p) PROVE Inv'
  <2>1. WithoutPaths(local[Home[s]], {p}) \subseteq Row
    BY <1>1 DEF WithoutPaths
  <2> QED BY <1>1, <1>3, <2>1, NoteStep DEF DropDocument
<1>4. CASE HoldShared(s)
  <2> DEFINE locks == HoldAuto(Load.locks, pending[s].hold, ServerAgent[s], now)
             coord == [Load EXCEPT !.locks = locks]
  <2>1. pending[s].hold \in SUBSET Path /\ ServerAgent[s] \in Agent /\ now \in Nat
    BY DEF Inv, TypeOK, Pending
  <2>2. TableOK(locks, now)
    BY <2>1, LoadOK, HoldAutoOK
  <2> HIDE DEF locks
  <2>3. coord \in Coord /\ coord.locks = locks
    BY <2>2, LoadOK DEF Coord, TableOK
  <2>4. Prepare(s, coord, {}) /\ pc[s] = "index" /\ UNCHANGED local
    BY <1>4 DEF HoldShared, locks
  <2> HIDE DEF coord
  <2>5. {} \in SUBSET Told
    OBVIOUS
  <2> QED BY <1>1, <1>4, <2>2, <2>3, <2>4, <2>5, PrepareStep DEF HoldShared
<1> QED BY <1>2, <1>3, <1>4

\* A reply changes what agents believe to what they were told.
LEMMA AfterType ==
    ASSUME NEW belief \in [Path -> [Agent -> Nat]], NEW told \in SUBSET Told
    PROVE  After(belief, told) \in [Path -> [Agent -> Nat]]
<1>1. ASSUME NEW p \in Path, NEW a \in Agent, \E t \in told : t.path = p /\ t.agent = a
      PROVE  (CHOOSE t \in told : t.path = p /\ t.agent = a).until \in Nat
  BY <1>1 DEF Told
<1> QED BY <1>1 DEF After

LEMMA NotedStep ==
    ASSUME NEW s \in Server, NEW work, work.notes = 0,
           pending \in [Server -> Pending], pending' = [pending EXCEPT ![s] = work]
    PROVE  Noting' = Noting \ {s}
<1>1. \A t \in Server \ {s} : pending'[t] = pending[t]
  OBVIOUS
<1>2. pending'[s].notes = 0
  OBVIOUS
<1>3. Noting' = {t \in Server : pending'[t].notes = 1}
  BY DEF Noting
<1>4. Noting' = {t \in Server \ {s} : pending[t].notes = 1}
  BY <1>1, <1>2, <1>3
<1> QED BY <1>4 DEF Noting

LEMMA ServerStep ==
    ASSUME Inv, NEW s \in Server,
           \/ Register(s) \/ TakeStore(s) \/ ReleaseStore(s) \/ OtherTool(s) \/ Clear(s)
           \/ Truncate(s) \/ Write(s) \/ Crash(s)
    PROVE  Inv'
<1> USE DEF Inv
<1>1. CASE Register(s)
  <2> DEFINE coord == [Load EXCEPT !.agents = @ \cup {s}]
  <2>1. coord \in Coord /\ coord.locks = Load.locks
    BY LoadOK DEF Coord
  <2> HIDE DEF coord
  <2>2. {} \in SUBSET Told /\ local' \in [Worktree -> SUBSET Row]
    BY <1>1 DEF Register, TypeOK
  <2> QED BY <1>1, <2>1, <2>2, LoadOK, PrepareStep DEF Register, coord
<1>2. CASE TakeStore(s) \/ ReleaseStore(s) \/ OtherTool(s) \/ Clear(s) \/ Truncate(s)
  <2> USE <1>2 DEF TakeStore, ReleaseStore, OtherTool, Clear, InCall, Truncate
  <2>1. TypeOK'
    BY DEF TypeOK
  <2>2. StoreHeld'
    BY DEF StoreHeld, Outside, TypeOK
  <2>3. Outside'
    BY DEF Outside, TypeOK
  <2>4. ExpiresInTime' /\ WriteOK'
    BY DEF ExpiresInTime, WriteOK, Writing, TypeOK
  <2>5. NotesBound'
    BY DEF NotesBound, Noting
  <2> QED BY <2>1, <2>2, <2>3, <2>4, <2>5
<1>3. CASE Write(s)
  <2> USE <1>3 DEF Write
  <2> DEFINE rest == [NoWork EXCEPT !.hold = pending[s].hold]
  <2>1. rest \in Pending /\ rest.notes = 0 /\ pending' = [pending EXCEPT ![s] = rest]
    BY NoWorkOK DEF Pending, TypeOK
  <2> HIDE DEF rest
  <2>2. /\ pending[s] \in Pending /\ file' = pending[s].coord
        /\ TableOK(pending[s].coord.locks, now)
    BY DEF WriteOK, Writing, TypeOK
  <2>3. noted' + Cardinality(Noting') <= MaxNotes /\ noted' \in 0..MaxNotes
    <3>1. pending[s].notes \in 0..1 /\ noted' = noted + pending[s].notes /\ noted \in Nat
      BY <2>2 DEF Pending, TypeOK
    <3>2. Noting' = Noting \ {s}
      BY <2>1, NotedStep DEF TypeOK
    <3>3. Cardinality(Noting') =
            IF s \in Noting THEN Cardinality(Noting) - 1 ELSE Cardinality(Noting)
      BY <3>2, NotingFinite, FS_RemoveElement
    <3>4. Cardinality(Noting') \in Nat /\ (s \in Noting <=> pending[s].notes = 1)
      BY <3>2, NotingFinite, FS_RemoveElement, FS_CardinalityType DEF Noting
    <3> QED BY <3>1, <3>3, <3>4, NotingFinite DEF NotesBound
  <2>4. claim' \in [Path -> [Agent -> Nat]]
    BY <2>2, AfterType DEF Pending, TypeOK
  <2>5. file' \in Coord /\ OneRowPerPath(file'.locks)
    BY <2>2 DEF Pending, TableOK
  <2>6. TypeOK'
    <3>1. pending' \in [Server -> Pending] BY <2>1 DEF TypeOK
    <3>2. pc' \in [Server -> {"idle", "call", "loaded", "torn", "index", "done"}] BY DEF TypeOK
    <3> QED BY <2>3, <2>4, <2>5, <3>1, <3>2 DEF TypeOK
  <2>7. StoreHeld' /\ Outside'
    BY DEF StoreHeld, Outside, TypeOK
  <2>8. ExpiresInTime' /\ WriteOK'
    BY <2>1, <2>2 DEF ExpiresInTime, WriteOK, Writing, TableOK, TypeOK
  <2> QED BY <2>3, <2>6, <2>7, <2>8 DEF NotesBound
<1>4. CASE Crash(s)
  <2> USE <1>4 DEF Crash
  <2>1. TypeOK'
    BY NoWorkOK DEF TypeOK
  <2>2. StoreHeld' /\ Outside'
    BY DEF StoreHeld, Outside, TypeOK
  <2>3. ExpiresInTime' /\ WriteOK'
    BY DEF ExpiresInTime, WriteOK, Writing, TypeOK
  <2>4. NotesBound'
    <3>1. Noting' \subseteq Noting
      BY NoWorkOK DEF Noting, TypeOK
    <3>2. Cardinality(Noting') <= Cardinality(Noting) /\ Cardinality(Noting') \in Nat
      BY <3>1, NotingFinite, FS_Subset, FS_CardinalityType
    <3> QED BY <3>2, NotingFinite DEF NotesBound, TypeOK
  <2> QED BY <2>1, <2>2, <2>3, <2>4
<1> QED BY <1>1, <1>2, <1>3, <1>4

LEMMA NextInv == Inv /\ [Next]_vars => Inv'
<1> SUFFICES ASSUME Inv, [Next]_vars PROVE Inv'
  OBVIOUS
<1>1. CASE UNCHANGED vars
  BY <1>1 DEF vars, Inv, TypeOK, StoreHeld, ExpiresInTime, WriteOK, Writing, Outside,
              NotesBound, Noting
<1>2. CASE Tick
  <2> USE <1>2 DEF Tick, Inv
  <2>1. TypeOK' /\ StoreHeld' /\ Outside' /\ NotesBound'
    BY DEF TypeOK, StoreHeld, Outside, NotesBound, Noting
  <2>2. ExpiresInTime'
    BY DEF ExpiresInTime, TypeOK, Coord, Row
  <2>3. WriteOK'
    BY LaterOK DEF WriteOK, Writing, TypeOK
  <2> QED BY <2>1, <2>2, <2>3
<1> QED BY <1>1, <1>2, ServerStep, LockToolStep, EngineStep DEF Next, Proceed, Tool

LEMMA Invariance == Spec => []Inv
BY InitInv, NextInv, PTL DEF Spec

\* However the writes of worktrees and of registrations overwrite each other,
\* and whenever servers are killed: the file keeps one row per path, a server
\* in a call has the store of its worktree, and no lock in the file outlives
\* the TTL (locks::save, Engine's store lock).
THEOREM WellFormed == Spec => []CrashSafe
BY Invariance, PTL DEF Inv, CrashSafe

-------------------------------------------------------------------------------
(* One worktree, whose servers are registered and are not killed.              *)

\* What the store lock needs to make every call run alone.
Serial ==
    /\ \E w \in Worktree : \A s \in Server : Home[s] = w
    /\ Fresh = {}
    /\ MaxCrashes = 0

\* coord has every notification counted so far and every registration.
Complete(coord, notes) == coord.notes = notes /\ Server \subseteq coord.agents

\* The file is complete but while a server is writing it, and what a server
\* is about to write is the file with its own notification added.
SerialInv ==
    /\ Inv
    /\ registered = Server
    /\ (\A s \in Server : pc[s] # "torn") => file # Torn /\ Complete(file, noted)
    /\ \A s \in Server : Writing(s) =>
        Complete(pending[s].coord, noted + pending[s].notes)
    /\ \A s \in Server : pc[s] = "index" => pending[s].hold # {}

\* The store lock leaves one server in a call.
LEMMA Alone ==
    ASSUME Serial, SerialInv, NEW s \in Server, NEW t \in Server,
           pc[s] # "idle", pc[t] # "idle"
    PROVE  s = t
BY DEF Serial, SerialInv, Inv, StoreHeld

\* A server that is about to read the file reads all of it.
LEMMA Reads ==
    ASSUME Serial, SerialInv, NEW s \in Server, pc[s] \in {"call", "index"}
    PROVE  /\ file # Torn /\ Load = file /\ file \in Coord /\ Complete(file, noted)
           /\ \A t \in Server \ {s} : pc[t] = "idle"
<1>1. \A t \in Server \ {s} : pc[t] = "idle"
  BY Alone
<1>2. \A t \in Server : pc[t] # "torn"
  BY <1>1
<1> QED BY <1>1, <1>2 DEF SerialInv, Load, Inv, TypeOK

LEMMA SerialInit == Serial /\ Init => SerialInv
<1> SUFFICES ASSUME Serial, Init PROVE SerialInv
  OBVIOUS
<1>1. file = [Empty EXCEPT !.agents = Server] /\ Empty \in Coord /\ Empty.notes = 0
  BY NoWorkOK DEF Init, Serial, Empty
<1>2. file # Torn /\ Complete(file, noted)
  BY <1>1, TornAssumption DEF Init, Coord, Complete
<1> QED BY <1>2, InitInv DEF SerialInv, Init, Serial, Writing

\* A server reads the file and has something to write that keeps the rest.
LEMMA SerialLoad ==
    ASSUME Serial, SerialInv, Inv', NEW s \in Server, NEW work \in Pending,
           pc[s] \in {"call", "index"},
           Complete(work.coord, noted + work.notes),
           pending' = [pending EXCEPT ![s] = work],
           pc' = [pc EXCEPT ![s] = "loaded"],
           UNCHANGED <<file, registered, noted>>
    PROVE  SerialInv'
<1>1. \A t \in Server : /\ pending'[t] = IF t = s THEN work ELSE pending[t]
                        /\ pc'[t] = IF t = s THEN "loaded" ELSE pc[t]
  BY DEF SerialInv, Inv, TypeOK
<1> QED BY <1>1, Reads DEF SerialInv, Complete, Writing

LEMMA SerialPrepare ==
    ASSUME Serial, SerialInv, Inv', NEW s \in Server, NEW coord \in Coord,
           NEW told \in SUBSET Told, pc[s] \in {"call", "index"}, Complete(coord, noted),
           Prepare(s, coord, told), UNCHANGED <<file, registered, noted>>
    PROVE  SerialInv'
<1> DEFINE work == Prepared(coord, told)
<1>1. work \in Pending /\ work.coord = coord /\ work.notes = 0 /\ noted \in Nat
  BY PreparedOK DEF SerialInv, Inv, TypeOK
<1>2. pending' = [pending EXCEPT ![s] = work] /\ pc' = [pc EXCEPT ![s] = "loaded"]
  BY DEF Prepare, Prepared
<1>3. Complete(work.coord, noted + work.notes)
  BY <1>1 DEF Complete
<1> HIDE DEF work
<1> QED BY <1>1, <1>2, <1>3, SerialLoad

LEMMA SerialNote ==
    ASSUME Serial, SerialInv, Inv', NEW s \in Server, NEW hold \in SUBSET Path,
           InCall(s), Note(s, hold)
    PROVE  SerialInv'
<1> DEFINE coord == [Load EXCEPT !.notes = @ + 1]
           work == Noted(coord, hold)
<1>1. pc[s] = "call" /\ UNCHANGED <<file, registered, noted>>
  BY DEF InCall
<1>2. coord \in Coord /\ Complete(coord, noted + 1)
  BY <1>1, Reads DEF Complete, Coord
<1> HIDE DEF coord
<1>3. work \in Pending /\ work.coord = coord /\ work.notes = 1
  BY <1>2, NotedOK
<1>4. pending' = [pending EXCEPT ![s] = work] /\ pc' = [pc EXCEPT ![s] = "loaded"]
  BY DEF Note, Noted, coord
<1>5. Complete(work.coord, noted + work.notes)
  BY <1>2, <1>3 DEF Complete
<1> HIDE DEF work
<1> QED BY <1>1, <1>3, <1>4, <1>5, SerialLoad

-------------------------------------------------------------------------------
\* What agents believe after a reply, as DocLocks writes it.

Believing(belief, p, a, until) == [belief EXCEPT ![p][a] = until]
Forgetting(belief, a) == [p \in Path |-> [belief[p] EXCEPT ![a] = 0]]

LEMMA AfterOne ==
    ASSUME NEW belief \in [Path -> [Agent -> Nat]], NEW p \in Path, NEW a \in Agent,
           NEW until \in Nat
    PROVE  After(belief, {Tell(p, a, until)}) = Believing(belief, p, a, until)
<1> DEFINE one == Tell(p, a, until)
           told == {one}
<1>a. one \in told /\ \A t \in told : t = one
  OBVIOUS
<1>b. one.path = p /\ one.agent = a /\ one.until = until
  BY DEF Tell
<1>c. one \in Told
  BY TellOK
<1> HIDE DEF told, one
<1>1. \A q \in Path, b \in Agent :
        (\E t \in told : t.path = q /\ t.agent = b) <=> q = p /\ b = a
  BY <1>a, <1>b
<1>2. (CHOOSE t \in told : t.path = p /\ t.agent = a) = one
  <2>1. (CHOOSE t \in told : t.path = p /\ t.agent = a) \in told
    BY <1>1
  <2> QED BY <1>a, <2>1
<1>3. one.until = until
  BY <1>b
<1>4. \A q \in Path, b \in Agent :
        After(belief, told)[q][b] = IF q = p /\ b = a THEN until ELSE belief[q][b]
  BY <1>1, <1>2, <1>3 DEF After
<1>5. After(belief, told) \in [Path -> [Agent -> Nat]]
  BY <1>c, AfterType DEF told
<1>6. After(belief, told) = [belief EXCEPT ![p][a] = until]
  BY <1>4, <1>5
<1> QED BY <1>6 DEF told, one, Believing

LEMMA AfterNone ==
    ASSUME NEW belief \in [Path -> [Agent -> Nat]]
    PROVE  After(belief, {}) = belief
BY DEF After

LEMMA AfterAll ==
    ASSUME NEW belief \in [Path -> [Agent -> Nat]], NEW a \in Agent
    PROVE  After(belief, {Tell(p, a, 0) : p \in Path}) = Forgetting(belief, a)
<1> DEFINE told == {Tell(p, a, 0) : p \in Path}
<1>a. /\ \A q \in Path : Tell(q, a, 0) \in told
      /\ \A t \in told : \E q \in Path : t = Tell(q, a, 0)
  OBVIOUS
<1>b. \A q \in Path :
        Tell(q, a, 0).path = q /\ Tell(q, a, 0).agent = a /\ Tell(q, a, 0).until = 0
  BY DEF Tell
<1> HIDE DEF told
<1>1. \A q \in Path, b \in Agent :
        (\E t \in told : t.path = q /\ t.agent = b) <=> b = a
  BY <1>a, <1>b
<1>2. ASSUME NEW q \in Path
      PROVE  (CHOOSE t \in told : t.path = q /\ t.agent = a).until = 0
  <2>1. (CHOOSE t \in told : t.path = q /\ t.agent = a) \in told
    BY <1>1
  <2> QED BY <1>a, <1>b, <2>1
<1>3. \A q \in Path, b \in Agent :
        After(belief, told)[q][b] = IF b = a THEN 0 ELSE belief[q][b]
  BY <1>1, <1>2 DEF After
<1>4. told \in SUBSET Told
  BY TellOK DEF told
<1>5. After(belief, told) \in [Path -> [Agent -> Nat]]
  BY <1>4, AfterType
<1>6. After(belief, told) = [p \in Path |-> [belief[p] EXCEPT ![a] = 0]]
  BY <1>3, <1>5
<1> QED BY <1>6 DEF told, Forgetting

-------------------------------------------------------------------------------
(* Each call is one DocLocks operation at the moment it reads the file.        *)

\* With no write in flight the file and the replies are what is in effect; a
\* write in flight is in effect already.
LEMMA NoneInFlight ==
    ASSUME \A s \in Server : ~Writing(s)
    PROVE  Effective = file /\ EffectiveClaim = claim
BY DEF Writing, InFlight, Effective, EffectiveClaim

LEMMA OneInFlight ==
    ASSUME NEW s \in Server, InFlight = {s}
    PROVE  Effective = pending[s].coord /\ EffectiveClaim = After(claim, pending[s].told)
<1>1. (CHOOSE t \in InFlight : TRUE) = s
  OBVIOUS
<1> QED BY <1>1 DEF Effective, EffectiveClaim

\* Reading the file puts the result of the call in effect.
LEMMA Takes ==
    ASSUME Serial, SerialInv, NEW s \in Server, NEW work \in Pending,
           pc[s] \in {"call", "index"},
           pending' = [pending EXCEPT ![s] = work],
           pc' = [pc EXCEPT ![s] = "loaded"], UNCHANGED claim
    PROVE  /\ Effective = file /\ EffectiveClaim = claim
           /\ Effective' = work.coord
           /\ EffectiveClaim' = After(claim, work.told)
<1>1. Effective = file /\ EffectiveClaim = claim
  BY Reads, NoneInFlight DEF Writing
<1>2. InFlight' = {s}
  BY Reads DEF InFlight, SerialInv, Inv, TypeOK
<1>3. (CHOOSE t \in InFlight' : TRUE) = s
  BY <1>2
<1>4. pending'[s] = work
  BY DEF SerialInv, Inv, TypeOK
<1>5. Effective' = work.coord /\ EffectiveClaim' = After(claim', work.told)
  BY <1>2, <1>3, <1>4 DEF Effective, EffectiveClaim
<1> QED BY <1>1, <1>5

\* The same of Prepare and Note.
LEMMA PrepareTakes ==
    ASSUME Serial, SerialInv, Inv', NEW s \in Server, NEW coord \in Coord,
           NEW told \in SUBSET Told, pc[s] \in {"call", "index"},
           Complete(coord, noted), Prepare(s, coord, told),
           UNCHANGED <<file, registered, noted, claim>>
    PROVE  /\ SerialInv'
           /\ Effective = file /\ EffectiveClaim = claim
           /\ Effective' = coord /\ EffectiveClaim' = After(claim, told)
<1> DEFINE work == Prepared(coord, told)
<1>1. SerialInv'
  BY SerialPrepare
<1>2. pending' = [pending EXCEPT ![s] = work] /\ pc' = [pc EXCEPT ![s] = "loaded"]
  BY DEF Prepare, Prepared
<1>3. work \in Pending /\ work.coord = coord /\ work.told = told
  BY PreparedOK
<1> HIDE DEF work
<1>4. /\ Effective = file /\ EffectiveClaim = claim
      /\ Effective' = work.coord /\ EffectiveClaim' = After(claim, work.told)
  BY <1>2, <1>3, Takes
<1> QED BY <1>1, <1>3, <1>4

LEMMA NoteTakes ==
    ASSUME Serial, SerialInv, Inv', NEW s \in Server, NEW hold \in SUBSET Path,
           InCall(s), Note(s, hold)
    PROVE  /\ SerialInv'
           /\ Effective = file /\ EffectiveClaim = claim
           /\ Effective'.locks = file.locks /\ Effective'.log = file.log
           /\ EffectiveClaim' = claim
<1> DEFINE coord == [Load EXCEPT !.notes = @ + 1]
           work == Noted(coord, hold)
<1>1. SerialInv'
  BY SerialNote
<1>2. /\ pending' = [pending EXCEPT ![s] = work]
      /\ pc' = [pc EXCEPT ![s] = "loaded"]
      /\ pc[s] = "call" /\ UNCHANGED claim
  BY DEF Note, Noted, InCall
<1>3. coord \in Coord /\ coord.locks = file.locks /\ coord.log = file.log
  BY <1>2, Reads DEF Coord
<1>4. After(claim, {}) = claim
  BY AfterNone DEF SerialInv, Inv, TypeOK
<1> HIDE DEF coord
<1>5. work \in Pending /\ work.coord = coord /\ work.told = {}
  BY <1>3, NotedOK
<1> HIDE DEF work
<1>6. /\ Effective = file /\ EffectiveClaim = claim
      /\ Effective' = work.coord /\ EffectiveClaim' = After(claim, work.told)
  BY <1>2, <1>5, Takes
<1> QED BY <1>1, <1>3, <1>4, <1>5, <1>6

\* The two modules say the same of a table and of the log.
LEMMA SameTable ==
    ASSUME NEW table, NEW p, NEW a, NEW t, NEW paths
    PROVE  /\ Abstract!WriteLock(table, p, a, t) = WriteLock(table, p, a, t)
           /\ Abstract!WithoutPaths(table, paths) = WithoutPaths(table, paths)
           /\ Abstract!WithoutAgent(table, a) = WithoutAgent(table, a)
           /\ Abstract!Reap(table, t) = Reap(table, t)
           /\ Abstract!HoldAuto(table, paths, a, t) = HoldAuto(table, paths, a, t)
           /\ Abstract!Live(table, p, t) = Live(table, p, t)
BY DEF WriteLock, WithoutPaths, WithoutAgent, Reap, HoldAuto, Live, Claimed, LockRow,
       Abstract!WriteLock, Abstract!WithoutPaths, Abstract!WithoutAgent, Abstract!Reap,
       Abstract!HoldAuto, Abstract!Live, Abstract!Claimed, Abstract!LockRow

LEMMA SameBlocking ==
    ASSUME Effective = file, Load = file, NEW w \in Worktree, NEW p, NEW a
    PROVE  /\ Abstract!Table(w) = Load.locks
           /\ Abstract!Blocking(w, p, a) = Blocking(Load, p, a)
BY DEF Blocking, Live, Claimed, Abstract!Table,
       Abstract!Blocking, Abstract!Live, Abstract!Claimed

\* One step of a call, seen from DocLocks: a state that keeps the invariant,
\* and an operation or nothing.
Refined == SerialInv' /\ [Abstract!Next]_(Abstract!vars)

LEMMA GrantRefines ==
    ASSUME Serial, SerialInv, Inv', NEW s \in Server, NEW p \in Path, NEW a \in Agent,
           InCall(s), NEW coord \in Coord, TableOK(coord.locks, now),
           coord.locks = file.locks, Complete(coord, noted), Grant(s, p, a, coord)
    PROVE  /\ SerialInv'
           /\ Effective = file /\ Effective'.log = coord.log
           /\ Abstract!Grant(Home[s], p, a)
<1> DEFINE new == [coord EXCEPT !.locks = WriteLock(@, p, a, now)]
<1>1. now \in Nat /\ claim \in [Path -> [Agent -> Nat]]
  BY DEF SerialInv, Inv, TypeOK
<1>2. TableOK(WriteLock(coord.locks, p, a, now), now)
  BY <1>1, WriteLockOK
<1>3. new \in Coord /\ new.locks = WriteLock(file.locks, p, a, now) /\ new.log = coord.log
  BY <1>2 DEF Coord, TableOK
<1>4. Complete(new, noted)
  BY DEF Complete, Coord
<1>5. /\ Prepare(s, new, {Tell(p, a, now + TTL)}) /\ pc[s] = "call"
      /\ local' = [local EXCEPT ![Home[s]] = WriteLock(@, p, a, now)]
      /\ UNCHANGED <<now, file, registered, noted, claim>>
  BY DEF Grant, InCall
<1>6. {Tell(p, a, now + TTL)} \in SUBSET Told
  BY <1>1, TellOK
<1> HIDE DEF new
<1>7. /\ SerialInv' /\ Effective = file /\ EffectiveClaim = claim
      /\ Effective' = new /\ EffectiveClaim' = After(claim, {Tell(p, a, now + TTL)})
  BY <1>3, <1>4, <1>5, <1>6, PrepareTakes
<1>8. EffectiveClaim' = [EffectiveClaim EXCEPT ![p][a] = now + TTL]
  <2>1. now + TTL \in Nat
    BY <1>1
  <2>2. After(claim, {Tell(p, a, now + TTL)}) = Believing(claim, p, a, now + TTL)
    BY <1>1, <2>1, AfterOne
  <2> QED BY <1>7, <2>2 DEF Believing
<1>9. Effective'.locks = WriteLock(Effective.locks, p, a, now)
  BY <1>3, <1>7
<1>10. local' = [local EXCEPT ![Home[s]] = Abstract!WriteLock(@, p, a, now)]
  <2>1. Abstract!WriteLock(local[Home[s]], p, a, now) = WriteLock(local[Home[s]], p, a, now)
    BY SameTable
  <2> QED BY <1>5, <2>1
<1>11. Effective'.locks = Abstract!WriteLock(Effective.locks, p, a, now)
  BY <1>9, SameTable
<1>12. Abstract!Grant(Home[s], p, a)
  BY <1>5, <1>8, <1>10, <1>11 DEF Abstract!Grant, Abstract!Told
<1> QED BY <1>3, <1>7, <1>12

LEMMA DenyRefines ==
    ASSUME Serial, SerialInv, Inv', NEW s \in Server, NEW p \in Path, NEW a \in Agent,
           InCall(s), Deny(s, p, a)
    PROVE  /\ SerialInv' /\ Effective = file
           /\ Abstract!Told(p, a, 0)
           /\ UNCHANGED <<now, Abstract!tables, Abstract!logs>>
<1>1. /\ Prepare(s, file, {Tell(p, a, 0)}) /\ pc[s] = "call" /\ UNCHANGED local
      /\ file \in Coord /\ Complete(file, noted)
      /\ UNCHANGED <<now, file, registered, noted, claim>>
  BY Reads DEF Deny, InCall
<1>2. {Tell(p, a, 0)} \in SUBSET Told
  BY TellOK
<1>3. /\ SerialInv' /\ Effective = file /\ EffectiveClaim = claim
      /\ Effective' = file /\ EffectiveClaim' = After(claim, {Tell(p, a, 0)})
  BY <1>1, <1>2, PrepareTakes
<1>4. EffectiveClaim' = [EffectiveClaim EXCEPT ![p][a] = 0]
  <2>1. claim \in [Path -> [Agent -> Nat]]
    BY DEF SerialInv, Inv, TypeOK
  <2>2. After(claim, {Tell(p, a, 0)}) = Believing(claim, p, a, 0)
    BY <2>1, AfterOne
  <2> QED BY <1>3, <2>2 DEF Believing
<1> QED BY <1>1, <1>3, <1>4 DEF Abstract!Told, Abstract!tables, Abstract!logs

\* document_lock acquire, refresh, release.
LEMMA LockCallRefines ==
    ASSUME Serial, SerialInv, Inv', NEW s \in Server, NEW p \in Path, NEW a \in Agent,
           \/ \E force \in BOOLEAN : Acquire(s, p, a, force)
           \/ Refresh(s, p, a)
           \/ Release(s, p, a)
    PROVE  SerialInv' /\ Abstract!LockCall(Home[s], p, a)
<1> DEFINE w == Home[s]
           robbed == Blocking(Load, p, a)
<1>1. /\ InCall(s) /\ pc[s] = "call" /\ w \in Worktree /\ now \in Nat
      /\ file \in Coord /\ Load = file /\ Complete(file, noted)
      /\ TableOK(file.locks, now) /\ Effective = file
  <2>1. InCall(s) /\ pc[s] = "call"
    BY DEF Acquire, Refresh, Release, InCall
  <2>2. \A t \in Server : ~Writing(t)
    BY <2>1, Reads DEF Writing
  <2>3. Load = file
    BY <2>1, Reads
  <2>4. TableOK(file.locks, now)
    BY <2>3, LoadOK DEF SerialInv
  <2> QED BY <2>1, <2>2, <2>3, <2>4, Reads, NoneInFlight DEF SerialInv, Inv, TypeOK
<1>2. /\ Abstract!Blocking(w, p, a) = robbed
      /\ Abstract!Live(Abstract!Table(w), p, now) = Live(Load.locks, p, now)
  BY <1>1, SameBlocking, SameTable
<1> HIDE DEF w
<1>3. ASSUME Deny(s, p, a)
      PROVE  /\ SerialInv' /\ Abstract!Told(p, a, 0)
             /\ UNCHANGED <<now, Abstract!tables, Abstract!logs>>
  BY <1>1, <1>3, DenyRefines
<1>4. ASSUME NEW force \in BOOLEAN, Acquire(s, p, a, force)
      PROVE  SerialInv' /\ Abstract!LockCall(w, p, a)
  <2>1. CASE robbed # {} /\ ~force
    <3>1. Deny(s, p, a)
      BY <1>4, <2>1 DEF Acquire
    <3> QED BY <1>2, <1>3, <2>1, <3>1 DEF Abstract!LockCall, Abstract!Refused, w
  <2>2. CASE ~(robbed # {} /\ ~force)
    <3> DEFINE coord == [Load EXCEPT !.log = @ \cup Steals(robbed, a)]
    <3>1. Grant(s, p, a, coord)
      BY <1>4, <2>2 DEF Acquire
    <3>2. Steals(robbed, a) \subseteq Conflict
      BY <1>1 DEF Steals, Conflict, Row, Blocking, Claimed, Live, TableOK
    <3>3. /\ coord \in Coord /\ coord.locks = file.locks
          /\ coord.log = file.log \cup Steals(robbed, a)
      BY <1>1, <3>2 DEF Coord
    <3>4. Complete(coord, noted)
      BY <1>1 DEF Complete, Coord
    <3> HIDE DEF coord
    <3>5. /\ SerialInv' /\ Effective'.log = coord.log
          /\ Abstract!Grant(w, p, a)
      BY <1>1, <3>1, <3>3, <3>4, GrantRefines DEF w
    <3>6. Abstract!RecordConflict(w, robbed, a)
      BY <1>1, <3>3, <3>5 DEF Abstract!RecordConflict, Steals, Abstract!Steals
    <3>7. Abstract!Acquire(w, p, a, force)
      BY <1>2, <2>2, <3>5, <3>6 DEF Abstract!Acquire
    <3> QED BY <3>5, <3>7 DEF Abstract!LockCall, w
  <2> QED BY <2>1, <2>2
<1>5. CASE Refresh(s, p, a)
  <2>1. CASE \E r \in Live(Load.locks, p, now) : r.agent = a
    <3>1. Grant(s, p, a, file)
      BY <1>1, <1>5, <2>1 DEF Refresh
    <3>2. SerialInv' /\ Effective'.log = file.log /\ Abstract!Grant(w, p, a)
      BY <1>1, <3>1, GrantRefines DEF w
    <3>3. Abstract!Refresh(w, p, a)
      BY <1>1, <1>2, <2>1, <3>2 DEF Abstract!Refresh, Abstract!logs
    <3> QED BY <3>2, <3>3 DEF Abstract!LockCall, w
  <2>2. CASE ~\E r \in Live(Load.locks, p, now) : r.agent = a
    <3>1. Deny(s, p, a)
      BY <1>5, <2>2 DEF Refresh
    <3> QED BY <1>2, <1>3, <2>2, <3>1 DEF Abstract!LockCall, Abstract!NotRefreshed, w
  <2> QED BY <2>1, <2>2
<1>6. CASE Release(s, p, a)
  <2>1. CASE Live(Load.locks, p, now) = {} \/ robbed # {}
    <3>1. Deny(s, p, a)
      BY <1>6, <2>1 DEF Release
    <3> QED BY <1>2, <1>3, <2>1, <3>1 DEF Abstract!LockCall, Abstract!NotReleased, w
  <2>2. CASE ~(Live(Load.locks, p, now) = {} \/ robbed # {})
    <3> DEFINE coord == [Load EXCEPT !.locks = WithoutPaths(@, {p})]
    <3>1. /\ Prepare(s, coord, {Tell(p, a, 0)})
          /\ local' = [local EXCEPT ![w] = WithoutPaths(@, {p})]
          /\ UNCHANGED <<now, file, registered, noted, claim>>
      BY <1>6, <2>2 DEF Release, InCall, w
    <3>2. WithoutPaths(file.locks, {p}) \subseteq Row
      BY <1>1 DEF TableOK, WithoutPaths
    <3>3. /\ coord \in Coord /\ coord.locks = WithoutPaths(file.locks, {p})
          /\ coord.log = file.log
      BY <1>1, <3>2 DEF Coord
    <3>4. Complete(coord, noted)
      BY <1>1 DEF Complete, Coord
    <3> HIDE DEF coord
    <3>5. {Tell(p, a, 0)} \in SUBSET Told
      BY TellOK
    <3>6. /\ SerialInv' /\ EffectiveClaim = claim
          /\ Effective' = coord /\ EffectiveClaim' = After(claim, {Tell(p, a, 0)})
      BY <1>1, <3>1, <3>3, <3>4, <3>5, PrepareTakes
    <3>7. Abstract!Told(p, a, 0)
      <4>1. claim \in [Path -> [Agent -> Nat]]
        BY DEF SerialInv, Inv, TypeOK
      <4>2. After(claim, {Tell(p, a, 0)}) = Believing(claim, p, a, 0)
        BY <4>1, AfterOne
      <4> QED BY <3>6, <4>2 DEF Believing, Abstract!Told
    <3>8. Abstract!Remove(w, p)
      <4>1. /\ Abstract!WithoutPaths(local[w], {p}) = WithoutPaths(local[w], {p})
            /\ Abstract!WithoutPaths(file.locks, {p}) = WithoutPaths(file.locks, {p})
        BY SameTable
      <4> QED BY <1>1, <3>1, <3>3, <3>6, <4>1 DEF Abstract!Remove
    <3>9. Abstract!Release(w, p, a)
      BY <1>1, <1>2, <2>2, <3>1, <3>3, <3>6, <3>7, <3>8 DEF Abstract!Release, Abstract!logs
    <3> QED BY <3>6, <3>9 DEF Abstract!LockCall, w
  <2> QED BY <2>1, <2>2
<1> QED BY <1>4, <1>5, <1>6 DEF w

\* An operation that removes rows from both tables and tells agents so.
LEMMA RemovalTakes ==
    ASSUME Serial, SerialInv, Inv', NEW s \in Server, InCall(s),
           NEW rows \in SUBSET Load.locks, NEW told \in SUBSET Told,
           Prepare(s, [Load EXCEPT !.locks = rows], told)
    PROVE  /\ SerialInv' /\ Effective = file /\ EffectiveClaim = claim
           /\ Effective'.locks = rows /\ Effective'.log = file.log
           /\ EffectiveClaim' = After(claim, told)
<1> DEFINE coord == [Load EXCEPT !.locks = rows]
<1>1. /\ pc[s] = "call" /\ file \in Coord /\ Load = file /\ Complete(file, noted)
      /\ UNCHANGED <<now, file, registered, noted, claim>>
  BY Reads DEF InCall
<1>2. rows \subseteq Row
  BY LoadOK DEF SerialInv, TableOK
<1>3. coord \in Coord /\ coord.locks = rows /\ coord.log = file.log
  BY <1>1, <1>2 DEF Coord
<1>4. Complete(coord, noted)
  BY <1>1 DEF Complete, Coord
<1>5. Prepare(s, coord, told)
  OBVIOUS
<1> HIDE DEF coord
<1>6. /\ SerialInv' /\ Effective = file /\ EffectiveClaim = claim
      /\ Effective' = coord /\ EffectiveClaim' = After(claim, told)
  BY <1>1, <1>3, <1>4, <1>5, PrepareTakes
<1> QED BY <1>3, <1>6

LEMMA ReleaseAllRefines ==
    ASSUME Serial, SerialInv, Inv', NEW s \in Server, NEW a \in Agent, ReleaseAll(s, a)
    PROVE  SerialInv' /\ Abstract!ReleaseAll(Home[s], a)
<1>1. /\ InCall(s) /\ pc[s] = "call" /\ UNCHANGED now
      /\ Prepare(s, [Load EXCEPT !.locks = WithoutAgent(Load.locks, a)],
                 {Tell(p, a, 0) : p \in Path})
      /\ local' = [local EXCEPT ![Home[s]] = WithoutAgent(@, a)]
  BY DEF ReleaseAll, InCall
<1>2. WithoutAgent(Load.locks, a) \in SUBSET Load.locks
  BY DEF WithoutAgent
<1>3. {Tell(p, a, 0) : p \in Path} \in SUBSET Told
  BY TellOK
<1>4. /\ SerialInv' /\ Effective = file /\ EffectiveClaim = claim
      /\ Effective'.locks = WithoutAgent(Load.locks, a) /\ Effective'.log = file.log
      /\ EffectiveClaim' = After(claim, {Tell(p, a, 0) : p \in Path})
  BY <1>1, <1>2, <1>3, RemovalTakes
<1>5. claim \in [Path -> [Agent -> Nat]] /\ Load = file
  BY <1>1, Reads DEF SerialInv, Inv, TypeOK
<1>6. After(claim, {Tell(p, a, 0) : p \in Path}) = Forgetting(claim, a)
  BY <1>5, AfterAll
<1>7. /\ Abstract!WithoutAgent(local[Home[s]], a) = WithoutAgent(local[Home[s]], a)
      /\ Abstract!WithoutAgent(file.locks, a) = WithoutAgent(file.locks, a)
  BY SameTable
<1> QED BY <1>1, <1>4, <1>5, <1>6, <1>7 DEF Abstract!ReleaseAll, Abstract!logs, Forgetting

LEMMA ReapRefines ==
    ASSUME Serial, SerialInv, Inv', NEW s \in Server, ReapExpired(s)
    PROVE  SerialInv' /\ Abstract!ReapExpired(Home[s])
<1>1. /\ InCall(s) /\ pc[s] = "call" /\ UNCHANGED now
      /\ Prepare(s, [Load EXCEPT !.locks = Reap(Load.locks, now)], {})
      /\ local' = [local EXCEPT ![Home[s]] = Reap(@, now)]
  BY DEF ReapExpired, InCall
<1>2. Reap(Load.locks, now) \in SUBSET Load.locks /\ {} \in SUBSET Told
  BY DEF Reap
<1>3. /\ SerialInv' /\ Effective = file /\ EffectiveClaim = claim
      /\ Effective'.locks = Reap(Load.locks, now) /\ Effective'.log = file.log
      /\ EffectiveClaim' = After(claim, {})
  BY <1>1, <1>2, RemovalTakes
<1>4. After(claim, {}) = claim /\ Load = file
  BY <1>1, Reads, AfterNone DEF SerialInv, Inv, TypeOK
<1>5. /\ Abstract!Reap(local[Home[s]], now) = Reap(local[Home[s]], now)
      /\ Abstract!Reap(file.locks, now) = Reap(file.locks, now)
  BY SameTable
<1> QED BY <1>1, <1>3, <1>4, <1>5 DEF Abstract!ReapExpired, Abstract!logs

\* Asking, and a note that changes no lock, are nothing to DocLocks.
LEMMA AskRefines ==
    ASSUME Serial, SerialInv, Inv', NEW s \in Server, Ask(s)
    PROVE  SerialInv' /\ UNCHANGED Abstract!vars
<1>1. /\ InCall(s) /\ pc[s] = "call" /\ UNCHANGED <<now, local>>
      /\ Load = file /\ file \in Coord /\ Complete(file, noted)
      /\ Prepare(s, file, {}) /\ UNCHANGED <<file, registered, noted, claim>>
  BY Reads DEF Ask, InCall
<1>2. {} \in SUBSET Told /\ After(claim, {}) = claim
  BY AfterNone DEF SerialInv, Inv, TypeOK
<1>3. /\ SerialInv' /\ Effective = file /\ EffectiveClaim = claim
      /\ Effective' = file /\ EffectiveClaim' = After(claim, {})
  BY <1>1, <1>2, PrepareTakes
<1> QED BY <1>1, <1>2, <1>3 DEF Abstract!vars, Abstract!tables, Abstract!logs

LEMMA NoteRefines ==
    ASSUME Serial, SerialInv, Inv', NEW s \in Server, InCall(s),
           NEW hold \in SUBSET Path, Note(s, hold), UNCHANGED local
    PROVE  SerialInv' /\ UNCHANGED Abstract!vars
<1>1. UNCHANGED now
  BY DEF InCall
<1> QED BY <1>1, NoteTakes DEF Abstract!vars, Abstract!tables, Abstract!logs

LEMMA DropRefines ==
    ASSUME Serial, SerialInv, Inv', NEW s \in Server, NEW p \in Path, DropDocument(s, p)
    PROVE  SerialInv' /\ Abstract!DropDocument(Home[s], p)
<1>1. /\ InCall(s) /\ Note(s, {}) /\ UNCHANGED now
      /\ local' = [local EXCEPT ![Home[s]] = WithoutPaths(@, {p})]
  BY DEF DropDocument, InCall
<1>2. Abstract!WithoutPaths(local[Home[s]], {p}) = WithoutPaths(local[Home[s]], {p})
  BY SameTable
<1>3. {} \in SUBSET Path
  OBVIOUS
<1>4. Abstract!Dropped(Abstract!Claimed(local[Home[s]], p, now))
  BY DEF Abstract!Dropped
<1>5. /\ SerialInv' /\ Effective = file /\ EffectiveClaim = claim
      /\ Effective'.locks = file.locks /\ Effective'.log = file.log
      /\ EffectiveClaim' = claim
  BY <1>1, <1>3, NoteTakes
<1> QED BY <1>1, <1>2, <1>4, <1>5 DEF Abstract!DropDocument, Abstract!logs

\* The index-time locks, in the second read and write of index.
LEMMA HoldRefines ==
    ASSUME Serial, SerialInv, Inv', NEW s \in Server, HoldShared(s)
    PROVE  /\ SerialInv'
           /\ Abstract!IndexLocks(Home[s], ServerAgent[s], pending[s].hold)
           /\ pending[s].hold \in (SUBSET Path) \ {{}} /\ ServerAgent[s] \in Agent
<1> DEFINE hold == pending[s].hold
           locks == HoldAuto(Load.locks, hold, ServerAgent[s], now)
           coord == [Load EXCEPT !.locks = locks]
<1>1. /\ hold \in (SUBSET Path) \ {{}} /\ ServerAgent[s] \in Agent /\ now \in Nat
      /\ pc[s] = "index" /\ UNCHANGED <<now, local, file, registered, noted, claim>>
  BY DEF HoldShared, SerialInv, Inv, TypeOK, Pending
<1>2. Load = file /\ file \in Coord /\ Complete(file, noted) /\ TableOK(Load.locks, now)
  BY <1>1, Reads, LoadOK DEF SerialInv
<1>3. TableOK(locks, now)
  BY <1>1, <1>2, HoldAutoOK
<1>4. Prepare(s, coord, {})
  BY DEF HoldShared
<1>5. locks = Abstract!HoldAuto(file.locks, hold, ServerAgent[s], now)
  BY <1>2, SameTable
<1> HIDE DEF hold, locks
<1>6. coord \in Coord /\ coord.locks = locks /\ coord.log = file.log
  BY <1>2, <1>3 DEF Coord, TableOK
<1>7. Complete(coord, noted)
  BY <1>2 DEF Complete, Coord
<1> HIDE DEF coord
<1>8. {} \in SUBSET Told /\ After(claim, {}) = claim
  BY AfterNone DEF SerialInv, Inv, TypeOK
<1>9. /\ SerialInv' /\ Effective = file /\ EffectiveClaim = claim
      /\ Effective' = coord /\ EffectiveClaim' = After(claim, {})
  BY <1>1, <1>4, <1>6, <1>7, <1>8, PrepareTakes
<1>10. Abstract!IndexLocks(Home[s], ServerAgent[s], hold)
  BY <1>1, <1>5, <1>6, <1>8, <1>9 DEF Abstract!IndexLocks, Abstract!logs
<1> QED BY <1>1, <1>9, <1>10 DEF hold

\* Outside the read and the write of the file nothing is put in effect.
LEMMA EffectKept ==
    ASSUME InFlight' = InFlight, UNCHANGED <<file, pending, claim>>
    PROVE  Effective' = Effective /\ EffectiveClaim' = EffectiveClaim
BY DEF Effective, EffectiveClaim

LEMMA StoreRefines ==
    ASSUME Serial, SerialInv, Inv', NEW s \in Server,
           \/ TakeStore(s) \/ ReleaseStore(s) \/ OtherTool(s) \/ Clear(s) \/ Truncate(s)
    PROVE  SerialInv' /\ (UNCHANGED Abstract!vars \/ Abstract!Clear(Home[s]))
<1>1. /\ UNCHANGED <<pending, claim, now, registered, noted>>
      /\ InFlight' = InFlight
  BY DEF TakeStore, ReleaseStore, OtherTool, Clear, InCall, Truncate, InFlight,
         SerialInv, Inv, TypeOK
<1>2. CASE TakeStore(s) \/ ReleaseStore(s) \/ OtherTool(s)
  <2>1. SerialInv'
    BY <1>1, <1>2 DEF TakeStore, ReleaseStore, OtherTool, SerialInv, Inv, TypeOK,
                      Writing, Complete
  <2>2. UNCHANGED <<file, local>>
    BY <1>2 DEF TakeStore, ReleaseStore, OtherTool
  <2> QED BY <1>1, <2>1, <2>2, EffectKept DEF Abstract!vars, Abstract!tables, Abstract!logs
<1>3. CASE Clear(s)
  <2>1. SerialInv'
    BY <1>1, <1>3 DEF Clear, InCall, SerialInv, Inv, TypeOK, Writing, Complete
  <2>2. UNCHANGED file /\ local' = [local EXCEPT ![Home[s]] = {}]
    BY <1>3 DEF Clear, InCall
  <2>3. Effective' = Effective /\ EffectiveClaim' = EffectiveClaim
    BY <1>1, <2>2, EffectKept
  <2>4. [w \in Worktree |-> {}] = [[w \in Worktree |-> {}] EXCEPT ![Home[s]] = {}]
    OBVIOUS
  <2>5. Abstract!Dropped(Abstract!Promises)
    BY DEF Abstract!Dropped
  <2> QED BY <1>1, <2>1, <2>2, <2>3, <2>4, <2>5 DEF Abstract!Clear
<1>4. CASE Truncate(s)
  <2>1. pc[s] = "loaded" /\ pc' = [pc EXCEPT ![s] = "torn"] /\ UNCHANGED local
    BY <1>4 DEF Truncate
  <2>2. SerialInv'
    BY <1>1, <2>1 DEF SerialInv, Inv, TypeOK, Writing, Complete
  <2>3. InFlight = {s}
    BY <2>1, Alone DEF InFlight, SerialInv, Inv, TypeOK
  <2>4. InFlight' = {s}
    BY <1>1, <2>3
  <2>5. (CHOOSE t \in InFlight' : TRUE) = s /\ (CHOOSE t \in InFlight : TRUE) = s
    BY <2>3, <2>4
  <2>6. Effective' = Effective /\ EffectiveClaim' = EffectiveClaim
    BY <1>1, <2>3, <2>4, <2>5 DEF Effective, EffectiveClaim
  <2> QED BY <1>1, <2>1, <2>2, <2>6 DEF Abstract!vars, Abstract!tables, Abstract!logs
<1> QED BY <1>2, <1>3, <1>4

\* The write leaves in the file what was in effect already.
LEMMA WriteRefines ==
    ASSUME Serial, SerialInv, Inv', NEW s \in Server, Write(s)
    PROVE  SerialInv' /\ UNCHANGED Abstract!vars
<1> DEFINE rest == [NoWork EXCEPT !.hold = pending[s].hold]
<1>1. /\ pc[s] = "torn" /\ file' = pending[s].coord /\ UNCHANGED <<now, local>>
      /\ claim' = After(claim, pending[s].told)
      /\ noted' = noted + pending[s].notes
      /\ pending' = [pending EXCEPT ![s] = rest]
      /\ pc' = [pc EXCEPT ![s] = IF pending[s].hold # {} THEN "index" ELSE "done"]
      /\ registered' = registered
  BY DEF Write, SerialInv
<1>2. pending[s] \in Pending /\ rest.hold = pending[s].hold
  <2>1. NoWork \in [coord : Coord, told : SUBSET Told, notes : 0..1, hold : SUBSET Path]
    BY NoWorkOK DEF Pending
  <2> QED BY <2>1 DEF SerialInv, Inv, TypeOK
<1>3. /\ Complete(pending[s].coord, noted + pending[s].notes)
      /\ pending[s].coord \in Coord
  BY <1>1, <1>2 DEF SerialInv, Writing, Pending
<1>4. \A t \in Server \ {s} : pc[t] = "idle"
  BY <1>1, Alone
<1> HIDE DEF rest
<1>5. InFlight = {s} /\ InFlight' = {}
  BY <1>1, <1>4 DEF InFlight, SerialInv, Inv, TypeOK
<1>6. SerialInv'
  <2>1. \A t \in Server : pc'[t] \notin {"loaded", "torn"}
    BY <1>5 DEF InFlight
  <2>2. pc'[s] = "index" => pending'[s].hold # {}
    BY <1>1, <1>2 DEF SerialInv, Inv, TypeOK
  <2>3. \A t \in Server \ {s} : pc'[t] = "idle"
    BY <1>1, <1>4 DEF SerialInv, Inv, TypeOK
  <2>4. file' # Torn /\ Complete(file, noted)'
    BY <1>1, <1>3, TornAssumption DEF Complete
  <2> QED BY <1>1, <2>1, <2>2, <2>3, <2>4 DEF SerialInv, Writing
<1>7. Effective = file' /\ EffectiveClaim = claim'
  BY <1>1, <1>5, OneInFlight
<1>8. Effective' = file' /\ EffectiveClaim' = claim'
  BY <1>5 DEF Effective, EffectiveClaim
<1> QED BY <1>1, <1>6, <1>7, <1>8 DEF Abstract!vars, Abstract!tables, Abstract!logs

LEMMA SerialStep ==
    ASSUME Serial, SerialInv, [Next]_vars
    PROVE  SerialInv' /\ [Abstract!Next]_(Abstract!vars)
<1>1. Inv'
  BY NextInv DEF SerialInv
<1>2. CASE UNCHANGED vars
  <2>1. SerialInv'
    BY <1>1, <1>2 DEF SerialInv, Writing, Complete, vars
  <2>2. UNCHANGED Abstract!vars
    BY <1>2 DEF vars, Abstract!vars, Abstract!tables, Abstract!logs, Effective,
                EffectiveClaim, InFlight
  <2> QED BY <2>1, <2>2
<1>3. CASE Tick
  <2>1. SerialInv'
    BY <1>1, <1>3 DEF Tick, SerialInv, Writing, Complete
  <2>2. Effective' = Effective /\ EffectiveClaim' = EffectiveClaim
    BY <1>3, EffectKept DEF Tick, InFlight
  <2>3. Abstract!Tick
    BY <1>3, <2>2 DEF Tick, Abstract!Tick, Abstract!tables, Abstract!logs
  <2> QED BY <2>1, <2>3 DEF Abstract!Next
<1>4. ASSUME NEW s \in Server, Register(s) \/ Crash(s)
      PROVE  FALSE
  BY <1>4 DEF Register, Crash, Serial, SerialInv, Inv, TypeOK
<1>5. ASSUME NEW s \in Server, Write(s)
      PROVE  SerialInv' /\ [Abstract!Next]_(Abstract!vars)
  BY <1>1, <1>5, WriteRefines
<1>6. ASSUME NEW s \in Server, HoldShared(s)
      PROVE  SerialInv' /\ [Abstract!Next]_(Abstract!vars)
  BY <1>1, <1>6, HoldRefines DEF Abstract!Next
<1>7. ASSUME NEW s \in Server,
             TakeStore(s) \/ ReleaseStore(s) \/ OtherTool(s) \/ Clear(s) \/ Truncate(s)
      PROVE  SerialInv' /\ [Abstract!Next]_(Abstract!vars)
  BY <1>1, <1>7, StoreRefines DEF Abstract!Next
<1>8. ASSUME NEW s \in Server, NEW p \in Path, NEW a \in Agent,
             \/ \E force \in BOOLEAN : Acquire(s, p, a, force)
             \/ Refresh(s, p, a)
             \/ Release(s, p, a)
      PROVE  SerialInv' /\ [Abstract!Next]_(Abstract!vars)
  BY <1>1, <1>8, LockCallRefines DEF Abstract!Next
<1>9. ASSUME NEW s \in Server,
             ReapExpired(s) \/ Ask(s) \/ \E a \in Agent : ReleaseAll(s, a)
      PROVE  SerialInv' /\ [Abstract!Next]_(Abstract!vars)
  BY <1>1, <1>9, ReapRefines, AskRefines, ReleaseAllRefines DEF Abstract!Next
<1>10. ASSUME NEW s \in Server,
              \/ \E paths \in (SUBSET Path) \ {{}} : Index(s, paths)
              \/ DetectModified(s)
              \/ \E p \in Path : DropDocument(s, p)
       PROVE  SerialInv' /\ [Abstract!Next]_(Abstract!vars)
  <2>1. CASE DetectModified(s) \/ \E paths \in (SUBSET Path) \ {{}} : Index(s, paths)
    BY <1>1, <2>1, NoteRefines DEF DetectModified, Index
  <2>2. ASSUME NEW p \in Path, DropDocument(s, p)
        PROVE  SerialInv' /\ [Abstract!Next]_(Abstract!vars)
    BY <1>1, <2>2, DropRefines DEF Abstract!Next
  <2> QED BY <1>10, <2>1, <2>2
<1> QED BY <1>2, <1>3, <1>4, <1>5, <1>6, <1>7, <1>8, <1>9, <1>10
        DEF Next, Proceed, Tool

\* The abstract specification starts in the empty table.
LEMMA RefinesInit == Serial /\ Init => Abstract!Init
<1> SUFFICES ASSUME Serial, Init PROVE Abstract!Init
  OBVIOUS
<1>1. file.locks = {} /\ file.log = {}
  BY NoWorkOK DEF Init, Empty
<1>2. Effective = file /\ EffectiveClaim = claim
  BY NoneInFlight DEF Init, Writing
<1> QED BY <1>1, <1>2 DEF Init, Abstract!Init

\* Constant, and carried along for the temporal steps.
SerialState == Serial /\ SerialInv

LEMMA SerialInvariance == Serial /\ Spec => []SerialState
<1>1. Serial /\ Init => SerialState
  BY SerialInit DEF SerialState
<1>2. SerialState /\ [Next]_vars => SerialState'
  BY SerialStep DEF SerialState, Serial
<1> QED BY <1>1, <1>2, PTL DEF Spec

\* When the servers share one worktree, are registered and are not killed,
\* every notification and every agent row survives all the whole-file writes
\* (Shared::load and save under the engine's store lock).
THEOREM SerialKeepsAll == Serial /\ Spec => []NothingLost
<1>1. SerialState => NothingLost
  BY DEF SerialState, SerialInv, NothingLost, Quiet, Complete, Inv, TypeOK
<1> QED BY <1>1, SerialInvariance, PTL

\* ... and each of their calls is one operation of DocLocks.
THEOREM SerialRefines == Serial /\ Spec => Refines
<1>1. SerialState /\ [Next]_vars => [Abstract!Next]_(Abstract!vars)
  BY SerialStep DEF SerialState
<1> QED BY <1>1, RefinesInit, SerialInvariance, PTL DEF Spec, Refines, Abstract!Spec

\* DocLocks as its own proofs know it.
Promised == INSTANCE DocLocks_proofs
    WITH Coordinated <- TRUE,
         shared <- Effective.locks,
         sharedLog <- Effective.log,
         localLog <- [w \in Worktree |-> {}],
         claim <- EffectiveClaim,
         lost <- {}

\* ... so that what DocLocks promises holds of the servers: of two agents that
\* were both told they hold a path the conflict log names one as robbed.
THEOREM SerialExclusion == Serial /\ Spec => []MutualExclusion
<1>1. Abstract!Spec => []Promised!MutualExclusion
  <2>1. Promised!Spec => []Promised!MutualExclusion
    BY Promised!Exclusion
  <2>2. Abstract!Init <=> Promised!Init
    BY DEF Abstract!Init, Promised!Init
  <2>3. [Abstract!Next]_(Abstract!vars) <=> [Promised!Next]_(Promised!vars)
    BY DEF Abstract!Next, Promised!Next, Abstract!vars, Promised!vars,
           Abstract!tables, Promised!tables, Abstract!logs, Promised!logs,
           Abstract!LockCall, Promised!LockCall, Abstract!Acquire,
           Promised!Acquire, Abstract!Refused, Promised!Refused,
           Abstract!Refresh, Promised!Refresh, Abstract!NotRefreshed,
           Promised!NotRefreshed, Abstract!Release, Promised!Release,
           Abstract!NotReleased, Promised!NotReleased, Abstract!ReleaseAll,
           Promised!ReleaseAll, Abstract!ReapExpired, Promised!ReapExpired,
           Abstract!IndexLocks, Promised!IndexLocks, Abstract!DropDocument,
           Promised!DropDocument, Abstract!Clear, Promised!Clear, Abstract!Tick,
           Promised!Tick, Abstract!Grant, Promised!Grant, Abstract!Remove,
           Promised!Remove, Abstract!RecordConflict, Promised!RecordConflict,
           Abstract!Told, Promised!Told, Abstract!Dropped, Promised!Dropped,
           Abstract!Promises, Promised!Promises, Abstract!Steals, Promised!Steals,
           Abstract!Blocking, Promised!Blocking, Abstract!Table, Promised!Table,
           Abstract!Log, Promised!Log, Abstract!WriteLock, Promised!WriteLock,
           Abstract!WithoutPaths, Promised!WithoutPaths, Abstract!WithoutAgent,
           Promised!WithoutAgent, Abstract!Reap, Promised!Reap,
           Abstract!HoldAuto, Promised!HoldAuto, Abstract!Live, Promised!Live,
           Abstract!Claimed, Promised!Claimed, Abstract!LockRow,
           Promised!LockRow
  <2> QED BY <2>1, <2>2, <2>3, PTL DEF Abstract!Spec, Promised!Spec
<1>2. SerialState /\ Promised!MutualExclusion => MutualExclusion
  <2> SUFFICES ASSUME SerialState, Promised!MutualExclusion, Quiet
               PROVE  \A p \in Path, a, b \in Agent :
                        a # b /\ claim[p][a] > now /\ claim[p][b] > now
                            => Robbed(p, a) \/ Robbed(p, b)
    BY DEF MutualExclusion
  <2>1. Effective = file /\ EffectiveClaim = claim
    BY NoneInFlight DEF Quiet, Writing
  <2>2. PICK w \in Worktree : TRUE
    BY DEF SerialState, Serial
  <2>3. \A p \in Path, a \in Agent : Promised!Robbed(w, p, a) <=> Robbed(p, a)
    BY <2>1 DEF Promised!Robbed, Promised!Log, Robbed
  <2>4. \A p \in Path, a \in Agent : ~Promised!Bereft(p, a)
    BY DEF Promised!Bereft
  <2> QED BY <2>1, <2>2, <2>3, <2>4 DEF Promised!MutualExclusion
<1> QED BY <1>1, <1>2, SerialRefines, SerialInvariance, PTL DEF Refines
===============================================================================
