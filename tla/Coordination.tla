----------------------------- MODULE Coordination -----------------------------
(***************************************************************************)
(* The document locks as servers really run them.  Every operation on      *)
(* coordination.json reads the whole file, changes the parsed value and    *)
(* writes the whole file back with fs::write, which truncates and then     *)
(* writes; nothing locks that file.  What serialises the servers of one    *)
(* worktree is the store's own file lock, held for one tool call, and the  *)
(* registration of a server's agent runs before that lock is taken.        *)
(*                                                                         *)
(* With one worktree and registered servers this implements DocLocks; the  *)
(* configurations say what is left with two worktrees, a registration in   *)
(* flight or a crash.                                                      *)
(***************************************************************************)
EXTENDS LockTable, FiniteSets

CONSTANTS Server,      \* processes: MCP or HTTP servers, or a CLI run
          Worktree,
          Home,        \* Home[s]: the worktree of a server
          ServerAgent, \* ServerAgent[s]: the agent id the server registers
          Fresh,       \* the servers that have not registered their agent
          Nobody,      \* the store lock is free
          Torn,        \* a file that was truncated and not yet written
          MaxTime,     \* bound: the clock stops here
          MaxNotes,    \* bound: change notifications written
          MaxCrashes   \* bound: how often a server is killed

ASSUME ServerAssumption ==
    /\ IsFiniteSet(Server)
    /\ Home \in [Server -> Worktree]
    /\ ServerAgent \in [Server -> Agent]
    /\ Fresh \subseteq Server
    /\ Nobody \notin Server
ASSUME BoundAssumption == MaxTime \in Nat /\ MaxNotes \in Nat /\ MaxCrashes \in Nat

VARIABLES now,
          file,       \* coordination.json
          local,      \* the lock table in each worktree's snapshot
          storeLock,  \* who holds each worktree's store lock
          pc,         \* where each server is in its call
          pending,    \* what it is about to write, and then to do
          registered, \* servers whose agent row was written
          claim,      \* history: what each agent was last told, as in DocLocks
          noted,      \* history: notifications written so far
          crashes

vars == <<now, file, local, storeLock, pc, pending, registered, claim, noted,
          crashes>>

Conflict == [path : Path, holder : Agent, requester : Agent, at : Int]
Coord == [locks : SUBSET Row, log : SUBSET Conflict, notes : Nat,
          agents : SUBSET Server]
Empty == [locks |-> {}, log |-> {}, notes |-> 0, agents |-> {}]

\* A torn file is no JSON object.
ASSUME TornAssumption == Torn \notin Coord

\* What the reply of a call says: the agent holds the path until a time, 0
\* for a refusal or a release.
Told == [path : Path, agent : Agent, until : Nat]
Tell(p, a, until) == [path |-> p, agent |-> a, until |-> until]

\* A write in flight, and what the call still has to do after it.
Pending == [coord : Coord, told : SUBSET Told, notes : 0..1, hold : SUBSET Path]
NoWork == [coord |-> Empty, told |-> {}, notes |-> 0, hold |-> {}]

\* The agents' beliefs after a reply.
After(belief, told) ==
    [p \in Path |-> [a \in Agent |->
        IF \E t \in told : t.path = p /\ t.agent = a
        THEN (CHOOSE t \in told : t.path = p /\ t.agent = a).until
        ELSE belief[p][a]]]

Init == /\ now = 1
        /\ file = [Empty EXCEPT !.agents = Server \ Fresh]
        /\ local = [w \in Worktree |-> {}]
        /\ storeLock = [w \in Worktree |-> Nobody]
        /\ pc = [s \in Server |-> "idle"]
        /\ pending = [s \in Server |-> NoWork]
        /\ registered = Server \ Fresh
        /\ claim = [p \in Path |-> [a \in Agent |-> 0]]
        /\ noted = 0
        /\ crashes = 0

-------------------------------------------------------------------------------
\* Reading and writing the file.

\* Mutant: Shared::load leaves the notifications behind.
Load_Forgets == IF file = Torn THEN Empty ELSE [file EXCEPT !.notes = 0]

\* A missing, empty or unparsable file reads as {}.
Load == IF file = Torn THEN Empty ELSE file

\* The read and the change in memory; the reply is not sent yet.
Prepare(s, coord, told) ==
    /\ pending' = [pending EXCEPT ![s] = [NoWork EXCEPT !.coord = coord, !.told = told]]
    /\ pc' = [pc EXCEPT ![s] = "loaded"]

\* fs::write opens with truncation.
Truncate(s) ==
    /\ pc[s] = "loaded"
    /\ file' = Torn
    /\ pc' = [pc EXCEPT ![s] = "torn"]
    /\ UNCHANGED <<now, local, storeLock, pending, registered, claim, noted, crashes>>

\* ... and writes the body.  The caller learns the outcome, or index goes on
\* to take its locks.
Write(s) ==
    /\ pc[s] = "torn"
    /\ file' = pending[s].coord
    /\ claim' = After(claim, pending[s].told)
    /\ noted' = noted + pending[s].notes
    /\ pending' = [pending EXCEPT ![s] = [NoWork EXCEPT !.hold = pending[s].hold]]
    /\ pc' = [pc EXCEPT ![s] = IF s \notin registered THEN "idle"
                               ELSE IF pending[s].hold # {} THEN "index" ELSE "done"]
    /\ registered' = registered \cup {s}
    /\ UNCHANGED <<now, local, storeLock, crashes>>

-------------------------------------------------------------------------------
\* The server's call: reacquire_store, one tool, release_store.

TakeStore(s) ==
    /\ pc[s] = "idle" /\ s \in registered
    /\ storeLock[Home[s]] = Nobody
    /\ storeLock' = [storeLock EXCEPT ![Home[s]] = s]
    /\ pc' = [pc EXCEPT ![s] = "call"]
    /\ UNCHANGED <<now, file, local, pending, registered, claim, noted, crashes>>

ReleaseStore(s) ==
    /\ pc[s] = "done"
    /\ storeLock' = [storeLock EXCEPT ![Home[s]] = Nobody]
    /\ pc' = [pc EXCEPT ![s] = "idle"]
    /\ UNCHANGED <<now, file, local, pending, registered, claim, noted, crashes>>

\* A tool that does not touch the file (search, map, ...).
OtherTool(s) ==
    /\ pc[s] = "call"
    /\ pc' = [pc EXCEPT ![s] = "done"]
    /\ UNCHANGED <<now, file, local, storeLock, pending, registered, claim, noted, crashes>>

\* First tool call: the agent row is written before the store is taken.
Register(s) ==
    /\ pc[s] = "idle" /\ s \notin registered
    /\ Prepare(s, [Load EXCEPT !.agents = @ \cup {s}], {})
    /\ UNCHANGED <<now, file, local, storeLock, registered, claim, noted, crashes>>

Blocking(coord, p, a) == {r \in Claimed(coord.locks, p, now) : r.agent # a}
Steals(rows, a) ==
    {[path |-> r.path, holder |-> r.agent, requester |-> a, at |-> now]
        : r \in rows}

InCall(s) ==
    /\ pc[s] = "call"
    /\ UNCHANGED <<now, file, storeLock, registered, claim, noted, crashes>>

\* Grant of an acquire or a refresh: the row in the file and in the snapshot.
Grant(s, p, a, coord) ==
    /\ Prepare(s, [coord EXCEPT !.locks = WriteLock(@, p, a, now)],
               {Tell(p, a, now + TTL)})
    /\ local' = [local EXCEPT ![Home[s]] = WriteLock(@, p, a, now)]

\* A refusal writes the file back as it was read.
Deny(s, p, a) == Prepare(s, Load, {Tell(p, a, 0)}) /\ UNCHANGED local

Acquire(s, p, a, force) ==
    LET robbed == Blocking(Load, p, a)
    IN  /\ InCall(s)
        /\ IF robbed # {} /\ ~force THEN Deny(s, p, a)
           ELSE Grant(s, p, a, [Load EXCEPT !.log = @ \cup Steals(robbed, a)])

\* Mutant: any live lock is refreshed, whoever holds it.
Refresh_Anyone(s, p, a) ==
    /\ InCall(s)
    /\ IF Live(Load.locks, p, now) # {} THEN Grant(s, p, a, Load) ELSE Deny(s, p, a)

Refresh(s, p, a) ==
    /\ InCall(s)
    /\ IF \E r \in Live(Load.locks, p, now) : r.agent = a
       THEN Grant(s, p, a, Load) ELSE Deny(s, p, a)

Release(s, p, a) ==
    /\ InCall(s)
    /\ IF Live(Load.locks, p, now) = {} \/ Blocking(Load, p, a) # {}
       THEN Deny(s, p, a)
       ELSE /\ Prepare(s, [Load EXCEPT !.locks = WithoutPaths(@, {p})],
                       {Tell(p, a, 0)})
            /\ local' = [local EXCEPT ![Home[s]] = WithoutPaths(@, {p})]

ReleaseAll(s, a) ==
    /\ InCall(s)
    /\ Prepare(s, [Load EXCEPT !.locks = WithoutAgent(@, a)],
               {Tell(p, a, 0) : p \in Path})
    /\ local' = [local EXCEPT ![Home[s]] = WithoutAgent(@, a)]

ReapExpired(s) ==
    /\ InCall(s)
    /\ Prepare(s, [Load EXCEPT !.locks = Reap(@, now)], {})
    /\ local' = [local EXCEPT ![Home[s]] = Reap(@, now)]

\* status and conflicts only ask, and still write the file back.
Ask(s) == InCall(s) /\ Prepare(s, Load, {}) /\ UNCHANGED local

-------------------------------------------------------------------------------
\* index, detect, remove and clear.

Note(s, hold) ==
    /\ noted + Cardinality({t \in Server : pending[t].notes = 1}) < MaxNotes
    /\ pending' = [pending EXCEPT ![s] =
          [NoWork EXCEPT !.coord = [Load EXCEPT !.notes = @ + 1],
                         !.notes = 1, !.hold = hold]]
    /\ pc' = [pc EXCEPT ![s] = "loaded"]

\* index: note_indexed, and then the index-time locks in a second read and
\* write of the file.
Index(s, paths) == InCall(s) /\ Note(s, paths) /\ UNCHANGED local

HoldShared(s) ==
    /\ pc[s] = "index"
    /\ Prepare(s, [Load EXCEPT !.locks =
                        HoldAuto(@, pending[s].hold, ServerAgent[s], now)], {})
    /\ UNCHANGED <<now, file, local, storeLock, registered, claim, noted, crashes>>

\* detect on an edited file re-indexes it and notes it, without locks.
DetectModified(s) == InCall(s) /\ Note(s, {}) /\ UNCHANGED local

\* remove, and detect on a file that is gone.
DropDocument(s, p) ==
    /\ InCall(s)
    /\ Note(s, {})
    /\ local' = [local EXCEPT ![Home[s]] = WithoutPaths(@, {p})]

Clear(s) ==
    /\ InCall(s)
    /\ local' = [local EXCEPT ![Home[s]] = {}]
    /\ pc' = [pc EXCEPT ![s] = "done"]
    /\ UNCHANGED pending

-------------------------------------------------------------------------------
Tick == /\ now < MaxTime
        /\ now' = now + 1
        /\ UNCHANGED <<file, local, storeLock, pc, pending, registered, claim,
                       noted, crashes>>

\* Mutant: the store lock of a killed server stays taken.
Crash_LeavesLock(s) ==
    /\ crashes < MaxCrashes
    /\ crashes' = crashes + 1
    /\ pc' = [pc EXCEPT ![s] = "idle"]
    /\ pending' = [pending EXCEPT ![s] = NoWork]
    /\ registered' = registered \ {s}
    /\ UNCHANGED <<now, file, local, storeLock, claim, noted>>

\* A server is killed: the kernel drops its store lock, the write in flight
\* stops where it is.  Its successor registers again.
Crash(s) ==
    /\ crashes < MaxCrashes
    /\ crashes' = crashes + 1
    /\ storeLock' = [w \in Worktree |->
                        IF storeLock[w] = s THEN Nobody ELSE storeLock[w]]
    /\ pc' = [pc EXCEPT ![s] = "idle"]
    /\ pending' = [pending EXCEPT ![s] = NoWork]
    /\ registered' = registered \ {s}
    /\ UNCHANGED <<now, file, local, claim, noted>>

Tool(s) ==
    \/ \E p \in Path, a \in Agent :
            \/ \E force \in BOOLEAN : Acquire(s, p, a, force)
            \/ Refresh(s, p, a)
            \/ Release(s, p, a)
    \/ \E a \in Agent : ReleaseAll(s, a)
    \/ ReapExpired(s)
    \/ Ask(s)
    \/ \E paths \in (SUBSET Path) \ {{}} : Index(s, paths)
    \/ DetectModified(s)
    \/ \E p \in Path : DropDocument(s, p)
    \/ Clear(s)
    \/ OtherTool(s)

\* The steps a server that has begun a call takes without waiting.
Proceed(s) == Tool(s) \/ HoldShared(s) \/ Truncate(s) \/ Write(s) \/ ReleaseStore(s)

Next == \/ \E s \in Server : Register(s) \/ TakeStore(s) \/ Proceed(s) \/ Crash(s)
        \/ Tick

Spec == Init /\ [][Next]_vars

\* A call that holds the store is code running on a thread: it goes on to its
\* end.  Nothing is assumed of who gets the store next.
FairSpec == Spec /\ \A s \in Server : WF_vars(Proceed(s))

-------------------------------------------------------------------------------
\* The types of the state, and the file has one row per path.
TypeOK ==
    /\ now \in Nat
    /\ file = Torn \/ (file \in Coord /\ OneRowPerPath(file.locks))
    /\ local \in [Worktree -> SUBSET Row]
    /\ storeLock \in [Worktree -> Server \cup {Nobody}]
    /\ pc \in [Server -> {"idle", "call", "loaded", "torn", "index", "done"}]
    /\ pending \in [Server -> Pending]
    /\ registered \subseteq Server
    /\ claim \in [Path -> [Agent -> Nat]]
    /\ noted \in 0..MaxNotes /\ crashes \in 0..MaxCrashes

\* A call in progress holds the store of its worktree; registration does not.
StoreHeld ==
    \A s \in Server : s \in registered =>
        (pc[s] # "idle" <=> storeLock[Home[s]] = s)

\* However writes of two worktrees overwrite each other, and whatever a crash
\* leaves, no lock that the file shows lives longer than TTL from now: a lock
\* brought back by a stale write still expires.
ExpiresInTime ==
    file # Torn => \A r \in file.locks : r.until <= now + TTL

\* The two, with the types of the state.
CrashSafe == TypeOK /\ StoreHeld /\ ExpiresInTime

\* Every call gives the store back, so that the others of the worktree are
\* never shut out for good.
StoreComesFree == \A w \in Worktree : []<>(storeLock[w] = Nobody)

\* No read-modify-write is in flight.
Quiet == \A s \in Server : pc[s] \notin {"loaded", "torn"}

\* Every notification and every registration that was written is in the file.
NothingLost ==
    Quiet => file # Torn /\ file.notes = noted /\ registered \subseteq file.agents

\* The robbed of the conflict log, and the holders of the file.
Robbed(p, a) ==
    \E c \in file.log : c.path = p /\ c.holder = a /\ c.at + TTL >= claim[p][a]

\* Two agents never both believe they hold a path unless the conflict log
\* names one of them as robbed.
MutualExclusion ==
    Quiet => \A p \in Path, a, b \in Agent :
        a # b /\ claim[p][a] > now /\ claim[p][b] > now
            => Robbed(p, a) \/ Robbed(p, b)

-------------------------------------------------------------------------------
\* Refinement.  A call takes effect when it has read the file: from there on
\* what it will write and reply is decided.  At most one call is past that
\* point when the store lock serialises the servers.
InFlight == {s \in Server : pc[s] \in {"loaded", "torn"}}
Effective == IF InFlight = {} THEN file
             ELSE pending[CHOOSE s \in InFlight : TRUE].coord
EffectiveClaim ==
    IF InFlight = {} THEN claim
    ELSE After(claim, pending[CHOOSE s \in InFlight : TRUE].told)

Abstract == INSTANCE DocLocks
    WITH Coordinated <- TRUE,
         shared <- Effective.locks,
         sharedLog <- Effective.log,
         localLog <- [w \in Worktree |-> {}],
         claim <- EffectiveClaim,
         lost <- {}

\* Every call acts as one DocLocks operation on the file as it stands.
Refines == Abstract!Spec
===============================================================================
