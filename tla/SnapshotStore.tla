---------------------------- MODULE SnapshotStore -----------------------------
(***************************************************************************)
(* One .stele-context/store directory shared by processes.  A server keeps *)
(* the parsed snapshot in memory between tool calls; for each call it      *)
(* takes the file lock, compares the mtime and size of snapshot.json with  *)
(* the ones it last saw, reloads if they differ, runs the tool and lets    *)
(* the lock go.  A command-line run opens the store, does one thing and    *)
(* exits; index and detect open it with the document rows only.  A save    *)
(* writes signatures.bin, a temporary file, renames it over snapshot.json  *)
(* and appends to the journal, and can fail or be killed at every step.    *)
(***************************************************************************)
EXTENDS Naturals, FiniteSets

CONSTANTS Server,      \* processes that stay: serve-mcp, serve
          Command,     \* one-shot command-line runs
          Document,    \* rows a documents-only load reads
          Other,       \* the other rows: annotations, sessions, locks ...
          Indexed,     \* the documents indexed to begin with
          Forced,      \* whether a command may say index --force
          CoarseClock, \* two renames may leave the same mtime
          Nobody,
          MaxWrites,   \* bound: writes made
          MaxFailures, \* bound: steps of a save that fail
          MaxCrashes   \* bound: processes killed

Proc == Server \cup Command
Row == Document \cup Other

ASSUME StoreAssumption ==
    /\ Server \cap Command = {} /\ Document \cap Other = {}
    /\ IsFiniteSet(Document) /\ IsFiniteSet(Other)
    /\ Indexed \subseteq Document
    /\ Forced \subseteq BOOLEAN /\ CoarseClock \in BOOLEAN
    /\ Nobody \notin Proc
    /\ MaxWrites \in Nat \ {0} /\ MaxFailures \in Nat /\ MaxCrashes \in Nat

\* A row holds the number of the write that last set it, 0 before the first;
\* the documents indexed to begin with hold 1.
Rows == [Row -> Nat]
NoRows == [r \in Row |-> 0]
Stamp == [mtime : Nat, size : Nat]

VARIABLES snapshot,  \* snapshot.json: its rows
          stamp,     \* its mtime and size
          tmp,       \* snapshot.json.tmp
          journal,   \* the writes journal.jsonl has a line for
          holder,    \* the process that holds the file lock
          pc, mem, partial, seen, \* each process: state, Store.state, documents_only, Store.stamp
          target,    \* the row and write its save is for
          acked,     \* history: the latest write of a row that was answered Ok
          writes, failures, crashes

vars == <<snapshot, stamp, tmp, journal, holder, pc, mem, partial, seen, target,
          acked, writes, failures, crashes>>
disk == <<snapshot, stamp, tmp, journal>>
bounds == <<writes, failures, crashes>>

\* Rewriting a row leaves the length of the file as it was.
Size(rows) == Cardinality({r \in Row : rows[r] # 0})

NoTarget == [row |-> Nobody, write |-> 0]

Init == /\ snapshot = [r \in Row |-> IF r \in Indexed THEN 1 ELSE 0]
        /\ stamp = [mtime |-> 0, size |-> Cardinality(Indexed)]
        /\ tmp = NoRows
        /\ journal = {1}
        /\ holder = Nobody
        /\ pc = [p \in Proc |-> "closed"]
        /\ mem = [p \in Proc |-> NoRows]
        /\ partial = [p \in Proc |-> FALSE]
        /\ seen = [p \in Proc |-> stamp]
        /\ target = [p \in Proc |-> NoTarget]
        /\ acked = NoRows
        /\ writes = 1 /\ failures = 0 /\ crashes = 0

-------------------------------------------------------------------------------
\* Opening, taking back and letting go.

\* What load_documents_only reads.
DocumentsOf(rows) == [r \in Row |-> IF r \in Document THEN rows[r] ELSE 0]

\* The process holds the lock and goes on at the given place.
Enter(p, at) == /\ holder = Nobody
                /\ holder' = p
                /\ pc' = [pc EXCEPT ![p] = at]

\* Store::open.  A server lets go of the lock at once; its calls come later.
Open(p) == /\ pc[p] = "closed"
           /\ Enter(p, IF p \in Server THEN "done" ELSE "call")
           /\ mem' = [mem EXCEPT ![p] = snapshot]
           /\ partial' = [partial EXCEPT ![p] = FALSE]
           /\ seen' = [seen EXCEPT ![p] = stamp]
           /\ UNCHANGED <<disk, target, acked, bounds>>

\* Store::open_documents: detect and index from the command line.
OpenDocuments(p) ==
    /\ pc[p] = "closed" /\ p \in Command
    /\ Enter(p, "call")
    /\ mem' = [mem EXCEPT ![p] = DocumentsOf(snapshot)]
    /\ partial' = [partial EXCEPT ![p] = TRUE]
    /\ seen' = [seen EXCEPT ![p] = stamp]
    /\ UNCHANGED <<disk, target, acked, bounds>>

\* Mutant: the stamp is taken over and the rows are not read again.
Reacquire_NoReload(p) ==
    /\ pc[p] = "idle"
    /\ Enter(p, "call")
    /\ seen' = [seen EXCEPT ![p] = stamp]
    /\ UNCHANGED <<disk, mem, partial, target, acked, bounds>>

\* relock, and reload_full when the stamp is another one.
Reacquire(p) ==
    /\ pc[p] = "idle"
    /\ Enter(p, "call")
    /\ mem' = [mem EXCEPT ![p] = IF seen[p] # stamp THEN snapshot ELSE mem[p]]
    /\ partial' = [partial EXCEPT ![p] = FALSE]
    /\ seen' = [seen EXCEPT ![p] = stamp]
    /\ UNCHANGED <<disk, target, acked, bounds>>

\* unlock after a server's call; a command exits.
LetGo(p) ==
    /\ pc[p] = "done"
    /\ holder' = Nobody
    /\ pc' = [pc EXCEPT ![p] = IF p \in Server THEN "idle" ELSE "closed"]
    /\ UNCHANGED <<disk, mem, partial, seen, target, acked, bounds>>

-------------------------------------------------------------------------------
\* The tools.

\* A new write of row r over the given rows; what follows is its save.
Change(p, rows, r) ==
    /\ writes < MaxWrites
    /\ writes' = writes + 1
    /\ mem' = [mem EXCEPT ![p] = [rows EXCEPT ![r] = writes + 1]]
    /\ target' = [target EXCEPT ![p] = [row |-> r, write |-> writes + 1]]
    /\ pc' = [pc EXCEPT ![p] = "save"]
    /\ UNCHANGED <<disk, holder, acked, failures, crashes>>

\* Tools that only read.
Ask(p) == /\ pc[p] = "call"
          /\ pc' = [pc EXCEPT ![p] = "done"]
          /\ UNCHANGED <<disk, holder, mem, partial, seen, target, acked, bounds>>

\* Tools that change the state in memory and save nothing: the session row
\* of detect, the change row a detect remembers after its save.
Remember(p, r) ==
    /\ pc[p] = "call" /\ writes < MaxWrites
    /\ writes' = writes + 1
    /\ mem' = [mem EXCEPT ![p][r] = writes + 1]
    /\ pc' = [pc EXCEPT ![p] = "done"]
    /\ UNCHANGED <<disk, holder, partial, seen, target, acked, failures, crashes>>

\* Annotations, sessions, locks ...: never run on a documents-only store.
Put(p, r) == /\ pc[p] = "call" /\ ~partial[p]
             /\ Change(p, mem[p], r)
             /\ UNCHANGED <<partial, seen>>

\* Mutant: a documents-only detect goes on without reading the rest.
Detect_KeepsPartial(p, r) ==
    /\ pc[p] = "call"
    /\ Change(p, mem[p], r)
    /\ UNCHANGED <<partial, seen>>

\* detect found an edited document: a documents-only store is read in full.
Detect(p, r) ==
    /\ pc[p] = "call"
    /\ Change(p, IF partial[p] THEN snapshot ELSE mem[p], r)
    /\ partial' = [partial EXCEPT ![p] = FALSE]
    /\ seen' = [seen EXCEPT ![p] = IF partial[p] THEN stamp ELSE seen[p]]

\* index of a new or edited document.  A documents-only store is read in
\* full, but not under --force and not when it has no document.
Index(p, r, force) ==
    LET reload == /\ partial[p] /\ ~force
                  /\ \E d \in Document : mem[p][d] # 0
    IN  /\ pc[p] = "call"
        /\ Change(p, IF reload THEN snapshot ELSE mem[p], r)
        /\ partial' = [partial EXCEPT ![p] = IF reload THEN FALSE ELSE @]
        /\ seen' = [seen EXCEPT ![p] = IF reload THEN stamp ELSE seen[p]]

-------------------------------------------------------------------------------
\* Store::save.

Goto(p, from, to) == pc[p] = from /\ pc' = [pc EXCEPT ![p] = to]

\* signatures.bin, then the temporary file.
WriteTmp(p) == /\ Goto(p, "save", "tmp")
               /\ tmp' = mem[p]
               /\ UNCHANGED <<snapshot, stamp, journal, holder, mem, partial, seen,
                              target, acked, bounds>>

\* The snapshot is replaced at once, and its new stamp noted.
Rename(p) ==
    /\ Goto(p, "tmp", "renamed")
    /\ snapshot' = tmp
    /\ \E t \in {stamp.mtime, stamp.mtime + 1} :
        /\ CoarseClock \/ t # stamp.mtime
        /\ stamp' = [mtime |-> t, size |-> Size(tmp)]
    /\ seen' = [seen EXCEPT ![p] = stamp']
    /\ UNCHANGED <<tmp, journal, holder, mem, partial, target, acked, bounds>>

\* Mutant: the journal is appended to after the reply.
AppendJournal_Skipped(p) ==
    /\ Goto(p, "renamed", "done")
    /\ acked' = [acked EXCEPT ![target[p].row] = target[p].write]
    /\ UNCHANGED <<disk, holder, mem, partial, seen, target, bounds>>

\* The journal line; the tool answers Ok.
AppendJournal(p) ==
    /\ Goto(p, "renamed", "done")
    /\ journal' = journal \cup {target[p].write}
    /\ acked' = [acked EXCEPT ![target[p].row] = target[p].write]
    /\ UNCHANGED <<snapshot, stamp, tmp, holder, mem, partial, seen, target, bounds>>

\* A step returns its error.  The state in memory keeps the change.
Fail(p) ==
    /\ failures < MaxFailures
    /\ failures' = failures + 1
    /\ \E at \in {"save", "tmp", "renamed"} : Goto(p, at, "done")
    /\ UNCHANGED <<disk, holder, mem, partial, seen, target, acked, writes, crashes>>

\* Mutant: snapshot.json is written in place, and a kill leaves it torn.
Crash_Torn(p) ==
    /\ crashes < MaxCrashes /\ pc[p] # "closed"
    /\ crashes' = crashes + 1
    /\ snapshot' = IF pc[p] = "tmp" THEN NoRows ELSE snapshot
    /\ holder' = IF holder = p THEN Nobody ELSE holder
    /\ pc' = [pc EXCEPT ![p] = "closed"]
    /\ UNCHANGED <<stamp, tmp, journal, mem, partial, seen, target, acked,
                   writes, failures>>

\* The process is killed; the kernel drops its lock.
Crash(p) ==
    /\ crashes < MaxCrashes /\ pc[p] # "closed"
    /\ crashes' = crashes + 1
    /\ holder' = IF holder = p THEN Nobody ELSE holder
    /\ pc' = [pc EXCEPT ![p] = "closed"]
    /\ UNCHANGED <<disk, mem, partial, seen, target, acked, writes, failures>>

Tool(p) == \/ Ask(p)
           \/ \E r \in Other : Put(p, r) \/ Remember(p, r)
           \/ \E r \in Document : Detect(p, r)
           \/ \E r \in Document, force \in Forced : Index(p, r, force)

Proceed(p) == Tool(p) \/ WriteTmp(p) \/ Rename(p) \/ AppendJournal(p) \/ Fail(p) \/ LetGo(p)

Next == \E p \in Proc : Open(p) \/ OpenDocuments(p) \/ Reacquire(p) \/ Proceed(p) \/ Crash(p)

Spec == Init /\ [][Next]_vars

-------------------------------------------------------------------------------
InCall(p) == pc[p] \in {"call", "save", "tmp", "renamed", "done"}

\* The types of the state, and the lock is held exactly by the process in a
\* call.
TypeOK ==
    /\ snapshot \in Rows /\ tmp \in Rows /\ stamp \in Stamp
    /\ journal \subseteq 1..MaxWrites
    /\ holder \in Proc \cup {Nobody}
    /\ pc \in [Proc -> {"closed", "idle", "call", "save", "tmp", "renamed", "done"}]
    /\ mem \in [Proc -> Rows] /\ partial \in [Proc -> BOOLEAN]
    /\ seen \in [Proc -> Stamp]
    /\ target \in [Proc -> [row : Row \cup {Nobody}, write : Nat]]
    /\ acked \in Rows
    /\ writes \in 1..MaxWrites /\ failures \in 0..MaxFailures /\ crashes \in 0..MaxCrashes
    /\ \A p \in Proc : InCall(p) <=> holder = p

\* "True when another process wrote the snapshot since this one last read or
\* wrote it": in a call a process has every row as it is in the snapshot, or
\* newer; a documents-only one has the documents.
FreshView ==
    \A p \in Proc : InCall(p) =>
        \A r \in Row : r \in Document \/ ~partial[p] => mem[p][r] >= snapshot[r]

\* "picks up where the first left off": a write that was answered Ok is in
\* the snapshot, or a later write of the same row is.
Durable == \A r \in Row : snapshot[r] >= acked[r]

\* "The journal records each successful mutation."
Journaled == \A r \in Row : acked[r] # 0 => acked[r] \in journal

Abstract == INSTANCE ForwardStore WITH stored <- snapshot

\* Saves by processes with their own copies of the rows act as one store in
\* which rows only move forward.
Refines == Abstract!Spec
===============================================================================
