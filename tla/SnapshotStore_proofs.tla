------------------------- MODULE SnapshotStore_proofs -------------------------
(***************************************************************************)
(* Proofs about SnapshotStore, for any number of processes, rows, writes,  *)
(* failures and kills.                                                     *)
(*                                                                         *)
(* A write is safe once it is in the snapshot because the next process to  *)
(* save has every row of the snapshot, or a newer one, in memory.  For a   *)
(* process in a call that is FreshView.  For an idle server it holds as    *)
(* long as the stamp it saw is still the stamp of the file, and stamps are *)
(* not used twice: Vouched.                                                *)
(***************************************************************************)
EXTENDS SnapshotStore, FiniteSetTheorems, TLAPS

\* The use of the store the guarantee needs: mtimes that tell two renames
\* apart, no index --force from the command line, and a store that has a
\* document when the command line indexes.
SafeUse == CoarseClock = FALSE /\ Forced \subseteq {FALSE} /\ Indexed # {}

Saving(p) == pc[p] \in {"save", "tmp", "renamed"}

Typed ==
    /\ snapshot \in Rows /\ tmp \in Rows /\ acked \in Rows
    /\ stamp \in Stamp /\ seen \in [Proc -> Stamp]
    /\ journal \subseteq 1..MaxWrites
    /\ holder \in Proc \cup {Nobody}
    /\ pc \in [Proc -> {"closed", "idle", "call", "save", "tmp", "renamed", "done"}]
    /\ mem \in [Proc -> Rows] /\ partial \in [Proc -> BOOLEAN]
    /\ target \in [Proc -> [row : Row \cup {Nobody}, write : Nat]]
    /\ writes \in 1..MaxWrites /\ failures \in 0..MaxFailures /\ crashes \in 0..MaxCrashes

\* The lock is held exactly by the process in a call.
Locked == \A p \in Proc : InCall(p) <=> holder = p

\* Only a command has a documents-only store, and only a server is idle.
Kinds == \A p \in Proc : (partial[p] => p \in Command) /\ (pc[p] = "idle" => p \in Server)

\* The number of a new write is newer than every row anywhere.
Bounded == \A r \in Row : /\ snapshot[r] <= writes /\ acked[r] <= writes
                          /\ \A p \in Proc : mem[p][r] <= writes

\* An idle server that saw the present stamp has the rows of the snapshot.
Vouched == \A p \in Proc :
    /\ seen[p].mtime <= stamp.mtime
    /\ pc[p] = "idle" /\ seen[p] = stamp => \A r \in Row : mem[p][r] >= snapshot[r]

\* What a save is about to put on disk, or has just put there.
SaveInFlight == \A p \in Proc : Saving(p) =>
    /\ ~partial[p]
    /\ target[p].row \in Row /\ target[p].write = writes
    /\ mem[p][target[p].row] = writes
    /\ pc[p] = "tmp" => tmp = mem[p]
    /\ pc[p] = "renamed" => snapshot = mem[p]

\* The store keeps a document.
Populated == \E d \in Document : snapshot[d] # 0

Inv == /\ Typed /\ Locked /\ Kinds /\ Bounded /\ FreshView /\ Vouched
       /\ SaveInFlight /\ Populated /\ Durable /\ Journaled

-------------------------------------------------------------------------------
\* The length of a file is a number.
LEMMA SizeType == ASSUME NEW rows PROVE Size(rows) \in Nat
<1>1. IsFiniteSet(Row)
  BY StoreAssumption, FS_Union DEF Row
<1>2. {r \in Row : rows[r] # 0} \subseteq Row
  OBVIOUS
<1>3. IsFiniteSet({r \in Row : rows[r] # 0})
  BY <1>1, <1>2, FS_Subset
<1> QED BY <1>3, FS_CardinalityType DEF Size

-------------------------------------------------------------------------------
\* What holds however the store is used: the types, the lock and the journal.

\* A save in progress knows the row and the write it is for.
Targets == \A p \in Proc : Saving(p) => target[p].row \in Row /\ target[p].write = writes

Always == Typed /\ Locked /\ Targets /\ Journaled

\* Opening, taking back and letting go preserve the types and the lock, and so
\* does being killed.
LEMMA AlwaysHolding ==
    ASSUME Always, NEW p \in Proc,
           Open(p) \/ OpenDocuments(p) \/ Reacquire(p) \/ LetGo(p) \/ Crash(p)
    PROVE  Always'
<1> USE StoreAssumption
    DEF Enter, disk, bounds, Always, Typed, Locked, Targets, Journaled, InCall, Saving, Proc
<1>1. CASE Open(p)
  BY <1>1 DEF Open
<1>2. CASE OpenDocuments(p)
  <2>1. DocumentsOf(snapshot) \in Rows
    BY DEF DocumentsOf, Rows, Row
  <2> QED BY <1>2, <2>1 DEF OpenDocuments
<1>3. CASE Reacquire(p)
  <2>1. (IF seen[p] # stamp THEN snapshot ELSE mem[p]) \in Rows
    OBVIOUS
  <2>2. mem' \in [Proc -> Rows]
    BY <1>3, <2>1 DEF Reacquire
  <2> QED BY <1>3, <2>2 DEF Reacquire
<1>4. CASE LetGo(p)
  BY <1>4 DEF LetGo
<1>5. CASE Crash(p)
  BY <1>5 DEF Crash
<1> QED BY <1>1, <1>2, <1>3, <1>4, <1>5

\* A change of one row does, whatever rows it starts from.
LEMMA AlwaysChange ==
    ASSUME Always, NEW p \in Proc, NEW r \in Row, NEW rows \in Rows, pc[p] = "call",
           Change(p, rows, r), partial' \in [Proc -> BOOLEAN], seen' \in [Proc -> Stamp]
    PROVE  Always'
<1> USE StoreAssumption DEF Change, disk
<1>1. writes + 1 \in 1..MaxWrites /\ [rows EXCEPT ![r] = writes + 1] \in Rows
  BY DEF Always, Typed, Rows
<1>2. mem' \in [Proc -> Rows] /\ target' \in [Proc -> [row : Row \cup {Nobody}, write : Nat]]
  BY <1>1 DEF Always, Typed
<1>3. Typed'
  BY <1>1, <1>2 DEF Always, Typed
<1>4. Locked' /\ Targets' /\ Journaled'
  BY DEF Always, Typed, Locked, Targets, Journaled, InCall, Saving
<1> QED BY <1>3, <1>4 DEF Always

\* Every tool does.
LEMMA AlwaysTool == ASSUME Always, NEW p \in Proc, Tool(p) PROVE Always'
<1>1. CASE Ask(p)
  BY <1>1 DEF Ask, disk, bounds, Always, Typed, Locked, Targets, Journaled, InCall, Saving
<1>2. ASSUME NEW r \in Other, Put(p, r) PROVE Always'
  BY <1>2, AlwaysChange DEF Put, Always, Typed, Row
<1>3. ASSUME NEW r \in Other, Remember(p, r) PROVE Always'
  <2>1. writes + 1 \in 1..MaxWrites /\ [mem[p] EXCEPT ![r] = writes + 1] \in Rows
    BY <1>3, StoreAssumption DEF Remember, Always, Typed, Rows, Row
  <2>2. mem' = [mem EXCEPT ![p] = [mem[p] EXCEPT ![r] = writes + 1]]
    BY <1>3 DEF Remember
  <2>3. Typed'
    BY <1>3, <2>1, <2>2 DEF Remember, disk, Always, Typed
  <2>4. Locked' /\ Targets' /\ Journaled'
    BY <1>3 DEF Remember, disk, Always, Typed, Locked, Targets, Journaled, InCall, Saving
  <2> QED BY <2>3, <2>4 DEF Always
<1>4. ASSUME NEW r \in Document, Detect(p, r) PROVE Always'
  BY <1>4, AlwaysChange DEF Detect, Always, Typed, Row
<1>5. ASSUME NEW r \in Document, NEW force \in Forced, Index(p, r, force) PROVE Always'
  BY <1>5, AlwaysChange DEF Index, Always, Typed, Row
<1> QED BY <1>1, <1>2, <1>3, <1>4, <1>5 DEF Tool

\* Every step of a save does, and a failure.
LEMMA AlwaysSave ==
    ASSUME Always, NEW p \in Proc,
           WriteTmp(p) \/ Rename(p) \/ AppendJournal(p) \/ Fail(p)
    PROVE  Always'
<1> USE StoreAssumption DEF Goto, bounds, disk
<1>1. CASE WriteTmp(p)
  BY <1>1 DEF WriteTmp, Always, Typed, Locked, Targets, Journaled, InCall, Saving
<1>2. CASE Rename(p)
  <2>1. stamp' \in Stamp
    BY <1>2, SizeType DEF Rename, Always, Typed, Stamp
  <2> QED
    BY <1>2, <2>1 DEF Rename, Always, Typed, Locked, Targets, Journaled, InCall, Saving
<1>3. CASE AppendJournal(p)
  <2>1. target[p].row \in Row /\ target[p].write = writes
    BY <1>3 DEF AppendJournal, Always, Targets, Saving
  <2>2. writes \in Nat /\ writes \in 1..MaxWrites
    BY DEF Always, Typed
  <2>3. acked' \in Rows /\ journal' \subseteq 1..MaxWrites
    BY <1>3, <2>1, <2>2 DEF AppendJournal, Always, Typed, Rows
  <2>4. Journaled'
    BY <1>3, <2>1, <2>2 DEF AppendJournal, Always, Typed, Journaled, Rows
  <2> QED
    BY <1>3, <2>3, <2>4 DEF AppendJournal, Always, Typed, Locked, Targets, InCall, Saving
<1>4. CASE Fail(p)
  BY <1>4 DEF Fail, Always, Typed, Locked, Targets, Journaled, InCall, Saving
<1> QED BY <1>1, <1>2, <1>3, <1>4

\* It holds at first.
LEMMA AlwaysInit == ASSUME Init PROVE Always
<1>1. Cardinality(Indexed) \in Nat
  <2>1. IsFiniteSet(Indexed)
    BY StoreAssumption, FS_Subset
  <2> QED BY <2>1, FS_CardinalityType
<1>2. Typed
  BY <1>1, StoreAssumption DEF Init, Typed, Rows, Stamp, NoRows, NoTarget
<1>3. Locked /\ Targets /\ Journaled
  BY StoreAssumption DEF Init, Locked, Targets, Journaled, InCall, Saving, NoRows
<1> QED BY <1>2, <1>3 DEF Always

\* Every step preserves it.
LEMMA AlwaysNext == ASSUME Always, [Next]_vars PROVE Always'
<1>1. CASE UNCHANGED vars
  BY <1>1 DEF vars, disk, bounds, Always, Typed, Locked, Targets, Journaled, InCall, Saving
<1> QED BY <1>1, AlwaysHolding, AlwaysTool, AlwaysSave DEF Next, Proceed

\* The state keeps its types, and exactly the process in a call has the lock
\* (Store::relock, Store::unlock), however the store is used.
THEOREM TypeCorrect == Spec => []TypeOK
<1>1. Always => TypeOK
  BY DEF Always, Typed, Locked, TypeOK
<1> QED BY <1>1, AlwaysInit, AlwaysNext, PTL DEF Spec

\* Every write answered Ok has its line in the journal, however the store is
\* used (Store::save).
THEOREM JournalComplete == Spec => []Journaled
<1>1. Always => Journaled
  BY DEF Always
<1> QED BY <1>1, AlwaysInit, AlwaysNext, PTL DEF Spec

\* The invariant holds of the initial store.
LEMMA InvInit == ASSUME SafeUse, Init PROVE Inv
<1>1. Cardinality(Indexed) \in Nat
  <2>1. IsFiniteSet(Indexed)
    BY StoreAssumption, FS_Subset
  <2> QED BY <2>1, FS_CardinalityType
<1>2. Typed
  BY <1>1, StoreAssumption DEF Init, Typed, Rows, Stamp, NoRows, NoTarget
<1> QED
  BY <1>2, StoreAssumption
  DEF SafeUse, Init, Inv, Locked, Kinds, Bounded, FreshView, Vouched, SaveInFlight,
      Populated, Durable, Journaled, InCall, Saving, NoRows, Row, Proc, Typed

-------------------------------------------------------------------------------
\* Each action preserves the invariant.  Store::open reads every row.
LEMMA KeepsOpen ==
    ASSUME SafeUse, Inv, NEW p \in Proc, Open(p) PROVE Inv'
<1> USE StoreAssumption DEF Inv, Open, Enter, disk, bounds
<1>1. Typed'
  BY DEF Typed
<1>2. Locked' /\ Kinds' /\ Bounded'
  BY DEF Typed, Locked, Kinds, Bounded, InCall, Rows
<1>3. FreshView' /\ Vouched'
  BY DEF Typed, FreshView, Vouched, Locked, InCall, Rows, Stamp
<1>4. SaveInFlight' /\ Populated' /\ Durable' /\ Journaled'
  BY DEF Typed, SaveInFlight, Saving, Populated, Durable, Journaled, Locked, InCall
<1> QED BY <1>1, <1>2, <1>3, <1>4

\* A documents-only open preserves the invariant: the rows it lacks are not in
\* the view FreshView asks for.
LEMMA KeepsOpenDocuments ==
    ASSUME SafeUse, Inv, NEW p \in Proc, OpenDocuments(p) PROVE Inv'
<1> USE StoreAssumption DEF Inv, OpenDocuments, Enter, DocumentsOf, disk, bounds
<1>1. Typed'
  BY DEF Typed, Rows, Row
<1>2. Locked' /\ Kinds' /\ Bounded'
  BY DEF Typed, Locked, Kinds, Bounded, InCall, Rows, Proc
<1>3. FreshView' /\ Vouched'
  BY DEF Typed, FreshView, Vouched, Locked, InCall, Rows, Stamp
<1>4. SaveInFlight' /\ Populated' /\ Durable' /\ Journaled'
  BY DEF Typed, SaveInFlight, Saving, Populated, Durable, Journaled, Locked, InCall
<1> QED BY <1>1, <1>2, <1>3, <1>4

\* reacquire_store preserves it: it reads the rows again unless the stamp seen
\* is the present one, and then Vouched says the rows in memory will do.
LEMMA KeepsReacquire ==
    ASSUME SafeUse, Inv, NEW p \in Proc, Reacquire(p) PROVE Inv'
<1> USE StoreAssumption DEF Inv, Reacquire, Enter, disk, bounds
<1>1. Typed'
  BY DEF Typed, Rows, Row
<1>2. Locked' /\ Kinds' /\ Bounded'
  BY DEF Typed, Locked, Kinds, Bounded, InCall, Rows, Proc
<1>3. FreshView' /\ Vouched'
  BY DEF Typed, FreshView, Vouched, Locked, InCall, Rows, Stamp
<1>4. SaveInFlight' /\ Populated' /\ Durable' /\ Journaled'
  BY DEF Typed, SaveInFlight, Saving, Populated, Durable, Journaled, Locked, InCall
<1> QED BY <1>1, <1>2, <1>3, <1>4

\* Letting go preserves it: a server's view was fresh, so the stamp it saw
\* vouches for its rows.
LEMMA KeepsLetGo ==
    ASSUME SafeUse, Inv, NEW p \in Proc, LetGo(p) PROVE Inv'
<1> USE StoreAssumption DEF Inv, LetGo, disk, bounds
<1>1. Typed'
  BY DEF Typed, Rows, Row
<1>2. Locked' /\ Kinds' /\ Bounded'
  BY DEF Typed, Locked, Kinds, Bounded, InCall, Rows, Proc
<1>3. FreshView' /\ Vouched'
  <2>1. p \in Server => ~partial[p]
    BY DEF Kinds
  <2>2. \A r \in Row : p \in Server => mem[p][r] >= snapshot[r]
    BY <2>1 DEF FreshView, InCall
  <2> QED
    BY <2>2 DEF Typed, FreshView, Vouched, Locked, InCall, Rows, Stamp
<1>4. SaveInFlight' /\ Populated' /\ Durable' /\ Journaled'
  BY DEF Typed, SaveInFlight, Saving, Populated, Durable, Journaled, Locked, InCall
<1> QED BY <1>1, <1>2, <1>3, <1>4

\* A tool that only reads preserves it.
LEMMA KeepsAsk ==
    ASSUME SafeUse, Inv, NEW p \in Proc, Ask(p) PROVE Inv'
<1> USE StoreAssumption DEF Inv, Ask, disk, bounds
<1>1. Typed'
  BY DEF Typed, Rows, Row
<1>2. Locked' /\ Kinds' /\ Bounded'
  BY DEF Typed, Locked, Kinds, Bounded, InCall, Rows, Proc
<1>3. FreshView' /\ Vouched'
  BY DEF Typed, FreshView, Vouched, Locked, InCall, Rows, Stamp
<1>4. SaveInFlight' /\ Populated' /\ Durable' /\ Journaled'
  BY DEF Typed, SaveInFlight, Saving, Populated, Durable, Journaled, Locked, InCall
<1> QED BY <1>1, <1>2, <1>3, <1>4

\* A change in memory alone preserves it: the row only gets newer.
LEMMA KeepsRemember ==
    ASSUME SafeUse, Inv, NEW p \in Proc, NEW r \in Other, Remember(p, r) PROVE Inv'
<1> USE StoreAssumption DEF Inv, Remember, disk, bounds
<1>1. Typed'
  BY DEF Typed, Rows, Row
<1>2. Locked' /\ Kinds' /\ Bounded'
  BY DEF Typed, Locked, Kinds, Bounded, InCall, Rows, Proc
<1>3. /\ \A q \in Proc \ {p} : mem'[q] = mem[q] /\ pc'[q] = pc[q]
      /\ \A t \in Row : mem'[p][t] >= mem[p][t]
      /\ InCall(p) /\ pc'[p] = "done"
  BY DEF Typed, Rows, Bounded, InCall, Row
<1>4. FreshView'
  BY <1>3 DEF Typed, FreshView, InCall, Rows
<1>5. Vouched'
  BY <1>3 DEF Typed, Vouched
<1>6. SaveInFlight' /\ Populated' /\ Durable' /\ Journaled'
  BY DEF Typed, SaveInFlight, Saving, Populated, Durable, Journaled, Locked, InCall
<1> QED BY <1>1, <1>2, <1>4, <1>5, <1>6

\* A change that will be saved preserves it if it starts from rows at least as
\* new as the snapshot's, whatever the store was opened with.
LEMMA KeepsChange ==
    ASSUME SafeUse, Inv, NEW p \in Proc, NEW r \in Row, NEW rows \in Rows,
           NEW s \in {seen[p], stamp},
           pc[p] = "call",
           \A t \in Row : snapshot[t] <= rows[t] /\ rows[t] <= writes,
           Change(p, rows, r),
           partial' = [partial EXCEPT ![p] = FALSE],
           seen' = [seen EXCEPT ![p] = s]
    PROVE  Inv'
<1> USE StoreAssumption DEF Inv, Change, disk, bounds
<1>1. Typed'
  BY DEF Typed, Rows
<1>2. /\ \A q \in Proc \ {p} : /\ mem'[q] = mem[q] /\ pc'[q] = pc[q]
                               /\ partial'[q] = partial[q] /\ seen'[q] = seen[q]
                               /\ target'[q] = target[q]
      /\ mem'[p] = [rows EXCEPT ![r] = writes + 1] /\ pc'[p] = "save"
      /\ ~partial'[p] /\ target'[p] = [row |-> r, write |-> writes + 1]
      /\ writes' = writes + 1
      /\ seen'[p] = s
  BY DEF Typed
<1>3. /\ mem'[p][r] = writes'
      /\ \A t \in Row : mem'[p][t] <= writes' /\ mem'[p][t] >= snapshot[t]
  BY <1>2 DEF Rows, Typed, Bounded
<1>4. Locked' /\ Kinds'
  BY <1>2 DEF Locked, Kinds, InCall, Proc
<1>5. Bounded'
  BY <1>2, <1>3 DEF Bounded, Typed, Rows
<1>6. FreshView'
  BY <1>2, <1>3 DEF FreshView, InCall
<1>7. Vouched'
  BY <1>2 DEF Vouched, Typed, Stamp
<1>8. SaveInFlight'
  <2>1. \A q \in Proc \ {p} : ~Saving(q)
    BY DEF Locked, InCall, Saving
  <2> QED BY <1>2, <1>3, <2>1 DEF SaveInFlight, Saving
<1>9. Populated' /\ Durable' /\ Journaled'
  BY DEF Populated, Durable, Journaled
<1> QED BY <1>1, <1>4, <1>5, <1>6, <1>7, <1>8, <1>9

\* A tool on a row that is no document preserves it.
LEMMA KeepsPut ==
    ASSUME SafeUse, Inv, NEW p \in Proc, NEW r \in Other, Put(p, r) PROVE Inv'
<1>1. partial' = [partial EXCEPT ![p] = FALSE] /\ seen' = [seen EXCEPT ![p] = seen[p]]
  BY DEF Put, Inv, Typed
<1>2. \A t \in Row : snapshot[t] <= mem[p][t] /\ mem[p][t] <= writes
  BY DEF Put, Inv, FreshView, InCall, Bounded, Typed, Rows
<1>3. mem[p] \in Rows /\ r \in Row
  BY DEF Inv, Typed, Row
<1> QED BY <1>1, <1>2, <1>3, KeepsChange DEF Put

\* What detect and index work on: the rows in memory, or the snapshot's after
\* a documents-only open.
LEMMA ReadInFull ==
    ASSUME Inv, NEW p \in Proc, pc[p] = "call"
    PROVE  LET rows == IF partial[p] THEN snapshot ELSE mem[p]
           IN  rows \in Rows /\ \A t \in Row : snapshot[t] <= rows[t] /\ rows[t] <= writes
BY DEF Inv, FreshView, InCall, Bounded, Typed, Rows

\* detect preserves it: a documents-only store is read in full first.
LEMMA KeepsDetect ==
    ASSUME SafeUse, Inv, NEW p \in Proc, NEW r \in Document, Detect(p, r) PROVE Inv'
<1> DEFINE rows == IF partial[p] THEN snapshot ELSE mem[p]
           s == IF partial[p] THEN stamp ELSE seen[p]
<1>1. rows \in Rows /\ \A t \in Row : snapshot[t] <= rows[t] /\ rows[t] <= writes
  BY ReadInFull DEF Detect
<1>2. /\ pc[p] = "call" /\ r \in Row /\ s \in {seen[p], stamp}
      /\ Change(p, rows, r)
      /\ partial' = [partial EXCEPT ![p] = FALSE] /\ seen' = [seen EXCEPT ![p] = s]
  BY DEF Detect, Row
<1> HIDE DEF rows, s
<1> QED BY <1>1, <1>2, KeepsChange

\* index preserves it: under SafeUse it reads a documents-only store in full,
\* as detect does.
LEMMA KeepsIndex ==
    ASSUME SafeUse, Inv, NEW p \in Proc, NEW r \in Document, NEW force \in Forced,
           Index(p, r, force)
    PROVE  Inv'
<1>1. partial[p] => \E d \in Document : mem[p][d] # 0
  <2> SUFFICES ASSUME partial[p] PROVE \E d \in Document : mem[p][d] # 0
    OBVIOUS
  <2>1. PICK d \in Document : snapshot[d] # 0
    BY DEF Inv, Populated
  <2>2. mem[p][d] >= snapshot[d] /\ snapshot[d] \in Nat /\ mem[p][d] \in Nat
    BY DEF Index, Inv, FreshView, InCall, Typed, Rows, Row
  <2> QED BY <2>1, <2>2
<1>2. force = FALSE
  BY DEF SafeUse
<1>3. Detect(p, r)
  BY <1>1, <1>2 DEF Index, Detect, Inv, Typed
<1> QED BY <1>3, KeepsDetect

\* Writing the temporary file preserves it: nobody reads that file.
LEMMA KeepsWriteTmp ==
    ASSUME SafeUse, Inv, NEW p \in Proc, WriteTmp(p) PROVE Inv'
<1> USE StoreAssumption DEF Inv, WriteTmp, Goto, disk, bounds
<1>1. Typed'
  BY DEF Typed, Rows, Row
<1>2. Locked' /\ Kinds' /\ Bounded'
  BY DEF Typed, Locked, Kinds, Bounded, InCall, Rows, Proc
<1>3. FreshView' /\ Vouched'
  BY DEF Typed, FreshView, Vouched, Locked, InCall, Rows, Stamp
<1>4. SaveInFlight' /\ Populated' /\ Durable' /\ Journaled'
  BY DEF Typed, SaveInFlight, Saving, Populated, Durable, Journaled, Locked, InCall
<1> QED BY <1>1, <1>2, <1>3, <1>4

\* The rename preserves it: the rows on disk only get newer, and the stamp is a
\* new one, so no idle server's stamp vouches for old rows.
LEMMA KeepsRename ==
    ASSUME SafeUse, Inv, NEW p \in Proc, Rename(p) PROVE Inv'
<1> USE StoreAssumption DEF Inv, Rename, Goto, disk, bounds
<1>1. /\ stamp' \in Stamp /\ stamp'.mtime = stamp.mtime + 1
      /\ seen' = [seen EXCEPT ![p] = stamp']
      /\ pc[p] = "tmp" /\ pc' = [pc EXCEPT ![p] = "renamed"]
      /\ snapshot' = tmp
  BY SizeType DEF SafeUse, Typed, Stamp
<1>2. /\ ~partial[p] /\ target[p].row \in Row /\ target[p].write = writes
      /\ mem[p][target[p].row] = writes /\ tmp = mem[p]
  BY DEF SaveInFlight, Saving
<1>3. \A t \in Row : mem[p][t] >= snapshot[t] /\ mem[p][t] \in Nat /\ snapshot[t] \in Nat
  BY <1>1, <1>2 DEF FreshView, InCall, Typed, Rows
<1>4. \A q \in Proc \ {p} : ~InCall(q)
  BY DEF Locked, InCall
<1>5. Typed'
  BY <1>1 DEF Typed
<1>6. Locked' /\ Kinds'
  BY <1>1 DEF Typed, Locked, Kinds, InCall
<1>7. Bounded' /\ Populated' /\ Durable' /\ Journaled'
  BY <1>1, <1>2, <1>3 DEF Bounded, Populated, Durable, Journaled, Typed, Rows, Row
<1>8. FreshView'
  BY <1>1, <1>2, <1>3, <1>4 DEF FreshView, InCall, Typed
<1>9. Vouched'
  BY <1>1 DEF Vouched, Typed, Stamp
<1>10. SaveInFlight'
  BY <1>1, <1>2, <1>4 DEF SaveInFlight, Saving, InCall, Typed
<1> QED BY <1>5, <1>6, <1>7, <1>8, <1>9, <1>10

\* The journal line and the reply preserve it: the write is in the snapshot.
LEMMA KeepsAppendJournal ==
    ASSUME SafeUse, Inv, NEW p \in Proc, AppendJournal(p) PROVE Inv'
<1> USE StoreAssumption DEF Inv, AppendJournal, Goto, disk, bounds
<1>1. /\ target[p].row \in Row /\ target[p].write = writes
      /\ snapshot[target[p].row] = writes /\ writes \in 1..MaxWrites /\ writes \in Nat
  BY DEF SaveInFlight, Saving, Typed
<1>2. /\ acked' = [acked EXCEPT ![target[p].row] = writes]
      /\ journal' = journal \cup {writes}
  BY <1>1
<1>3. Typed'
  BY <1>1, <1>2 DEF Typed, Rows
<1>4. Locked' /\ Kinds' /\ FreshView' /\ Vouched'
  BY DEF Typed, Locked, Kinds, FreshView, Vouched, InCall
<1>5. Bounded' /\ Durable' /\ Journaled'
  BY <1>1, <1>2 DEF Bounded, Durable, Journaled, Typed, Rows
<1>6. SaveInFlight' /\ Populated'
  BY DEF SaveInFlight, Saving, Populated, Typed
<1> QED BY <1>3, <1>4, <1>5, <1>6

\* A failed step preserves it.
LEMMA KeepsFail ==
    ASSUME SafeUse, Inv, NEW p \in Proc, Fail(p) PROVE Inv'
<1> USE StoreAssumption DEF Inv, Fail, Goto, disk, bounds
<1>1. Typed'
  BY DEF Typed, Rows, Row
<1>2. Locked' /\ Kinds' /\ Bounded'
  BY DEF Typed, Locked, Kinds, Bounded, InCall, Rows, Proc
<1>3. FreshView' /\ Vouched'
  BY DEF Typed, FreshView, Vouched, Locked, InCall, Rows, Stamp
<1>4. SaveInFlight' /\ Populated' /\ Durable' /\ Journaled'
  BY DEF Typed, SaveInFlight, Saving, Populated, Durable, Journaled, Locked, InCall
<1> QED BY <1>1, <1>2, <1>3, <1>4

\* A killed process preserves it: what it had in memory is gone, the files are
\* whole.
LEMMA KeepsCrash ==
    ASSUME SafeUse, Inv, NEW p \in Proc, Crash(p) PROVE Inv'
<1> USE StoreAssumption DEF Inv, Crash, disk, bounds
<1>1. Typed'
  BY DEF Typed, Rows, Row
<1>2. Locked' /\ Kinds' /\ Bounded'
  BY DEF Typed, Locked, Kinds, Bounded, InCall, Rows, Proc
<1>3. FreshView' /\ Vouched'
  BY DEF Typed, FreshView, Vouched, Locked, InCall, Rows, Stamp
<1>4. SaveInFlight' /\ Populated' /\ Durable' /\ Journaled'
  BY DEF Typed, SaveInFlight, Saving, Populated, Durable, Journaled, Locked, InCall
<1> QED BY <1>1, <1>2, <1>3, <1>4

\* Every step does.
LEMMA InvNext == ASSUME SafeUse, Inv, [Next]_vars PROVE Inv'
<1>1. CASE UNCHANGED vars
  BY <1>1
  DEF vars, disk, bounds, Inv, Typed, Locked, Kinds, Bounded, FreshView, Vouched,
      SaveInFlight, Saving, Populated, Durable, Journaled, InCall
<1>2. ASSUME NEW p \in Proc, Tool(p) PROVE Inv'
  BY <1>2, KeepsAsk, KeepsPut, KeepsRemember, KeepsDetect, KeepsIndex DEF Tool
<1>3. ASSUME NEW p \in Proc, Proceed(p) PROVE Inv'
  BY <1>2, <1>3, KeepsWriteTmp, KeepsRename, KeepsAppendJournal, KeepsFail, KeepsLetGo
  DEF Proceed
<1> QED
  BY <1>1, <1>3, KeepsOpen, KeepsOpenDocuments, KeepsReacquire, KeepsCrash DEF Next

\* Under safe use the invariant always holds.
THEOREM Invariance == ASSUME SafeUse PROVE Spec => []Inv
<1>1. Init => Inv
  BY InvInit
<1>2. Inv /\ [Next]_vars => Inv'
  BY InvNext
<1> QED BY <1>1, <1>2, PTL DEF Spec

\* A process in a call works on the rows of the snapshot or newer ones, with
\* any number of processes (Engine::reacquire_store, Store::relock).
THEOREM ViewIsFresh == ASSUME SafeUse PROVE Spec => []FreshView
<1>1. Inv => FreshView
  BY DEF Inv
<1> QED BY <1>1, Invariance, PTL

\* No write answered Ok is lost to the save of another process, a failed step
\* or a kill (Store::save).
THEOREM NothingAckedIsLost == ASSUME SafeUse PROVE Spec => []Durable
<1>1. Inv => Durable
  BY DEF Inv
<1> QED BY <1>1, Invariance, PTL

\* What a step does to the rows of the snapshot and to the replies: nothing, a
\* commit, or an acknowledgement.
LEMMA StepMaps ==
    ASSUME SafeUse, Inv, Inv', [Next]_vars
    PROVE  [Abstract!Commit \/ Abstract!Acknowledge]_<<snapshot, acked>>
<1> USE DEF disk, bounds
<1>1. ASSUME NEW p \in Proc, Rename(p) PROVE Abstract!Commit
  <2>1. snapshot' = mem[p]
    BY <1>1 DEF Rename, Goto, Inv, SaveInFlight, Saving
  <2>2. InCall(p) /\ ~partial[p]
    BY <1>1 DEF Rename, Goto, Inv, SaveInFlight, Saving, InCall
  <2>3. \A r \in Row : snapshot'[r] >= snapshot[r]
    BY <2>1, <2>2 DEF Inv, FreshView
  <2>4. snapshot' \in Rows /\ UNCHANGED acked
    BY <1>1 DEF Inv, Typed, Rename
  <2> QED BY <2>3, <2>4 DEF Abstract!Commit, Rows
<1>2. ASSUME NEW p \in Proc, AppendJournal(p) PROVE Abstract!Acknowledge
  <2> DEFINE r == target[p].row
  <2>1. r \in Row /\ target[p].write = writes /\ snapshot[r] = writes
    BY <1>2 DEF AppendJournal, Goto, Inv, SaveInFlight, Saving
  <2>2. writes \in acked[r]..snapshot[r]
    BY <2>1 DEF Inv, Bounded, Typed, Rows
  <2>3. acked' = [acked EXCEPT ![r] = writes] /\ UNCHANGED snapshot
    BY <1>2, <2>1 DEF AppendJournal
  <2> QED BY <2>1, <2>2, <2>3 DEF Abstract!Acknowledge
<1>3. ASSUME NEW p \in Proc, Tool(p) PROVE UNCHANGED <<snapshot, acked>>
  BY <1>3 DEF Tool, Ask, Put, Remember, Detect, Index, Change
<1>4. ASSUME NEW p \in Proc,
             \/ WriteTmp(p) \/ Fail(p) \/ LetGo(p) \/ Crash(p)
             \/ Open(p) \/ OpenDocuments(p) \/ Reacquire(p)
      PROVE  UNCHANGED <<snapshot, acked>>
  BY <1>4 DEF WriteTmp, Fail, LetGo, Crash, Open, OpenDocuments, Reacquire
<1> QED BY <1>1, <1>2, <1>3, <1>4 DEF Next, Proceed, vars

\* Processes with copies of their own act as one store whose rows only move
\* forward.
THEOREM Implements == ASSUME SafeUse PROVE Spec => Refines
<1>1. Init => Abstract!Init
  BY DEF Init, Abstract!Init, NoRows
<1>2. Inv /\ Inv' /\ [Next]_vars
        => [Abstract!Commit \/ Abstract!Acknowledge]_<<snapshot, acked>>
  BY StepMaps
<1> QED BY <1>1, <1>2, Invariance, PTL DEF Spec, Refines, Abstract!Spec
===============================================================================
