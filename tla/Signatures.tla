------------------------------ MODULE Signatures ------------------------------
(***************************************************************************)
(* The signature rows hybrid search ranks by.  A row belongs to a chunk    *)
(* only by its position: State.sigs is a list beside State.chunks, and     *)
(* signatures.bin holds the same list on disk.  Indexing drops chunks from *)
(* the middle of the list and pushes new ones at its end, without touching *)
(* the rows; the next save or hybrid query brings the rows up to date when *)
(* the two lengths differ.  The signature of a chunk in hex lives only in  *)
(* the memory of the process that indexed it.                              *)
(***************************************************************************)
EXTENDS Naturals, Sequences, FiniteSets

CONSTANTS File,
          MaxPieces,   \* bound: chunks of one file
          MaxVersions, \* bound: files indexed, and memory chunks embedded
          MaxLoads,    \* bound: loads from disk between saves
          MaxKills     \* bound: calls and saves that are killed half-way

ASSUME SignaturesAssumption ==
    /\ "memory" \notin File
    /\ MaxPieces \in Nat \ {0} /\ MaxVersions \in Nat
    /\ MaxLoads \in Nat /\ MaxKills \in Nat

\* A chunk: its document, when it was made, its place in the document, and
\* whether an agent signature was written for it.
Chunk == [path : File \cup {"memory"}, made : 1..MaxVersions, at : 1..MaxPieces,
          embedded : BOOLEAN]

\* A row is the signature of a chunk's text; Zero is 128 zeros.
Zero == <<>>
Signature(c) == <<c.path, c.made, c.at>>

VARIABLES chunks,   \* State.chunks
          sigs,     \* State.sigs
          hex,      \* the chunks that carry their signature in hex
          saved,    \* the chunks of snapshot.json
          file,     \* the rows of signatures.bin
          pc,
          made, loads, kills,
          appended, \* history: chunks were only added since the store began,
                    \* by one process
          torn      \* history: a save has changed signatures.bin since the
                    \* last that got as far as the snapshot

vars == <<chunks, sigs, hex, saved, file, pc, made, loads, kills, appended, torn>>

Init == /\ chunks = <<>> /\ sigs = <<>> /\ hex = {}
        /\ saved = <<>> /\ file = <<>>
        /\ pc = "ready"
        /\ made = 0 /\ loads = 0 /\ kills = 0
        /\ appended = TRUE /\ torn = FALSE

-------------------------------------------------------------------------------
\* Mutant: the file is not looked at, and short lists stay short.
Ensured_Short(list, rows) ==
    IF Len(rows) = Len(list) THEN rows
    ELSE IF Len(file) >= Len(list) THEN SubSeq(file, 1, Len(list)) ELSE file

\* Mutant: what is in memory is dropped for what is on disk.
Ensured_FileFirst(list, rows) ==
    IF Len(file) > 0 THEN [i \in 1..Len(list) |->
        IF i <= Len(file) THEN file[i] ELSE Zero]
    ELSE [i \in 1..Len(list) |->
        IF list[i] \in hex THEN Signature(list[i]) ELSE Zero]

\* ensure_sigs: lists of one length are taken to agree; then the head of the
\* file, if it is long enough; then the hex the chunks carry.
Ensured(list, rows) ==
    IF Len(rows) = Len(list) THEN rows
    ELSE IF Len(file) >= Len(list) THEN SubSeq(file, 1, Len(list))
    ELSE [i \in 1..Len(list) |->
            IF list[i] \in hex THEN Signature(list[i]) ELSE Zero]

\* A change of the chunks in memory; its save comes next, unless the call
\* ends before it.
Changed(list, rows, next) ==
    /\ pc = "ready"
    /\ chunks' = list
    /\ sigs' = rows
    /\ pc' = next
    /\ UNCHANGED <<saved, file, loads, kills, torn>>

\* retain(|chunk| the path of chunk is not in paths): what is kept, in order.
Without(paths) ==
    LET keep == {i \in DOMAIN chunks : chunks[i].path \notin paths}
        Nth(n) == CHOOSE i \in keep : Cardinality({j \in keep : j < i}) = n - 1
    IN  [n \in 1..Cardinality(keep) |-> chunks[Nth(n)]]

\* The pieces of a file as commit_piece pushes them.
Pieces(f, n) ==
    [i \in 1..n |-> [path |-> f, made |-> made + 1, at |-> i, embedded |-> FALSE]]

\* drop_unseen: an index of the whole tree drops the memory chunks too.
Unseen(whole) == IF whole THEN {"memory"} ELSE {}

\* index or detect of a new or edited file: drop_path, then commit_piece, and
\* drop_unseen leaves the new pieces.  An error on a later file ends the call
\* before drop_unseen and the save.
Reindex(f, n, whole, next) ==
    /\ made < MaxVersions
    /\ made' = made + 1
    /\ whole => next = "save"
    /\ Changed(Without({f} \cup Unseen(whole)) \o Pieces(f, n), sigs, next)
    /\ hex' = hex \cup {Pieces(f, n)[i] : i \in 1..n}
    /\ appended' = (appended /\ Without({f} \cup Unseen(whole)) = chunks)

\* remove, detect of a file that is gone, or an index that finds one gone.
Remove(f, whole) ==
    /\ Without({f}) # chunks
    /\ Changed(Without({f} \cup Unseen(whole)), sigs, "save")
    /\ appended' = FALSE
    /\ UNCHANGED <<hex, made>>

\* An index of the whole tree that finds every file as it was: the memory
\* chunks go, and nothing is saved.
IndexNothing ==
    /\ Without(Unseen(TRUE)) # chunks
    /\ Changed(Without(Unseen(TRUE)), sigs, "ready")
    /\ appended' = FALSE
    /\ UNCHANGED <<hex, made>>

\* llm_embed of an unknown id: a chunk without hex, a row of zeros, and the
\* agent signature.
EmbedMemory ==
    LET c == [path |-> "memory", made |-> made + 1, at |-> 1, embedded |-> TRUE]
    IN  /\ made < MaxVersions
        /\ made' = made + 1
        /\ Changed(Append(chunks, c), Append(sigs, Zero), "save")
        /\ UNCHANGED <<hex, appended>>

\* A hybrid query brings the rows up to date and ranks by them.
HybridQuery ==
    /\ pc = "ready"
    /\ sigs' = Ensured(chunks, sigs)
    /\ UNCHANGED <<chunks, hex, saved, file, pc, made, loads, kills, appended, torn>>

\* Store::save: ensure_sigs and signatures.bin ...
WriteSigs ==
    /\ pc = "save"
    /\ sigs' = Ensured(chunks, sigs)
    /\ file' = Ensured(chunks, sigs)
    /\ pc' = "rename"
    /\ torn' = TRUE
    /\ UNCHANGED <<chunks, hex, saved, made, loads, kills, appended>>

\* ... and the snapshot.
Rename ==
    /\ pc = "rename"
    /\ saved' = chunks
    /\ pc' = "ready"
    /\ torn' = FALSE
    /\ UNCHANGED <<chunks, sigs, hex, file, made, loads, kills, appended>>

\* fs::write empties the file and fills it: where it stops, the file is as it
\* was or has the first rows (read_sigs takes whole rows only).
CutShort(rows) ==
    /\ file' \in {file} \cup {SubSeq(rows, 1, n) : n \in 0..Len(rows)}
    /\ torn' = (torn \/ file' # file)

\* The save gives up at signatures.bin and answers with an error: the rows in
\* memory are up to date, and the call is over.
WriteSigsFails ==
    /\ pc = "save"
    /\ sigs' = Ensured(chunks, sigs)
    /\ CutShort(Ensured(chunks, sigs))
    /\ pc' = "ready"
    /\ UNCHANGED <<chunks, hex, saved, made, loads, kills, appended>>

\* The save gives up at the snapshot, its temporary file or the rename: the
\* rows are replaced and the chunks are not.
RenameFails ==
    /\ pc = "rename"
    /\ pc' = "ready"
    /\ UNCHANGED <<chunks, sigs, hex, saved, file, made, loads, kills, appended, torn>>

\* What a process has after it read the store.
Loaded == /\ chunks' = saved
          /\ sigs' = <<>>
          /\ hex' = {}
          /\ pc' = "ready"
          /\ appended' = FALSE
          /\ UNCHANGED <<saved, made>>

\* reload_full, or a new process.
Load == /\ pc = "ready" /\ loads < MaxLoads
        /\ loads' = loads + 1
        /\ Loaded
        /\ UNCHANGED <<file, kills, torn>>

\* The process is killed before or between the writes of a save, or in the
\* middle of the first; another one opens the store.
Kill == /\ kills < MaxKills
        /\ kills' = kills + 1
        /\ \/ pc = "save" /\ CutShort(Ensured(chunks, sigs))
           \/ pc = "rename" /\ UNCHANGED <<file, torn>>
        /\ Loaded
        /\ UNCHANGED loads

Next == \/ \E f \in File, n \in 1..MaxPieces, whole \in BOOLEAN,
              next \in {"save", "ready"} : Reindex(f, n, whole, next)
        \/ \E f \in File, whole \in BOOLEAN : Remove(f, whole)
        \/ IndexNothing \/ EmbedMemory \/ HybridQuery \/ WriteSigs \/ Rename
        \/ WriteSigsFails \/ RenameFails \/ Load \/ Kill

Spec == Init /\ [][Next]_vars

-------------------------------------------------------------------------------
RowType == (((File \cup {"memory"}) \X (1..MaxVersions) \X (1..MaxPieces)) \cup {Zero})

\* The types of the state, and the rows a save has written are those in memory,
\* one for each chunk.
TypeOK ==
    /\ chunks \in Seq(Chunk) /\ saved \in Seq(Chunk)
    /\ sigs \in Seq(RowType) /\ file \in Seq(RowType)
    /\ hex \subseteq Chunk
    /\ pc \in {"ready", "save", "rename"}
    /\ pc = "rename" => Len(file) = Len(chunks) /\ file = sigs
    /\ made \in 0..MaxVersions /\ loads \in 0..MaxLoads
    /\ kills \in 0..MaxKills /\ appended \in BOOLEAN /\ torn \in BOOLEAN

\* Every chunk of the snapshot finds a row in the file, and no row is left
\* over, unless a save stopped, by a kill or an error, after it had touched
\* signatures.bin and before the snapshot was in place; and the next save that
\* gets through mends that, whatever rows it finds (ensure_sigs, Store::save).
RowForEach ==
    /\ TypeOK
    /\ pc = "ready" /\ ~torn => Len(file) = Len(saved)

\* The vector hybrid search compares with.
Vector(i) == IF chunks[i].embedded THEN Signature(chunks[i]) ELSE sigs[i]

UpToDate == pc = "ready" /\ Len(sigs) = Len(chunks)

\* As long as one process has only ever added chunks, each is ranked by its
\* own signature.
OwnWhileAppending ==
    appended /\ UpToDate =>
        \A i \in DOMAIN chunks : Vector(i) = Signature(chunks[i])
===============================================================================
