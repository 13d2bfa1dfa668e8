----------------------------- MODULE EngineCaches -----------------------------
(***************************************************************************)
(* What one engine derives from its chunks and keeps: the keyword index    *)
(* (bm25) and the chunks left out of it, the vector graph (hnsw), the      *)
(* numbers doctor reports about that graph, and the files bm25.bin and     *)
(* hnsw_stats.json that other processes read under a fingerprint of the    *)
(* chunks.  Every tool that changes the chunks has to bring these along or *)
(* drop them.                                                              *)
(***************************************************************************)
EXTENDS Naturals, FiniteSets

CONSTANTS File,
          Memory,      \* ids llm_embed makes chunks for
          MaxVectors,  \* bound: agent signatures written to one chunk
          MaxFailures, \* bound: index calls that end in an error
          CacheMin,    \* GRAPH_CACHE_MIN: fewer chunks have no hnsw_stats.json
          None

ASSUME CachesAssumption ==
    /\ File \cap Memory = {} /\ MaxVectors \in Nat /\ MaxFailures \in Nat
    /\ CacheMin \in Nat

\* One chunk per document, with one of two contents, and 0 for its own
\* signature or the number of the agent signature it was given.  A summary
\* given with an index call stands in for its own signature.
Chunk == [path : File \cup Memory, body : 0..1, vector : 0..MaxVectors,
          summary : BOOLEAN]
FileChunk(f, b) == [path |-> f, body |-> b, vector |-> 0, summary |-> FALSE]
Id(c) == <<c.path, c.body>>
Ids(set) == {Id(c) : c \in set}

VARIABLES chunks, saved,      \* in memory and in the snapshot
          bm25, ready,        \* ids in the keyword index; bm25_ready
          excluded,           \* bm25_excluded
          hnsw, built,        \* chunks as the graph has them; hnsw_ready
          numbers,            \* graph_cache: the graph they were taken from
          binFile, statsFile, \* bm25.bin and hnsw_stats.json
          failures,
          unbuilt             \* history: an index changed chunks since bm25 was
                              \* built, and did not build it again

vars == <<chunks, saved, bm25, ready, excluded, hnsw, built, numbers, binFile,
          statsFile, failures, unbuilt>>
keyword == <<bm25, ready, excluded, binFile, unbuilt>>
graph == <<hnsw, built, numbers, statsFile>>

Init == /\ chunks = {} /\ saved = {}
        /\ bm25 = {} /\ ready = FALSE /\ excluded = {}
        /\ hnsw = {} /\ built = FALSE /\ numbers = None
        /\ binFile = None /\ statsFile = None
        /\ failures = 0 /\ unbuilt = FALSE

-------------------------------------------------------------------------------
\* The keyword index.

\* Mutant: bm25.bin is written before the index is built again.
Rebuild_SavesOld(now, out) ==
    /\ bm25' = Ids(now) \ out
    /\ ready' = TRUE
    /\ excluded' = out \cap Ids(now)
    /\ binFile' = [print |-> Ids(now), keys |-> bm25]
    /\ unbuilt' = FALSE

\* rebuild_bm25 over the chunks, leaving out what is still left out.
Rebuild(now, out) ==
    LET live == out \cap Ids(now)
    IN  /\ bm25' = Ids(now) \ live
        /\ ready' = TRUE
        /\ excluded' = live
        /\ binFile' = [print |-> Ids(now), keys |-> Ids(now) \ live]
        /\ unbuilt' = FALSE

\* ensure_bm25: bm25.bin if it was saved for these chunks (in this order:
\* the same set may miss), a build from the store otherwise.
LoadIndex ==
    /\ binFile # None /\ binFile.print = Ids(chunks)
    /\ bm25' = binFile.keys
    /\ ready' = TRUE
    /\ excluded' = {Id(c) : c \in {d \in chunks : d.path \in Memory}} \ binFile.keys
    /\ UNCHANGED <<binFile, unbuilt>>

Search == /\ ~ready
          /\ LoadIndex \/ Rebuild(chunks, {})
          /\ UNCHANGED <<chunks, saved, graph, failures>>

-------------------------------------------------------------------------------
\* The graph and its numbers.

Cached(set) == Cardinality(set) >= CacheMin

\* graph_fingerprint: the ids and the agent signatures.
Printed(set) == {[c EXCEPT !.summary = FALSE] : c \in set}

\* hnsw_stats.json for the graph as it is now.
StatsWritten(now) ==
    statsFile' = IF Cached(now) THEN [print |-> Printed(now), graph |-> hnsw']
                 ELSE statsFile

DropGraph == built' = FALSE /\ numbers' = None /\ UNCHANGED <<hnsw, statsFile>>

\* graph_stats: the cached numbers, the file under this fingerprint if no
\* graph is built, or the graph, built if need be.
Doctor ==
    LET onFile == /\ Cached(chunks) /\ ~built
                  /\ statsFile # None /\ statsFile.print = Printed(chunks)
    IN  /\ numbers = None
        /\ IF onFile
           THEN numbers' = statsFile.graph /\ UNCHANGED <<hnsw, built, statsFile>>
           ELSE /\ hnsw' = IF built THEN hnsw ELSE chunks
                /\ built' = TRUE
                /\ numbers' = hnsw'
                /\ StatsWritten(chunks)
        /\ UNCHANGED <<chunks, saved, keyword, failures>>

\* graph_replace, and the numbers taken again when a large graph is built.
GraphReplace(now, c) ==
    IF ~built
    THEN numbers' = None /\ UNCHANGED <<hnsw, built, statsFile>>
    ELSE /\ hnsw' = {d \in hnsw : Id(d) # Id(c)} \cup {c}
         /\ numbers' = IF Cached(now) THEN hnsw' ELSE None
         /\ StatsWritten(now)
         /\ UNCHANGED built

-------------------------------------------------------------------------------
\* Tools that change the chunks.

Without(f) == {c \in chunks : c.path # f}
Indexed(f, b) == Without(f) \cup {FileChunk(f, b)}
Save == saved' = chunks'

\* An index of the whole tree drops all that no file was seen for: the
\* memory chunks too.
Seen(set, whole) == IF whole THEN {c \in set : c.path \in File} ELSE set

\* index or detect: drop_path and commit_piece, drop_unseen, rebuild_bm25.
Index(f, b, whole) ==
    LET now == Seen(Indexed(f, b), whole)
    IN  /\ chunks' = now
        /\ Rebuild(now, excluded)
        /\ Save /\ DropGraph
        /\ UNCHANGED failures

\* index returns an error after it has done one of its files: a later file is
\* gone or unreadable.  The chunks in memory have changed, and nothing else.
IndexFails(f, b) ==
    /\ failures < MaxFailures
    /\ failures' = failures + 1
    /\ chunks' = Indexed(f, b)
    /\ DropGraph
    /\ unbuilt' = TRUE
    /\ UNCHANGED <<saved, bm25, ready, excluded, binFile>>

\* index finds a document's file gone: drop_unseen.
DropUnseen(f, whole) ==
    LET now == Seen(Without(f), whole)
    IN  /\ Without(f) # chunks
        /\ chunks' = now
        /\ Rebuild(now, excluded)
        /\ Save
        /\ UNCHANGED <<graph, failures>>

\* index of the whole tree finds every file as it was.  Memory chunks are
\* dropped and, with no document new or gone, nothing is built or saved.
IndexNothing ==
    /\ chunks' = Seen(chunks, TRUE)
    /\ chunks' # chunks
    /\ unbuilt' = TRUE
    /\ UNCHANGED <<saved, bm25, ready, excluded, binFile, graph, failures>>

\* remove, and detect of a file that is gone: drop_path.
Remove(f) ==
    /\ Without(f) # chunks
    /\ chunks' = Without(f)
    /\ Rebuild(Without(f), excluded)
    /\ Save /\ DropGraph
    /\ UNCHANGED failures

\* An agent signature for a chunk: llm_embed, bulk embeddings, summaries.
Embed(c, v) ==
    LET d == [c EXCEPT !.vector = v]
        now == (chunks \ {c}) \cup {d}
    IN  /\ c \in chunks
        /\ chunks' = now
        /\ GraphReplace(now, d)
        /\ Save
        /\ UNCHANGED <<keyword, failures>>

\* Summaries given with an index call, when the index is done: the chunks of
\* a file get them, and nothing derived from the chunks is touched.
Summaries(f) ==
    /\ chunks' = {IF c.path = f THEN [c EXCEPT !.summary = TRUE] ELSE c : c \in chunks}
    /\ Save
    /\ UNCHANGED <<keyword, graph, failures>>

\* llm_embed of an unknown id: a memory chunk, left out of a built index.
EmbedMemory(m, v) ==
    LET c == [path |-> m, body |-> 0, vector |-> v, summary |-> FALSE]
    IN  /\ \A d \in chunks : d.path # m
        /\ chunks' = chunks \cup {c}
        /\ excluded' = IF ready THEN excluded \cup {Id(c)} ELSE excluded
        /\ GraphReplace(chunks \cup {c}, c)
        /\ Save
        /\ UNCHANGED <<bm25, ready, binFile, failures, unbuilt>>

\* clear: an empty state and an empty keyword index.
Clear ==
    /\ chunks' = {}
    /\ bm25' = {} /\ ready' = TRUE /\ unbuilt' = FALSE
    /\ Save
    /\ UNCHANGED <<excluded, binFile, graph, failures>>

\* Mutant: a reload keeps the keyword index.
Reload_KeepsIndex(f, b, out) ==
    LET now == {c \in saved : c.path # f} \cup {FileChunk(f, b)}
    IN  /\ chunks' = now
        /\ binFile' = [print |-> Ids(now), keys |-> Ids(now) \ out]
        /\ Save /\ DropGraph
        /\ UNCHANGED <<bm25, ready, excluded, failures, unbuilt>>

\* reacquire_store after another process has indexed a file, and written
\* bm25.bin without the memory chunks that process had left out.
Reload(f, b, out) ==
    LET now == {c \in saved : c.path # f} \cup {FileChunk(f, b)}
    IN  /\ chunks' = now
        /\ binFile' = [print |-> Ids(now), keys |-> Ids(now) \ out]
        /\ bm25' = {} /\ ready' = FALSE /\ excluded' = {} /\ unbuilt' = FALSE
        /\ Save /\ DropGraph
        /\ UNCHANGED failures

Next == \/ Search \/ Doctor \/ Clear \/ IndexNothing
        \/ \E f \in File, b \in 0..1 :
            \/ \E whole \in BOOLEAN : Index(f, b, whole)
            \/ IndexFails(f, b)
            \/ \E out \in SUBSET (Memory \X {0}) : Reload(f, b, out)
        \/ \E f \in File, whole \in BOOLEAN : DropUnseen(f, whole)
        \/ \E f \in File : Remove(f) \/ Summaries(f)
        \/ \E v \in 1..MaxVectors : \/ \E c \in chunks : Embed(c, v)
                                   \/ \E m \in Memory : EmbedMemory(m, v)

Spec == Init /\ [][Next]_vars

-------------------------------------------------------------------------------
IdSet == (File \cup Memory) \X (0..1)

\* The types of the state, and the snapshot has what is in memory unless an
\* index failed; it may have more memory chunks.
TypeOK ==
    /\ chunks \subseteq Chunk /\ saved \subseteq Chunk /\ hnsw \subseteq Chunk
    /\ bm25 \subseteq IdSet /\ excluded \subseteq IdSet
    /\ ready \in BOOLEAN /\ built \in BOOLEAN /\ unbuilt \in BOOLEAN
    /\ numbers = None \/ numbers \subseteq Chunk
    /\ binFile = None \/ binFile \in [print : SUBSET IdSet, keys : SUBSET IdSet]
    /\ statsFile = None \/ statsFile \in [print : SUBSET Chunk, graph : SUBSET Chunk]
    /\ failures \in 0..MaxFailures
    /\ failures = 0 => Seen(saved, TRUE) \subseteq chunks /\ chunks \subseteq saved

\* Keyword search looks through every chunk in memory and no other, but for
\* the memory chunks left out; unless an index changed chunks and built nothing.
SearchesAll ==
    ready /\ ~unbuilt =>
        /\ bm25 \subseteq Ids(chunks)
        /\ Ids(chunks) \ bm25 \subseteq excluded \cap (Memory \X {0})

\* A built graph has every chunk, with the vector search would use; but for
\* summaries given to an index that found their files as they were.
GraphCovers == built => Printed(chunks) \subseteq Printed(hnsw)

\* bm25.bin leaves out only memory chunks: another process that reads it
\* finds every indexed file.
FileComplete ==
    binFile # None => binFile.print \ binFile.keys \subseteq Memory \X {0}

\* doctor's numbers leave no chunk out.  After clear, and after an index that
\* only drops files, they still count chunks that are gone: clear and
\* drop_unseen reset neither the graph nor its numbers.
NumbersCover == numbers # None => Printed(chunks) \subseteq Printed(numbers)

\* Nothing that is derived from the chunks leaves one out, whatever tools and
\* failed calls came between (rebuild_bm25, graph_replace, graph_stats).
CachesCover == SearchesAll /\ GraphCovers /\ NumbersCover
===============================================================================
