-------------------------- MODULE EngineCaches_proofs --------------------------
(***************************************************************************)
(* Proofs about EngineCaches, for any files, memory chunks and failures.   *)
(*                                                                         *)
(* The invariant has one part for each thing an engine keeps.  Chunks: a   *)
(* document has one chunk, and a memory chunk has one content, so a chunk  *)
(* left out of the keyword index once is the one that is left out later.   *)
(* Keywords: only memory chunks are ever left out, in memory and in the    *)
(* file.  Graph: the numbers on file are those of a graph that has all the *)
(* chunks whose fingerprint they are under.                                *)
(*                                                                         *)
(* At the end, the keyword index itself (Ranking), for any texts.          *)
(***************************************************************************)
EXTENDS EngineCaches, Integers, Sequences, FiniteSetTheorems, TLAPS

\* The keyword index by document is in Ranking.
CONSTANTS Weight(_, _, _), IdBelow(_, _), FLAT, LOW, CLEAR
K == INSTANCE Ranking

OnePerPath(set) == \A c, d \in set : c.path = d.path => c = d
Plain(set) == \A c \in set : c.path \in Memory => c.body = 0
LeftOut == Memory \X {0}

Stock ==
    /\ chunks \subseteq Chunk /\ OnePerPath(chunks) /\ Plain(chunks)
    /\ saved \subseteq Chunk /\ OnePerPath(saved) /\ Plain(saved)
    /\ failures \in 0..MaxFailures
    /\ failures = 0 => Seen(saved, TRUE) \subseteq chunks /\ chunks \subseteq saved

Keywords ==
    /\ bm25 \subseteq IdSet /\ excluded \subseteq LeftOut
    /\ ready \in BOOLEAN /\ unbuilt \in BOOLEAN
    /\ binFile # None =>
         /\ binFile \in [print : SUBSET IdSet, keys : SUBSET IdSet]
         /\ binFile.keys \subseteq binFile.print
    /\ FileComplete /\ SearchesAll

\* hnsw_stats.json is about a graph with every chunk of its fingerprint.
StatsCover ==
    statsFile # None =>
        /\ statsFile \in [print : SUBSET Chunk, graph : SUBSET Chunk]
        /\ statsFile.print \subseteq Printed(statsFile.graph)

Graph ==
    /\ hnsw \subseteq Chunk /\ built \in BOOLEAN
    /\ numbers # None => numbers \subseteq Chunk
    /\ StatsCover /\ GraphCovers /\ NumbersCover

Inv == Stock /\ Keywords /\ Graph

-------------------------------------------------------------------------------
\* The chunks.

LEMMA InitInv == Init => Inv
<1> SUFFICES ASSUME Init PROVE Inv OBVIOUS
<1>1. Stock
  BY CachesAssumption DEF Init, Stock, OnePerPath, Plain, Seen
<1>2. Keywords
  BY DEF Init, Keywords, FileComplete, SearchesAll
<1>3. Graph
  BY DEF Init, Graph, StatsCover, GraphCovers, NumbersCover
<1> QED BY <1>1, <1>2, <1>3 DEF Inv

LEMMA FileChunkIs ==
    ASSUME NEW f \in File, NEW b \in 0..1
    PROVE  /\ FileChunk(f, b) \in Chunk
           /\ FileChunk(f, b).path = f /\ FileChunk(f, b).path \notin Memory
  BY CachesAssumption DEF FileChunk, Chunk

\* A chunk but for its summary, as a fingerprint has it.
Bare(c) == [c EXCEPT !.summary = FALSE]

\* A chunk after Summaries(f).
Summed(f, c) == IF c.path = f THEN [c EXCEPT !.summary = TRUE] ELSE c

LEMMA BareIs ==
    ASSUME NEW c \in Chunk
    PROVE  /\ Bare(c) \in Chunk
           /\ Bare(c).path = c.path /\ Bare(c).body = c.body /\ Bare(c).vector = c.vector
  BY DEF Chunk, Bare

LEMMA SummedIs ==
    ASSUME NEW c \in Chunk, NEW f
    PROVE  /\ Summed(f, c) \in Chunk /\ Bare(Summed(f, c)) = Bare(c)
           /\ Summed(f, c).path = c.path /\ Summed(f, c).body = c.body
  BY DEF Chunk, Bare, Summed

LEMMA SummariesIs ==
    ASSUME NEW f, Summaries(f)
    PROVE  chunks' = {Summed(f, c) : c \in chunks}
  BY Zenon DEF Summaries, Summed

LEMMA PrintedIs == ASSUME NEW set PROVE Printed(set) = {Bare(c) : c \in set}
  BY Zenon DEF Printed, Bare

\* A file's chunk takes the place of the one its path had.
LEMMA OneMore ==
    ASSUME NEW set, set \subseteq Chunk, OnePerPath(set), Plain(set),
           NEW f \in File, NEW b \in 0..1,
           NEW now, now = {c \in set : c.path # f} \cup {FileChunk(f, b)}
    PROVE  now \subseteq Chunk /\ OnePerPath(now) /\ Plain(now)
  BY FileChunkIs DEF OnePerPath, Plain

LEMMA Fewer ==
    ASSUME NEW set, set \subseteq Chunk, OnePerPath(set), Plain(set),
           NEW now, now \subseteq set
    PROVE  now \subseteq Chunk /\ OnePerPath(now) /\ Plain(now)
  BY DEF OnePerPath, Plain

\* A step that saves what it made of the chunks.
LEMMA SavedStep ==
    ASSUME chunks' \subseteq Chunk, OnePerPath(chunks'), Plain(chunks'),
           saved' = chunks', failures' \in 0..MaxFailures
    PROVE  Stock'
  BY DEF Stock, OnePerPath, Plain, Seen

LEMMA SeenFewer == ASSUME NEW set, NEW whole PROVE Seen(set, whole) \subseteq set
  BY DEF Seen

LEMMA StockStep == ASSUME Stock, Next PROVE Stock'
<1> USE DEF Stock
<1>1. CASE Search \/ Doctor
  BY <1>1 DEF Search, Doctor, OnePerPath, Plain
<1>2. CASE Clear
  <2>1. chunks' \subseteq Chunk /\ OnePerPath(chunks') /\ Plain(chunks')
    BY <1>2 DEF Clear, OnePerPath, Plain
  <2> QED BY <1>2, <2>1, SavedStep DEF Clear, Save
<1>3. CASE IndexNothing
  <2>1. chunks' \subseteq chunks
    BY <1>3, SeenFewer DEF IndexNothing
  <2>2. chunks' \subseteq Chunk /\ OnePerPath(chunks') /\ Plain(chunks')
    BY <2>1, Fewer
  <2> QED BY <1>3, <2>1, <2>2 DEF IndexNothing, Seen, OnePerPath, Plain
<1>4. ASSUME NEW f \in File, NEW b \in 0..1, NEW whole \in BOOLEAN, Index(f, b, whole)
      PROVE  Stock'
  <2> DEFINE all == Indexed(f, b)
  <2>1. all \subseteq Chunk /\ OnePerPath(all) /\ Plain(all)
    BY OneMore DEF Indexed, Without
  <2>2. chunks' \subseteq all
    BY <1>4, SeenFewer DEF Index
  <2>3. chunks' \subseteq Chunk /\ OnePerPath(chunks') /\ Plain(chunks')
    <3> HIDE DEF all
    <3> QED BY <2>1, <2>2, Fewer
  <2> QED BY <1>4, <2>3, SavedStep DEF Index, Save
<1>5. ASSUME NEW f \in File, NEW b \in 0..1, IndexFails(f, b)
      PROVE  Stock'
  <2>1. chunks' \subseteq Chunk /\ OnePerPath(chunks') /\ Plain(chunks')
    BY <1>5, OneMore DEF IndexFails, Indexed, Without
  <2>2. failures' \in 0..MaxFailures /\ failures' # 0
    BY <1>5, CachesAssumption DEF IndexFails
  <2> QED BY <1>5, <2>1, <2>2 DEF IndexFails, OnePerPath, Plain
<1>6. ASSUME NEW f \in File, NEW b \in 0..1, NEW out \in SUBSET LeftOut, Reload(f, b, out)
      PROVE  Stock'
  <2>1. chunks' \subseteq Chunk /\ OnePerPath(chunks') /\ Plain(chunks')
    BY <1>6, OneMore DEF Reload
  <2> QED BY <1>6, <2>1, SavedStep DEF Reload, Save
<1>7. ASSUME NEW f \in File, NEW whole \in BOOLEAN, DropUnseen(f, whole)
      PROVE  Stock'
  <2>1. chunks' \subseteq chunks
    BY <1>7, SeenFewer DEF DropUnseen, Without
  <2>2. chunks' \subseteq Chunk /\ OnePerPath(chunks') /\ Plain(chunks')
    BY <2>1, Fewer
  <2> QED BY <1>7, <2>2, SavedStep DEF DropUnseen, Save
<1>8. ASSUME NEW f \in File, Remove(f)
      PROVE  Stock'
  <2>1. chunks' \subseteq Chunk /\ OnePerPath(chunks') /\ Plain(chunks')
    BY <1>8, Fewer DEF Remove, Without
  <2> QED BY <1>8, <2>1, SavedStep DEF Remove, Save
<1>9. ASSUME NEW f \in File, Summaries(f)
      PROVE  Stock'
  <2>1. chunks' \subseteq Chunk /\ OnePerPath(chunks') /\ Plain(chunks')
    BY <1>9, SummariesIs, SummedIs DEF OnePerPath, Plain
  <2> QED BY <1>9, <2>1, SavedStep DEF Summaries, Save
<1>10. ASSUME NEW v \in 1..MaxVectors, NEW c \in chunks, Embed(c, v)
       PROVE  Stock'
  <2> DEFINE d == [c EXCEPT !.vector = v]
  <2>1. d \in Chunk /\ d.path = c.path /\ d.body = c.body
    BY CachesAssumption DEF Chunk
  <2>2. chunks' = (chunks \ {c}) \cup {d}
    BY <1>10 DEF Embed
  <2>3. chunks' \subseteq Chunk /\ OnePerPath(chunks') /\ Plain(chunks')
    <3> HIDE DEF d
    <3> QED BY <2>1, <2>2 DEF OnePerPath, Plain
  <2> QED BY <1>10, <2>3, SavedStep DEF Embed, Save
<1>11. ASSUME NEW v \in 1..MaxVectors, NEW m \in Memory, EmbedMemory(m, v)
       PROVE  Stock'
  <2> DEFINE c == [path |-> m, body |-> 0, vector |-> v, summary |-> FALSE]
  <2>1. c \in Chunk /\ c.path = m /\ c.body = 0
    BY CachesAssumption DEF Chunk
  <2>2. chunks' = chunks \cup {c} /\ \A d \in chunks : d.path # m
    BY <1>11 DEF EmbedMemory
  <2>3. chunks' \subseteq Chunk /\ OnePerPath(chunks') /\ Plain(chunks')
    <3> HIDE DEF c
    <3> QED BY <2>1, <2>2 DEF OnePerPath, Plain
  <2> QED BY <1>11, <2>3, SavedStep DEF EmbedMemory, Save
<1> QED BY <1>1, <1>2, <1>3, <1>4, <1>5, <1>6, <1>7, <1>8, <1>9, <1>10, <1>11 DEF Next, LeftOut

-------------------------------------------------------------------------------
\* The keyword index.

LEMMA IdsIn == ASSUME NEW set, set \subseteq Chunk PROVE Ids(set) \subseteq IdSet
  BY DEF Ids, Id, IdSet, Chunk

LEMMA IdsLess == ASSUME NEW a, NEW b, a \subseteq b PROVE Ids(a) \subseteq Ids(b)
  BY DEF Ids

\* Tools that leave the keyword index alone keep the ids of the chunks.
LEMMA SameIds ==
    ASSUME Keywords, UNCHANGED keyword, Ids(chunks') = Ids(chunks)
    PROVE  Keywords'
  BY DEF Keywords, keyword, FileComplete, SearchesAll

\* Tools that change the chunks and do not come to build the index.
LEMMA NotBuilt ==
    ASSUME Keywords, UNCHANGED <<bm25, ready, excluded, binFile>>, unbuilt' = TRUE
    PROVE  Keywords'
  BY DEF Keywords, FileComplete, SearchesAll

\* What is left out of an index that is built is memory chunks.
LEMMA RebuildKeeps ==
    ASSUME Stock', NEW out, out \subseteq LeftOut, Rebuild(chunks', out)
    PROVE  Keywords'
<1>1. Ids(chunks') \subseteq IdSet
  BY IdsIn DEF Stock
<1> QED BY <1>1 DEF Rebuild, Keywords, FileComplete, SearchesAll, LeftOut

LEMMA LoadIndexKeeps ==
    ASSUME Stock, Keywords, LoadIndex, chunks' = chunks
    PROVE  Keywords'
<1>1. bm25' = binFile.keys /\ binFile.print = Ids(chunks) /\ binFile # None
  BY DEF LoadIndex
<1>2. excluded' \subseteq LeftOut
  BY DEF LoadIndex, Stock, Plain, LeftOut, Id, Chunk
<1>3. ASSUME NEW i \in Ids(chunks), i \notin binFile.keys
      PROVE  i \in excluded' /\ i \in LeftOut
  <2>1. i \in LeftOut
    BY <1>1, <1>3 DEF Keywords, FileComplete, LeftOut
  <2>2. PICK c \in chunks : i = Id(c)
    BY DEF Ids
  <2>3. c.path \in Memory
    BY <2>1, <2>2 DEF LeftOut, Id
  <2> QED BY <1>3, <2>1, <2>2, <2>3 DEF LoadIndex
<1> QED BY <1>1, <1>2, <1>3 DEF LoadIndex, Keywords, FileComplete, SearchesAll, LeftOut

LEMMA KeywordStep == ASSUME Stock, Stock', Keywords, Next PROVE Keywords'
<1> USE DEF Keywords
<1>1. CASE Search
  BY <1>1, LoadIndexKeeps, RebuildKeeps DEF Search
<1>2. CASE Doctor
  BY <1>2, SameIds DEF Doctor
<1>3. CASE Clear
  BY <1>3 DEF Clear, Ids, FileComplete, SearchesAll
<1>4. CASE IndexNothing
  BY <1>4, NotBuilt DEF IndexNothing
<1>5. ASSUME NEW f \in File, NEW b \in 0..1, NEW whole \in BOOLEAN, Index(f, b, whole)
      PROVE  Keywords'
  BY <1>5, RebuildKeeps DEF Index
<1>6. ASSUME NEW f \in File, NEW b \in 0..1, IndexFails(f, b)
      PROVE  Keywords'
  BY <1>6, NotBuilt DEF IndexFails
<1>7. ASSUME NEW f \in File, NEW b \in 0..1, NEW out \in SUBSET LeftOut, Reload(f, b, out)
      PROVE  Keywords'
  <2>1. Ids(chunks') \subseteq IdSet
    BY IdsIn DEF Stock
  <2>2. binFile' = [print |-> Ids(chunks'), keys |-> Ids(chunks') \ out]
    BY <1>7 DEF Reload
  <2>3. /\ excluded' = {} /\ bm25' = {} /\ ready' = FALSE /\ unbuilt' = FALSE
    BY <1>7 DEF Reload
  <2>4. /\ binFile' \in [print : SUBSET IdSet, keys : SUBSET IdSet]
        /\ binFile'.keys \subseteq binFile'.print
        /\ binFile'.print \ binFile'.keys \subseteq LeftOut
    BY <2>1, <2>2
  <2> QED BY <2>3, <2>4 DEF FileComplete, SearchesAll, LeftOut
<1>8. ASSUME NEW f \in File, NEW whole \in BOOLEAN, DropUnseen(f, whole)
      PROVE  Keywords'
  BY <1>8, RebuildKeeps DEF DropUnseen
<1>9. ASSUME NEW f \in File, Remove(f)
      PROVE  Keywords'
  BY <1>9, RebuildKeeps DEF Remove
<1>10. ASSUME NEW f \in File, Summaries(f)
       PROVE  Keywords'
  <2>1. \A c \in chunks : Id(Summed(f, c)) = Id(c)
    BY SummedIs DEF Id, Stock
  <2>2. Ids(chunks') = Ids(chunks)
    BY <1>10, <2>1, SummariesIs DEF Ids
  <2> QED BY <1>10, <2>2, SameIds DEF Summaries
<1>11. ASSUME NEW v \in 1..MaxVectors, NEW c \in chunks, Embed(c, v)
       PROVE  Keywords'
  <2> DEFINE d == [c EXCEPT !.vector = v]
  <2>1. Id(d) = Id(c)
    BY DEF Id, Stock, Chunk
  <2>2. chunks' = (chunks \ {c}) \cup {d}
    BY <1>11 DEF Embed
  <2>3. Ids(chunks') = Ids(chunks)
    <3> HIDE DEF d
    <3> QED BY <2>1, <2>2 DEF Ids
  <2> QED BY <1>11, <2>3, SameIds DEF Embed
<1>12. ASSUME NEW v \in 1..MaxVectors, NEW m \in Memory, EmbedMemory(m, v)
       PROVE  Keywords'
  <2> DEFINE c == [path |-> m, body |-> 0, vector |-> v, summary |-> FALSE]
  <2>1. Id(c) = <<m, 0>> /\ Id(c) \in LeftOut
    BY DEF Id, LeftOut
  <2>2. /\ chunks' = chunks \cup {c}
        /\ excluded' = IF ready THEN excluded \cup {Id(c)} ELSE excluded
        /\ UNCHANGED <<bm25, ready, binFile, unbuilt>>
    BY <1>12 DEF EmbedMemory
  <2> HIDE DEF c
  <2>3. Ids(chunks') = Ids(chunks) \cup {Id(c)}
    BY <2>2 DEF Ids
  <2> QED BY <2>1, <2>2, <2>3 DEF FileComplete, SearchesAll, LeftOut
<1> QED
  BY <1>1, <1>2, <1>3, <1>4, <1>5, <1>6, <1>7, <1>8, <1>9, <1>10, <1>11, <1>12 DEF Next, LeftOut

-------------------------------------------------------------------------------
\* The graph and its numbers.

LEMMA PrintedLess == ASSUME NEW a, NEW b, a \subseteq b PROVE Printed(a) \subseteq Printed(b)
  BY PrintedIs

LEMMA PrintedIn == ASSUME NEW set, set \subseteq Chunk PROVE Printed(set) \subseteq Chunk
  BY PrintedIs, BareIs

\* Tools that drop the graph.
LEMMA DropGraphKeeps == ASSUME Graph, DropGraph PROVE Graph'
  BY DEF Graph, DropGraph, StatsCover, GraphCovers, NumbersCover

\* Tools that leave the graph alone and add nothing to what it has to cover.
LEMMA SameGraph ==
    ASSUME Graph, UNCHANGED graph, Printed(chunks') \subseteq Printed(chunks)
    PROVE  Graph'
  BY DEF Graph, graph, StatsCover, GraphCovers, NumbersCover

LEMMA StatsWrittenKeeps ==
    ASSUME StatsCover, NEW now, now \subseteq Chunk, hnsw' \subseteq Chunk,
           Printed(now) \subseteq Printed(hnsw'), StatsWritten(now)
    PROVE  StatsCover'
  BY PrintedIn DEF StatsWritten, StatsCover

\* A chunk takes the place of the node with its id: the other chunks have
\* other ids, so their nodes stay.
LEMMA GraphReplaceKeeps ==
    ASSUME Stock', Graph, NEW c \in chunks', GraphReplace(chunks', c),
           chunks' \ {c} \subseteq chunks
    PROVE  Graph'
<1>1. CASE ~built
  BY <1>1 DEF GraphReplace, Graph, StatsCover, GraphCovers, NumbersCover
<1>2. CASE built
  <2>1. /\ hnsw' = {d \in hnsw : Id(d) # Id(c)} \cup {c}
        /\ numbers' \in {hnsw', None}
        /\ StatsWritten(chunks') /\ UNCHANGED built
    BY <1>2 DEF GraphReplace
  <2>2. hnsw' \subseteq Chunk
    BY <2>1 DEF Graph, Stock
  <2>3. ASSUME NEW e \in chunks', e # c
        PROVE  Bare(e) \in Printed(hnsw')
    <3>1. e \in chunks /\ e \in Chunk
      BY <2>3 DEF Stock
    <3>2. Bare(e) \in Printed(hnsw)
      BY <1>2, <3>1, PrintedIs DEF Graph, GraphCovers
    <3>3. PICK d \in hnsw : Bare(e) = Bare(d)
      BY <3>2, PrintedIs
    <3>4. d.path = e.path
      BY <3>1, <3>3, BareIs DEF Graph
    <3>5. e.path # c.path
      BY <2>3 DEF Stock, OnePerPath
    <3>6. Id(d) # Id(c)
      BY <3>4, <3>5 DEF Id
    <3>7. d \in hnsw'
      BY <2>1, <3>6
    <3> QED BY <3>3, <3>7, PrintedIs
  <2>4. Bare(c) \in Printed(hnsw')
    BY <2>1, PrintedIs
  <2>5. Printed(chunks') \subseteq Printed(hnsw')
    BY <2>3, <2>4, PrintedIs
  <2>6. StatsCover'
    BY <2>1, <2>2, <2>5, StatsWrittenKeeps DEF Graph, Stock
  <2> QED BY <2>1, <2>2, <2>5, <2>6 DEF Graph, GraphCovers, NumbersCover
<1> QED BY <1>1, <1>2

LEMMA DoctorKeeps == ASSUME Stock, Graph, Doctor PROVE Graph'
<1> DEFINE onFile == /\ Cached(chunks) /\ ~built
                     /\ statsFile # None /\ statsFile.print = Printed(chunks)
<1>1. CASE onFile
  <2>1. numbers' = statsFile.graph /\ UNCHANGED <<chunks, hnsw, built, statsFile>>
    BY <1>1 DEF Doctor
  <2>2. statsFile.graph \subseteq Chunk /\ Printed(chunks) \subseteq Printed(statsFile.graph)
    BY <1>1 DEF Graph, StatsCover
  <2> QED BY <2>1, <2>2 DEF Graph, StatsCover, GraphCovers, NumbersCover
<1>2. CASE ~onFile
  <2>1. /\ hnsw' = IF built THEN hnsw ELSE chunks
        /\ built' = TRUE /\ numbers' = hnsw' /\ StatsWritten(chunks) /\ chunks' = chunks
    BY <1>2 DEF Doctor
  <2>2. hnsw' \subseteq Chunk /\ Printed(chunks) \subseteq Printed(hnsw')
    BY <2>1 DEF Graph, Stock, GraphCovers
  <2>3. StatsCover'
    BY <2>1, <2>2, StatsWrittenKeeps DEF Graph, Stock
  <2> QED BY <2>1, <2>2, <2>3 DEF Graph, GraphCovers, NumbersCover
<1> QED BY <1>1, <1>2

LEMMA GraphStep == ASSUME Stock, Stock', Graph, Next PROVE Graph'
<1>1. CASE Search
  BY <1>1, SameGraph DEF Search
<1>2. CASE Doctor
  BY <1>2, DoctorKeeps
<1>3. CASE Clear
  BY <1>3, PrintedLess, SameGraph DEF Clear
<1>4. CASE IndexNothing
  <2>1. chunks' \subseteq chunks
    BY <1>4, SeenFewer DEF IndexNothing
  <2> QED BY <1>4, <2>1, PrintedLess, SameGraph DEF IndexNothing
<1>5. ASSUME NEW f \in File, NEW b \in 0..1, NEW whole \in BOOLEAN, Index(f, b, whole)
      PROVE  Graph'
  BY <1>5, DropGraphKeeps DEF Index
<1>6. ASSUME NEW f \in File, NEW b \in 0..1, IndexFails(f, b)
      PROVE  Graph'
  BY <1>6, DropGraphKeeps DEF IndexFails
<1>7. ASSUME NEW f \in File, NEW b \in 0..1, NEW out \in SUBSET LeftOut, Reload(f, b, out)
      PROVE  Graph'
  BY <1>7, DropGraphKeeps DEF Reload
<1>8. ASSUME NEW f \in File, NEW whole \in BOOLEAN, DropUnseen(f, whole)
      PROVE  Graph'
  <2>1. chunks' \subseteq chunks
    BY <1>8, SeenFewer DEF DropUnseen, Without
  <2> QED BY <1>8, <2>1, PrintedLess, SameGraph DEF DropUnseen
<1>9. ASSUME NEW f \in File, Remove(f)
      PROVE  Graph'
  BY <1>9, DropGraphKeeps DEF Remove
<1>10. ASSUME NEW f \in File, Summaries(f)
       PROVE  Graph'
  <2>1. \A c \in chunks : Bare(Summed(f, c)) = Bare(c)
    BY SummedIs DEF Stock
  <2>2. Printed(chunks') = Printed(chunks)
    BY <1>10, <2>1, SummariesIs, PrintedIs
  <2> QED BY <1>10, <2>2, SameGraph DEF Summaries
<1>11. ASSUME NEW v \in 1..MaxVectors, NEW c \in chunks, Embed(c, v)
       PROVE  Graph'
  <2> DEFINE d == [c EXCEPT !.vector = v]
  <2>1. chunks' = (chunks \ {c}) \cup {d} /\ GraphReplace(chunks', d)
    BY <1>11 DEF Embed
  <2> HIDE DEF d
  <2> QED BY <2>1, GraphReplaceKeeps
<1>12. ASSUME NEW v \in 1..MaxVectors, NEW m \in Memory, EmbedMemory(m, v)
       PROVE  Graph'
  <2> DEFINE c == [path |-> m, body |-> 0, vector |-> v, summary |-> FALSE]
  <2>1. chunks' = chunks \cup {c} /\ GraphReplace(chunks', c)
    BY <1>12 DEF EmbedMemory
  <2> HIDE DEF c
  <2> QED BY <2>1, GraphReplaceKeeps
<1> QED
  BY <1>1, <1>2, <1>3, <1>4, <1>5, <1>6, <1>7, <1>8, <1>9, <1>10, <1>11, <1>12 DEF Next, LeftOut

-------------------------------------------------------------------------------
LEMMA InvInductive == Spec => []Inv
<1>1. Init => Inv
  BY InitInv
<1>2. Inv /\ [Next]_vars => Inv'
  <2> SUFFICES ASSUME Inv, [Next]_vars PROVE Inv'
    OBVIOUS
  <2>1. CASE Next
    BY <2>1, StockStep, KeywordStep, GraphStep DEF Inv
  <2>2. CASE UNCHANGED vars
    BY <2>2 DEF vars, Inv, Stock, OnePerPath, Plain, Keywords, FileComplete, SearchesAll,
                Graph, StatsCover, GraphCovers, NumbersCover
  <2> QED BY <2>1, <2>2
<1> QED BY <1>1, <1>2, PTL DEF Spec

\* Every piece of state has its type, and the snapshot has what is in memory
\* unless an index failed (EngineCaches!TypeOK).
THEOREM TypeCorrect == Spec => []TypeOK
<1>1. Inv => TypeOK
  <2>1. LeftOut \subseteq IdSet
    BY DEF LeftOut, IdSet
  <2> QED BY <2>1 DEF Inv, Stock, Keywords, Graph, StatsCover, TypeOK
<1> QED BY <1>1, InvInductive, PTL

\* Nothing derived from the chunks leaves one out, whatever tools and failed
\* calls came between: the keyword index searches every chunk but memory ones
\* left out, a built graph and doctor's numbers have them all (rebuild_bm25,
\* graph_replace, graph_stats).
THEOREM NothingLeftOut == Spec => []CachesCover
<1>1. Inv => CachesCover
  BY DEF Inv, Keywords, Graph, CachesCover
<1> QED BY <1>1, InvInductive, PTL

\* bm25.bin, whoever reads it, leaves out memory chunks only (rebuild_bm25).
THEOREM FileLeavesNothingOut == Spec => []FileComplete
<1>1. Inv => FileComplete
  BY DEF Inv, Keywords
<1> QED BY <1>1, InvInductive, PTL

-------------------------------------------------------------------------------
\* The keyword index, text by text.

\* What the index is to say of texts, a function from ids to sequences of
\* terms: who has a term, how long each text is, and the sum of the lengths.
Having(texts, term) == {id \in DOMAIN texts : term \in K!ToSet(texts[id])}
TermsOf(texts) == UNION {K!ToSet(texts[id]) : id \in DOMAIN texts}
Lengths(texts) == [id \in DOMAIN texts |-> Len(texts[id])]
Sum(lengths) == K!FoldFunction(LAMBDA a, b : a + b, 0, lengths)
IndexOf(texts) ==
    [freqs |-> [id \in DOMAIN texts |-> K!Terms(texts[id])],
     lengths |-> Lengths(texts),
     docs |-> [term \in TermsOf(texts) |-> Cardinality(Having(texts, term))],
     total |-> Sum(Lengths(texts))]

\* The texts after one is taken out, and after one is put in.
WithoutText(texts, id) == [other \in DOMAIN texts \ {id} |-> texts[other]]
With(texts, id, text) == [other \in DOMAIN texts \cup {id} |-> IF other = id THEN text ELSE texts[other]]

Row(freqs, lengths, docs, total) == [freqs |-> freqs, lengths |-> lengths, docs |-> docs, total |-> total]

LEMMA HavingFinite ==
    ASSUME NEW texts, IsFiniteSet(DOMAIN texts), NEW term
    PROVE  /\ IsFiniteSet(Having(texts, term)) /\ Cardinality(Having(texts, term)) \in Nat
           /\ Cardinality(Having(texts, term)) > 0 <=> term \in TermsOf(texts)
<1>1. Having(texts, term) \subseteq DOMAIN texts BY DEF Having
<1>2. IsFiniteSet(Having(texts, term)) BY <1>1, FS_Subset
<1>3. Cardinality(Having(texts, term)) \in Nat BY <1>2, FS_CardinalityType
<1>4. Cardinality(Having(texts, term)) = 0 <=> Having(texts, term) = {} BY <1>2, FS_EmptySet
<1>5. Having(texts, term) # {} <=> term \in TermsOf(texts) BY DEF Having, TermsOf
<1> QED BY <1>2, <1>3, <1>4, <1>5

LEMMA HavingWithout ==
    ASSUME NEW texts, IsFiniteSet(DOMAIN texts), NEW id \in DOMAIN texts, NEW term
    PROVE  Cardinality(Having(WithoutText(texts, id), term))
               = Cardinality(Having(texts, term)) - (IF term \in K!ToSet(texts[id]) THEN 1 ELSE 0)
<1> DEFINE H == Having(texts, term)
           J == Having(WithoutText(texts, id), term)
<1>1. J = H \ {id} BY DEF Having, WithoutText
<1>2. id \in H <=> term \in K!ToSet(texts[id]) BY DEF Having
<1>3. IsFiniteSet(H) /\ Cardinality(H) \in Nat BY HavingFinite
<1> HIDE DEF H, J
<1>4. Cardinality(H \ {id}) = IF id \in H THEN Cardinality(H) - 1 ELSE Cardinality(H) BY <1>3, FS_RemoveElement
<1> QED BY <1>1, <1>2, <1>3, <1>4 DEF H, J

LEMMA HavingWith ==
    ASSUME NEW texts, IsFiniteSet(DOMAIN texts), NEW id, id \notin DOMAIN texts, NEW text, NEW term
    PROVE  Cardinality(Having(With(texts, id, text), term))
               = Cardinality(Having(texts, term)) + (IF term \in K!ToSet(text) THEN 1 ELSE 0)
<1> DEFINE H == Having(texts, term)
           J == Having(With(texts, id, text), term)
<1>1. J = IF term \in K!ToSet(text) THEN H \cup {id} ELSE H BY DEF Having, With
<1>2. id \notin H BY DEF Having
<1>3. IsFiniteSet(H) /\ Cardinality(H) \in Nat BY HavingFinite
<1> HIDE DEF H, J
<1>4. Cardinality(H \cup {id}) = Cardinality(H) + 1 BY <1>2, <1>3, FS_AddElement
<1> QED BY <1>1, <1>3, <1>4 DEF H, J

\* The sum is taken anew at every change.
LEMMA Recomputed ==
    ASSUME NEW freqs, NEW lengths, NEW docs, NEW total
    PROVE  K!RecomputeAvg([freqs |-> freqs, lengths |-> lengths, docs |-> docs, total |-> total])
               = [freqs |-> freqs, lengths |-> lengths, docs |-> docs, total |-> Sum(lengths)]
<1> DEFINE old == [freqs |-> freqs, lengths |-> lengths, docs |-> docs, total |-> total]
<1>1. K!RecomputeAvg(old) = [old EXCEPT !.total = Sum(old.lengths)] BY Zenon DEF K!RecomputeAvg, Sum
<1>2. old.lengths = lengths OBVIOUS
<1>3. \A sum : [old EXCEPT !.total = sum] = [freqs |-> freqs, lengths |-> lengths, docs |-> docs, total |-> sum] OBVIOUS
<1> HIDE DEF old
<1> QED BY <1>1, <1>2, <1>3 DEF old

LEMMA WithoutUnknown ==
    ASSUME NEW S, NEW T, NEW texts \in [S -> T], NEW id, id \notin S
    PROVE  WithoutText(texts, id) = texts
<1>1. S \ {id} = S OBVIOUS
<1> QED BY <1>1 DEF WithoutText

\* remove_doc leaves the index of the other texts, whatever the texts were: no
\* term keeps an entry, or a count, on account of the text that went, and an
\* id that has no text changes nothing.
THEOREM IndexForgets ==
    ASSUME NEW S, IsFiniteSet(S), NEW T, NEW texts \in [S -> T], NEW id
    PROVE  K!RemoveDoc(IndexOf(texts), id) = IndexOf(WithoutText(texts, id))
<1> DEFINE index == IndexOf(texts)
           rest == WithoutText(texts, id)
           less == [term \in DOMAIN index.docs |->
                       index.docs[term] - (IF term \in DOMAIN index.freqs[id] THEN 1 ELSE 0)]
           lengths == K!Restrict(index.lengths, DOMAIN index.lengths \ {id})
           left == {term \in DOMAIN less : less[term] > 0}
<1>1. CASE id \notin S
  <2>1. rest = texts BY <1>1, WithoutUnknown
  <2>2. id \notin DOMAIN index.freqs BY <1>1 DEF IndexOf
  <2>3. K!RemoveDoc(index, id) = index BY <2>2, Zenon DEF K!RemoveDoc
  <2> QED BY <2>1, <2>3
<1>2. CASE id \in S
  <2>1. id \in DOMAIN index.freqs BY <1>2 DEF IndexOf
  <2>2. DOMAIN texts = S /\ DOMAIN rest = S \ {id} /\ \A other \in S \ {id} : rest[other] = texts[other] BY DEF WithoutText
  <2>3. K!Restrict(index.freqs, DOMAIN index.freqs \ {id}) = IndexOf(rest).freqs BY <2>2 DEF IndexOf, K!Restrict
  <2>4. lengths = Lengths(rest) BY <2>2 DEF IndexOf, K!Restrict, Lengths
  <2>5. DOMAIN index.freqs[id] = K!ToSet(texts[id]) BY <1>2 DEF IndexOf, K!Terms
  <2>6. DOMAIN index.docs = TermsOf(texts) /\ \A term \in TermsOf(texts) : index.docs[term] = Cardinality(Having(texts, term))
    BY DEF IndexOf
  <2> HIDE DEF index
  <2>7. \A term \in TermsOf(texts) : less[term] = Cardinality(Having(rest, term)) BY <1>2, <2>2, <2>5, <2>6, HavingWithout
  <2>8. DOMAIN less = TermsOf(texts) BY <2>6
  <2> HIDE DEF less
  <2>9. TermsOf(rest) \subseteq TermsOf(texts) BY <2>2 DEF TermsOf
  <2>10. IsFiniteSet(DOMAIN rest) BY <2>2, FS_Subset
  <2>11. left = TermsOf(rest)
    <3> HIDE DEF rest
    <3>1. \A term \in TermsOf(texts) : less[term] > 0 <=> term \in TermsOf(rest) BY <2>7, <2>10, HavingFinite
    <3> QED BY <2>8, <2>9, <3>1
  <2> HIDE DEF left, rest
  <2>12. K!Restrict(less, left) = IndexOf(rest).docs
    <3>1. K!Restrict(less, left) = [term \in TermsOf(rest) |-> less[term]] BY <2>11 DEF K!Restrict
    <3>2. \A term \in TermsOf(rest) : less[term] = Cardinality(Having(rest, term)) BY <2>7, <2>9
    <3> QED BY <3>1, <3>2 DEF IndexOf
  <2>13. K!RemoveDoc(index, id)
             = K!RecomputeAvg([index EXCEPT !.freqs = K!Restrict(@, DOMAIN @ \ {id}),
                                            !.lengths = K!Restrict(@, DOMAIN @ \ {id}),
                                            !.docs = K!Restrict(less, left)])
    BY <2>1, Zenon DEF K!RemoveDoc, less, left
  <2> DEFINE freqs == IndexOf(rest).freqs
             docs == IndexOf(rest).docs
  <2>14. [index EXCEPT !.freqs = K!Restrict(@, DOMAIN @ \ {id}),
                       !.lengths = K!Restrict(@, DOMAIN @ \ {id}),
                       !.docs = K!Restrict(less, left)]
             = [freqs |-> freqs, lengths |-> Lengths(rest), docs |-> docs, total |-> index.total]
    <3>1. index = Row(index.freqs, index.lengths, index.docs, index.total) BY DEF index, IndexOf, Row
    <3> DEFINE f == K!Restrict(index.freqs, DOMAIN index.freqs \ {id})
               l == K!Restrict(index.lengths, DOMAIN index.lengths \ {id})
               d == K!Restrict(less, left)
    <3>2. f = freqs /\ l = Lengths(rest) /\ d = docs BY <2>3, <2>4, <2>12
    <3> HIDE DEF freqs, docs, f, l, d
    <3>3. [index EXCEPT !.freqs = f, !.lengths = l, !.docs = d] = Row(f, l, d, index.total)
      <4> DEFINE a == index.freqs
                 b == index.lengths
                 c == index.docs
                 e == index.total
      <4>1. index = Row(a, b, c, e) BY <3>1
      <4> HIDE DEF a, b, c, e
      <4>2. [Row(a, b, c, e) EXCEPT !.freqs = f] = Row(f, b, c, e) BY DEF Row
      <4>3. [Row(f, b, c, e) EXCEPT !.lengths = l] = Row(f, l, c, e) BY DEF Row
      <4>4. [Row(f, l, c, e) EXCEPT !.docs = d] = Row(f, l, d, e) BY DEF Row
      <4>5. [index EXCEPT !.freqs = f, !.lengths = l, !.docs = d] = Row(f, l, d, e) BY <4>1, <4>2, <4>3, <4>4, Zenon
      <4> QED BY <4>5 DEF e
    <3>4. [index EXCEPT !.freqs = K!Restrict(@, DOMAIN @ \ {id}),
                        !.lengths = K!Restrict(@, DOMAIN @ \ {id}),
                        !.docs = K!Restrict(less, left)] = [index EXCEPT !.freqs = f, !.lengths = l, !.docs = d]
      BY Zenon DEF f, l, d
    <3> QED BY <3>2, <3>3, <3>4 DEF Row
  <2>15. IndexOf(rest) = [freqs |-> freqs, lengths |-> Lengths(rest), docs |-> docs, total |-> Sum(Lengths(rest))]
    BY DEF IndexOf
  <2> HIDE DEF freqs, docs
  <2> DEFINE sizes == Lengths(rest)
             total == index.total
  <2> HIDE DEF index, sizes, total
  <2>16. K!RecomputeAvg([freqs |-> freqs, lengths |-> sizes, docs |-> docs, total |-> total])
             = [freqs |-> freqs, lengths |-> sizes, docs |-> docs, total |-> Sum(sizes)] BY Recomputed, Zenon
  <2>17. K!RemoveDoc(index, id) = IndexOf(rest) BY <2>13, <2>14, <2>15, <2>16, Zenon DEF sizes, total
  <2> QED BY <2>17 DEF index, rest
<1> QED BY <1>1, <1>2

LEMMA WithoutIs ==
    ASSUME NEW S, NEW T, NEW texts \in [S -> T], NEW id
    PROVE  WithoutText(texts, id) \in [S \ {id} -> T]
<1>1. DOMAIN texts = S /\ \A other \in S : texts[other] \in T OBVIOUS
<1> QED BY <1>1 DEF WithoutText

\* add_doc of an id that has a text already replaces it, in every table: the
\* index is that of the texts with the new one, as though the old had never
\* been there.  With the other two, the index after any calls is a function of
\* the texts they leave, and so is every score computed from it.
THEOREM IndexAdds ==
    ASSUME NEW S, IsFiniteSet(S), NEW T, NEW texts \in [S -> T], NEW id, NEW text
    PROVE  K!AddDoc(IndexOf(texts), id, text) = IndexOf(With(WithoutText(texts, id), id, text))
<1> DEFINE left == WithoutText(texts, id)
           rest == K!RemoveDoc(IndexOf(texts), id)
           new == With(left, id, text)
           terms == K!Terms(text)
           with(map, value) == [key \in DOMAIN map \cup {id} |-> IF key = id THEN value ELSE map[key]]
           had(term) == IF term \in DOMAIN rest.docs THEN rest.docs[term] ELSE 0
           has(term) == IF term \in DOMAIN terms THEN 1 ELSE 0
           a == rest.freqs
           b == rest.lengths
           c == rest.docs
           e == rest.total
           f == with(rest.freqs, terms)
           l == with(rest.lengths, Len(text))
           d == [term \in DOMAIN rest.docs \cup DOMAIN terms |-> had(term) + has(term)]
<1>1. rest = IndexOf(left) BY IndexForgets
<1>2. left \in [S \ {id} -> T] BY WithoutIs
<1>3. IsFiniteSet(S \ {id}) BY FS_Subset
<1>4. DOMAIN left = S \ {id} BY <1>2
<1>5. K!AddDoc(IndexOf(texts), id, text)
          = K!RecomputeAvg([rest EXCEPT !.freqs = with(@, terms),
                                        !.lengths = with(@, Len(text)),
                                        !.docs = [term \in DOMAIN @ \cup DOMAIN terms |-> had(term) + has(term)]])
  BY Zenon DEF K!AddDoc
<1> HIDE DEF left, rest
<1>6. rest = Row(a, b, c, e) BY <1>1 DEF IndexOf, Row
<1>7. DOMAIN new = DOMAIN left \cup {id} /\ \A other \in DOMAIN left \cup {id} : new[other] = IF other = id THEN text ELSE left[other]
  BY DEF With
<1>8. a = [other \in DOMAIN left |-> K!Terms(left[other])] /\ b = Lengths(left)
  BY <1>1 DEF IndexOf
<1>9. c = [term \in TermsOf(left) |-> Cardinality(Having(left, term))] BY <1>1 DEF IndexOf
<1>10. DOMAIN terms = K!ToSet(text) BY DEF K!Terms
<1>11. f = [other \in DOMAIN new |-> K!Terms(new[other])]
  <2> HIDE DEF a, b, c, e, new
  <2>1. DOMAIN a = DOMAIN left /\ \A other \in DOMAIN left : a[other] = K!Terms(left[other]) BY <1>8
  <2>2. f = [other \in DOMAIN a \cup {id} |-> IF other = id THEN terms ELSE a[other]] BY DEF a
  <2> HIDE DEF f
  <2> QED BY <1>4, <1>7, <2>1, <2>2
<1>12. l = Lengths(new)
  <2> HIDE DEF a, b, c, e, new
  <2>1. DOMAIN b = DOMAIN left /\ \A other \in DOMAIN left : b[other] = Len(left[other]) BY <1>8 DEF Lengths
  <2>2. l = [other \in DOMAIN b \cup {id} |-> IF other = id THEN Len(text) ELSE b[other]] BY DEF b
  <2> HIDE DEF l
  <2> QED BY <1>4, <1>7, <2>1, <2>2 DEF Lengths
<1>13. TermsOf(new) = TermsOf(left) \cup K!ToSet(text)
  <2> HIDE DEF new
  <2>1. id \notin DOMAIN left BY <1>4
  <2> QED BY <1>7, <2>1 DEF TermsOf
<1>14. d = [term \in TermsOf(new) |-> Cardinality(Having(new, term))]
  <2>1. DOMAIN rest.docs = TermsOf(left) /\ \A term \in TermsOf(left) : rest.docs[term] = Cardinality(Having(left, term))
    BY <1>9
  <2>2. ASSUME NEW term \in TermsOf(new) PROVE had(term) + has(term) = Cardinality(Having(new, term))
    <3>1. had(term) = Cardinality(Having(left, term))
      <4>1. IsFiniteSet(DOMAIN left) BY <1>3, <1>4
      <4>2. Cardinality(Having(left, term)) \in Nat /\ (Cardinality(Having(left, term)) > 0 <=> term \in TermsOf(left))
        BY <4>1, HavingFinite
      <4> QED BY <2>1, <4>2
    <3>2. has(term) = IF term \in K!ToSet(text) THEN 1 ELSE 0 BY <1>10
    <3>3. id \notin DOMAIN left /\ IsFiniteSet(DOMAIN left) BY <1>3, <1>4
    <3>4. Cardinality(Having(new, term)) = Cardinality(Having(left, term)) + (IF term \in K!ToSet(text) THEN 1 ELSE 0)
      BY <3>3, HavingWith
    <3> HIDE DEF had, has, new
    <3> QED BY <3>1, <3>2, <3>4
  <2>3. DOMAIN rest.docs \cup DOMAIN terms = TermsOf(new) BY <1>10, <1>13, <2>1
  <2> HIDE DEF had, has, new, terms
  <2> QED BY <2>2, <2>3
<1> DEFINE sizes == Lengths(new)
           freqs == [other \in DOMAIN new |-> K!Terms(new[other])]
           docs == [term \in TermsOf(new) |-> Cardinality(Having(new, term))]
<1>15. IndexOf(new) = [freqs |-> freqs, lengths |-> sizes, docs |-> docs, total |-> Sum(sizes)] BY DEF IndexOf
<1>16. [rest EXCEPT !.freqs = with(@, terms), !.lengths = with(@, Len(text)),
                    !.docs = [term \in DOMAIN @ \cup DOMAIN terms |-> had(term) + has(term)]]
           = [rest EXCEPT !.freqs = f, !.lengths = l, !.docs = d]
  BY Zenon DEF f, l, d
<1> HIDE DEF new, a, b, c, e, f, l, d, sizes, freqs, docs, with, had, has, terms
<1>17. [rest EXCEPT !.freqs = f, !.lengths = l, !.docs = d] = Row(f, l, d, e)
  <2>1. [Row(a, b, c, e) EXCEPT !.freqs = f] = Row(f, b, c, e) BY DEF Row
  <2>2. [Row(f, b, c, e) EXCEPT !.lengths = l] = Row(f, l, c, e) BY DEF Row
  <2>3. [Row(f, l, c, e) EXCEPT !.docs = d] = Row(f, l, d, e) BY DEF Row
  <2> QED BY <1>6, <2>1, <2>2, <2>3, Zenon
<1>18. K!RecomputeAvg([freqs |-> freqs, lengths |-> sizes, docs |-> docs, total |-> e])
           = [freqs |-> freqs, lengths |-> sizes, docs |-> docs, total |-> Sum(sizes)] BY Recomputed, Zenon
<1>19. f = freqs /\ l = sizes /\ d = docs BY <1>11, <1>12, <1>14, Zenon DEF freqs, sizes, docs
<1>20. Row(f, l, d, e) = [freqs |-> freqs, lengths |-> sizes, docs |-> docs, total |-> e] BY <1>19, Zenon DEF Row
<1> QED BY <1>5, <1>15, <1>16, <1>17, <1>18, <1>20, Zenon DEF new, left

\* The sum over no text, by the recursive function of the library's fold.
LEMMA NothingSums == Sum(<<>>) = 0
<1> DEFINE P(iter) == iter = [s \in SUBSET DOMAIN <<>> |->
                                 IF s = {} THEN 0 ELSE LET x == CHOOSE x \in s : TRUE IN <<>>[x] + iter[s \ {x}]]
<1>1. DOMAIN <<>> = {} /\ SUBSET {} = {{}} OBVIOUS
<1>2. \E iter : P(iter)
  <2>1. P([s \in {{}} |-> 0]) BY <1>1
  <2> QED BY <2>1
<1>3. Sum(<<>>) = (CHOOSE iter : P(iter))[DOMAIN <<>>] BY DEF Sum, K!FoldFunction, K!FoldFunctionOnSet, K!MapThenFoldSet
<1> QED BY <1>1, <1>2, <1>3

\* Bm25::new is the index of no text.
THEOREM IndexStarts == K!NoIndex = IndexOf(<<>>)
<1>1. DOMAIN <<>> = {} OBVIOUS
<1>2. TermsOf(<<>>) = {} BY <1>1 DEF TermsOf
<1>3. Lengths(<<>>) = <<>> BY <1>1 DEF Lengths
<1>4. [id \in DOMAIN <<>> |-> K!Terms(<<>>[id])] = <<>> BY <1>1
<1>5. [term \in TermsOf(<<>>) |-> Cardinality(Having(<<>>, term))] = <<>> BY <1>2
<1> QED BY <1>3, <1>4, <1>5, NothingSums DEF K!NoIndex, IndexOf

===============================================================================
