----------------------------- MODULE SearchTasks -----------------------------
(***************************************************************************)
(* What a search runs on: chunks are added to and removed from the BM25    *)
(* index, which is saved and loaded, and a query ranks them with the       *)
(* vectors; chunks whose vectors come, go and are replaced (graph_replace) *)
(* while the vector graph is kept; and a pattern is compiled, and every    *)
(* text of a set is searched.                                              *)
(***************************************************************************)
EXTENDS Tasks

CONSTANTS Weight(_, _, _), IdBelow(_, _), FLAT, LOW, CLEAR, BASE,
          Cases   \* [history, search]: calls [id, text], where the text Gone removes,
                  \* and [docs, query, signals, top]

R == INSTANCE Ranking

RankInputs == Chosen("rank") /\ input \in Cases

Gone == <<"gone">>
Built(history) ==
    FoldLeft(LAMBDA index, call : IF call.text = Gone THEN R!RemoveDoc(index, call.id)
                                  ELSE R!AddDoc(index, call.id, call.text),
             R!NoIndex, history)

Rank ==
    /\ Runs("rank")
    /\ \E index \in {Built(input.history)} :
       \E ranked \in {[limit \in {input.search.top, 99} |->
                          R!HybridRanked(index, input.search.docs, input.search.query, input.search.signals,
                                         input.search.top, limit, BASE)]} :
           answer' = [index |-> index, file |-> R!Save(index, 7), rows |-> ranked[input.search.top], all |-> ranked[99]]

-----------------------------------------------------------------------------
\* The index after any calls is the one built from the texts that are left,
\* and the file gives it back: whole and for its own chunks, or not at all.
\* Of two chunks the one that is better by its words and by its vector ranks
\* no lower, whichever way the scores are weighed, unless only the other is an
\* agent's; and each chunk is there once (add, remove, save, load, hybrid_ranked).
RankingTrue ==
    Answered("rank") =>
        LET last(id) == Max({k \in DOMAIN input.history : input.history[k].id = id})
            final == SelectSeq([k \in DOMAIN input.history |-> [call |-> input.history[k], last |-> k = last(input.history[k].id)]],
                               LAMBDA row : row.last /\ row.call.text # Gone)
            docs == ToSet(input.search.docs)
            score(rows, id) == (CHOOSE row \in ToSet(rows) : row.id = id).score
            ids == {row.id : row \in ToSet(answer.all)}
            words(id) == R!ScoreTerms(answer.index, input.search.query, id)
        IN  /\ answer.index = Built(Reverse([k \in DOMAIN final |-> final[k].call]))
            /\ R!LoadBm25(answer.file, 7) = {answer.index}
            /\ R!LoadBm25(answer.file, 8) = {}
            /\ \A n \in 0..Len(answer.file) - 1 : R!LoadBm25(SubSeq(answer.file, 1, n), 7) = {}
            /\ Cardinality(ids) = Len(answer.all)
            /\ answer.rows = SubSeq(answer.all, 1, Min({input.search.top, Len(answer.all)}))
            /\ \A c, d \in docs :
                  /\ d.id \in ids /\ c.score > d.score /\ words(c.id) > words(d.id) /\ (d.tier2 => c.tier2)
                  => c.id \in ids /\ score(answer.all, c.id) >= score(answer.all, d.id)

-----------------------------------------------------------------------------

CONSTANTS Distance(_, _), M, M0, EF,
          Vectors,   \* Vectors[id]: the vectors a chunk may have
          MaxLevel,  \* bound: the levels that are drawn
          Steps      \* bound: the calls

H == INSTANCE Hnsw

HnswInputs == task = "hnsw" /\ input = Steps /\ answer = [graph |-> H!Empty, peak |-> 0] /\ done = FALSE

Becomes(graph) ==
    /\ input' = input - 1
    /\ answer' = [graph |-> graph, peak |-> Max({answer.peak, Cardinality(H!Live(graph))})]
    /\ UNCHANGED <<task, done>>

Add(id, vector, level) == Becomes(H!Insert(answer.graph, id, vector, level))
Forget(id) == H!At(answer.graph, id) # {} /\ Becomes(H!Forget(answer.graph, id))

\* ensure_hnsw inserts every chunk, graph_replace forgets one and inserts it.
KeepGraph ==
    /\ task = "hnsw" /\ input > 0
    /\ \E id \in DOMAIN Vectors : \/ \E vector \in Vectors[id], level \in 0..MaxLevel : Add(id, vector, level)
                                 \/ Forget(id)

-----------------------------------------------------------------------------
\* Whatever comes and goes, links lead to live nodes, both ways, on levels
\* that both have, no list outgrows its cap when a node joins, and the entry
\* is one of the highest live nodes; and a graph that never had more nodes
\* than a list holds finds every node from wherever it begins, nearest first,
\* as an exact scan does (insert, prune, remove, search).
GraphSound ==
    task = "hnsw" =>
        LET graph == answer.graph
            live == H!Live(graph)
            node(n) == graph.nodes[n]
            found(query) == H!Search(graph, query, Cardinality(live))
        IN  /\ \A n \in live, level \in 0..MaxLevel :
                  LET list == H!Links(graph, n, level)
                  IN  /\ \A m \in ToSet(list) : /\ m \in live \ {n}
                                                /\ n \in ToSet(H!Links(graph, m, level))
                      /\ IsInjective(list)
            /\ graph.entry \in live \cup {0}
            /\ graph.entry = 0 <=> live = {}
            /\ \A n \in live : node(n).level <= graph.top /\ graph.top = node(graph.entry).level
            /\ answer.peak <= M0 + 1 /\ live # {} =>
                  \A query \in UNION {Vectors[id] : id \in DOMAIN Vectors} :
                      /\ ToSet(found(query)) = live
                      /\ \A i, j \in 1..Cardinality(live) : i < j =>
                            Distance(query, node(found(query)[i]).vector) <=
                                Distance(query, node(found(query)[j]).vector)

-----------------------------------------------------------------------------

CONSTANTS WordChars, Spaces, FUEL, BEHIND,
          Regexes,      \* patterns
          Subjects      \* the texts

X == INSTANCE Regex

RegexInputs == Chosen("regex") /\ input \in Regexes

Search ==
    /\ Runs("regex")
    /\ \E regex \in {X!Compile(input)} :
           answer' = [regex |-> regex, linear |-> X!CompileLinear(input),
                      hits |-> [text \in Subjects |-> IF X!Failed(regex) THEN <<>> ELSE X!FindIter(regex, text, 0)]]

-----------------------------------------------------------------------------
\* The language of a node: where a match that begins at pos may end.
RECURSIVE Ends(_, _, _), RoundsTo(_, _, _, _)
RoundsTo(inner, text, from, n) ==
    IF n = 0 THEN from ELSE RoundsTo(inner, text, UNION {Ends(inner, text, pos) : pos \in from}, n - 1)
Ends(node, text, pos) ==
    CASE node.kind = "concat" ->
             FoldLeft(LAMBDA at, part : UNION {Ends(part, text, p) : p \in at}, {pos}, node.parts)
      [] node.kind = "alt" -> UNION {Ends(arm, text, pos) : arm \in ToSet(node.arms)}
      [] node.kind = "group" -> Ends(node.inner, text, pos)
      [] node.kind = "repeat" ->
             UNION {RoundsTo(node.inner, text, {pos}, n) : n \in node.min..Min({node.max, node.min + Len(text)})}
      [] node.kind = "look" ->
             LET hit == IF node.behind THEN \E from \in 0..pos : pos \in Ends(node.inner, text, from)
                        ELSE Ends(node.inner, text, pos) # {}
             IN  IF hit # node.negative THEN {pos} ELSE {}
      [] OTHER -> {X!AtomEnd(node, text, pos)} \ {X!Nowhere}

\* One end at most from any place; and what backtracks only over repetitions
\* of such nodes.
RECURSIVE Sure(_), Exact(_)
Sure(node) == CASE node.kind = "concat" -> \A part \in ToSet(node.parts) : Sure(part)
                [] node.kind = "group" -> Sure(node.inner)
                [] node.kind = "look" -> IF node.behind THEN Sure(node.inner) ELSE Exact(node.inner)
                [] OTHER -> node.kind \notin {"alt", "repeat"}
Rounds(node) == node.kind = "repeat" /\ Sure(node.inner) /\ (node.min = 0 \/ node.inner.kind \in X!Consuming)
Exact(node) == CASE node.kind = "alt" -> \A arm \in ToSet(node.arms) : Exact(arm)
                 [] node.kind = "group" -> Exact(node.inner)
                 [] node.kind = "concat" -> \A part \in ToSet(node.parts) : Sure(part) \/ Rounds(part)
                 [] OTHER -> Sure(node) \/ Rounds(node)

\* What a user's pattern finds in a chunk is in its language, one match after
\* the other, with groups inside the text; and a pattern that backtracks over
\* repetitions only finds a match wherever there is one, the first from the
\* left, however its quantifiers share the text (find_iter, eval_bt, eval_concat).
RegexTrue ==
    Answered("regex") /\ ~X!Failed(answer.regex) =>
        LET node == answer.regex.node
        IN  \A text \in Subjects :
                LET hits == answer.hits[text]
                    next(k) == IF k = 0 THEN 0 ELSE Max({hits[k].end, hits[k].start + 1})
                    free(k) == next(k)..(IF k = Len(hits) THEN Len(text) ELSE hits[k + 1].start - 1)
                IN  /\ ~X!Failed(answer.linear) \/ Exact(node) =>
                           \A k \in DOMAIN hits :
                              /\ hits[k].end \in Ends(node, text, hits[k].start)
                              /\ k > 1 => hits[k].start >= next(k - 1)
                              /\ \A span \in ToSet(hits[k].groups) \ {<<>>} :
                                     0 <= span[1] /\ span[1] <= span[2] /\ span[2] <= Len(text)
                    /\ Exact(node) => \A k \in 0..Len(hits), pos \in 0..Len(text) :
                                          pos \in free(k) => Ends(node, text, pos) = {}
=============================================================================
