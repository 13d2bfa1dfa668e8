------------------------------- MODULE Ranking -------------------------------
(***************************************************************************)
(* Search: the BM25 index of the chunks, kept up to date and on disk, and  *)
(* the hybrid order of its scores and the vector scores.  A text is the    *)
(* sequence of its terms (words split and stemmed).  Scores are integers;  *)
(* those between 0 and 1 count thousandths.                                *)
(***************************************************************************)
EXTENDS Integers, Sequences, SequencesExt, FiniteSetsExt, Functions

CONSTANTS Weight(_, _, _),  \* BM25 of a term: how often, in how many documents, and the length
          IdBelow(_, _),    \* the order of ids and of terms
          FLAT, LOW, CLEAR  \* span, best score and lead below which the vectors do not count

\* sort_by is stable: rows of equal scores stay in their order.
Sorted(rows) ==
    LET order == SetToSortSeq(DOMAIN rows, LAMBDA i, j :
                     rows[i].score > rows[j].score \/ (rows[i].score = rows[j].score /\ i < j))
    IN  [k \in DOMAIN rows |-> rows[order[k]]]
ByScoreAndId(rows) ==
    SetToSortSeq(rows, LAMBDA a, b : a.score > b.score \/ (a.score = b.score /\ IdBelow(a.id, b.id)))
Truncated(rows, n) == SubSeq(rows, 1, Min({n, Len(rows)}))
Best(scores) == Max(scores \cup {0})

-----------------------------------------------------------------------------
\* Bm25: per document its length and how often it has each term, per term the
\* number of documents that have it, and the sum of the lengths (avg_dl).

NoIndex == [freqs |-> <<>>, lengths |-> <<>>, docs |-> <<>>, total |-> 0]
Terms(text) == [term \in ToSet(text) |-> Cardinality({k \in DOMAIN text : text[k] = term})]
RecomputeAvg(index) == [index EXCEPT !.total = FoldFunction(LAMBDA a, b : a + b, 0, index.lengths)]

\* Mutant: a term that no document has any more keeps its entry.
RemoveDoc_KeepsTerms(index, id) ==
    IF id \notin DOMAIN index.freqs THEN index
    ELSE RecomputeAvg(
          [index EXCEPT !.freqs = Restrict(@, DOMAIN @ \ {id}),
                        !.lengths = Restrict(@, DOMAIN @ \ {id}),
                        !.docs = [term \in DOMAIN @ |-> IF term \in DOMAIN index.freqs[id] THEN @[term] - 1 ELSE @[term]]])

RemoveDoc(index, id) ==
    LET less == [term \in DOMAIN index.docs |->
                     index.docs[term] - (IF term \in DOMAIN index.freqs[id] THEN 1 ELSE 0)]
    IN  IF id \notin DOMAIN index.freqs THEN index
        ELSE RecomputeAvg(
              [index EXCEPT !.freqs = Restrict(@, DOMAIN @ \ {id}),
                            !.lengths = Restrict(@, DOMAIN @ \ {id}),
                            !.docs = Restrict(less, {term \in DOMAIN less : less[term] > 0})])

AddDoc(index, id, text) ==
    LET rest == RemoveDoc(index, id)
        terms == Terms(text)
        with(map, value) == [key \in DOMAIN map \cup {id} |-> IF key = id THEN value ELSE map[key]]
        had(term) == IF term \in DOMAIN rest.docs THEN rest.docs[term] ELSE 0
        has(term) == IF term \in DOMAIN terms THEN 1 ELSE 0
    IN  RecomputeAvg(
          [rest EXCEPT !.freqs = with(@, terms),
                       !.lengths = with(@, Len(text)),
                       !.docs = [term \in DOMAIN @ \cup DOMAIN terms |-> had(term) + has(term)]])

ScoreTerms(index, query, id) ==
    IF id \notin DOMAIN index.freqs \/ index.total = 0 THEN 0
    ELSE FoldLeft(LAMBDA sum, term :
                      IF term \notin DOMAIN index.docs \/ term \notin DOMAIN index.freqs[id] THEN sum
                      ELSE sum + Weight(index.freqs[id][term], index.docs[term], index.lengths[id]),
                  0, query)

SearchBm25(index, query, top) ==
    LET hits == {id \in DOMAIN index.freqs : DOMAIN index.freqs[id] \cap ToSet(query) # {}}
    IN  IF index.total = 0 THEN <<>>
        ELSE Truncated(ByScoreAndId({[id |-> id, score |-> ScoreTerms(index, query, id)] : id \in hits}), top)

-----------------------------------------------------------------------------
\* bm25.bin, field by field; a term is written once and named by its place.

InOrder(set) == SetToSortSeq(set, IdBelow)

Save(index, fingerprint) ==
    LET terms == InOrder(DOMAIN index.docs)
        place(term) == CHOOSE k \in DOMAIN terms : terms[k] = term
        pairs(id) == LET own == SetToSortSeq(DOMAIN index.freqs[id], LAMBDA a, b : place(a) < place(b))
                     IN  FlattenSeq([k \in DOMAIN own |-> <<place(own[k]), index.freqs[id][own[k]]>>])
        docs == InOrder(DOMAIN index.lengths)
    IN  <<"BM25", fingerprint, index.total, Len(terms)>>
        \o FlattenSeq([k \in DOMAIN terms |-> <<terms[k], index.docs[terms[k]]>>])
        \o <<Len(docs)>>
        \o FlattenSeq([k \in DOMAIN docs |->
               <<docs[k], index.lengths[docs[k]], Cardinality(DOMAIN index.freqs[docs[k]])>> \o pairs(docs[k])])

\* load reads to the end and no further, and trusts no count and no place.
Cursor(file, at) == [at |-> at, whole |-> at <= Len(file) + 1, terms |-> <<>>, docs |-> <<>>]
Times(n, Step(_), from) == FoldLeft(LAMBDA cursor, k : IF cursor.whole THEN Step(cursor) ELSE cursor, from,
                                    [k \in 1..n |-> k])
LoadBm25(file, fingerprint) ==
    LET short(cursor, n) == cursor.at + n > Len(file) + 1
        torn(cursor) == [cursor EXCEPT !.whole = FALSE]
        term(cursor) == IF short(cursor, 2) THEN torn(cursor)
                        ELSE [cursor EXCEPT !.at = @ + 2, !.terms = Append(@, <<file[cursor.at], file[cursor.at + 1]>>)]
        pair(cursor) == IF short(cursor, 2) \/ file[cursor.at] \notin DOMAIN cursor.terms THEN torn(cursor)
                        ELSE [cursor EXCEPT !.at = @ + 2,
                                            !.docs[Len(cursor.docs)].freqs = Append(@, <<cursor.terms[file[cursor.at]][1], file[cursor.at + 1]>>)]
        doc(cursor) ==
            IF short(cursor, 3) THEN torn(cursor)
            ELSE Times(file[cursor.at + 2], pair,
                       [cursor EXCEPT !.at = @ + 3,
                                      !.docs = Append(@, [id |-> file[cursor.at], length |-> file[cursor.at + 1], freqs |-> <<>>])])
        terms == Times(file[4], term, Cursor(file, 5))
        docs == IF ~terms.whole \/ short(terms, 1) THEN torn(terms)
                ELSE Times(file[terms.at], doc, [terms EXCEPT !.at = @ + 1])
        map(rows) == [key \in {row[1] : row \in ToSet(rows)} |-> (CHOOSE row \in ToSet(rows) : row[1] = key)[2]]
    IN  IF Len(file) < 4 \/ file[1] # "BM25" \/ file[2] # fingerprint \/ ~docs.whole \/ docs.at # Len(file) + 1
        THEN {}
        ELSE {[total |-> file[3], docs |-> map(docs.terms),
               lengths |-> map([k \in DOMAIN docs.docs |-> <<docs.docs[k].id, docs.docs[k].length>>]),
               freqs |-> map([k \in DOMAIN docs.docs |-> <<docs.docs[k].id, map(docs.docs[k].freqs)>>])]}

-----------------------------------------------------------------------------
\* hybrid_ranked: vectors are rows [id, score, tier2] in the order of the
\* chunks; signals counts what in the query looks like code.

SearchAlpha(signals, base) ==
    IF signals >= 3 THEN Max({base - 300, 300})
    ELSE IF signals >= 1 THEN Max({base - 150, 300}) ELSE Max({base - 400, 80})

ScoresOf(rows) == {row.score : row \in ToSet(rows)}
Span(rows) == IF rows = <<>> THEN 0 ELSE Max(ScoresOf(rows)) - Min(ScoresOf(rows))
MinMax(rows, id) ==
    LET own == {row \in ToSet(rows) : row.id = id}
    IN  IF own = {} THEN 0
        ELSE IF Span(rows) = 0 THEN 1000
        ELSE (1000 * ((CHOOSE row \in own : TRUE).score - Min(ScoresOf(rows)))) \div Span(rows)

Ids(rows) == [k \in DOMAIN rows |-> rows[k].id]
FirstOnly(ids) == FoldLeft(LAMBDA out, id : IF id \in ToSet(out) THEN out ELSE Append(out, id), <<>>, ids)

\* How far the five best of the two differ, in thousandths.
RankDisagreement(vectors, words) ==
    LET left == Ids(Truncated(Sorted(vectors), 5))
        right == ToSet(Ids(Truncated(Sorted(words), 5)))
    IN  IF vectors = <<>> \/ words = <<>> THEN 0
        ELSE 1000 - (1000 * Len(SelectSeq(left, LAMBDA id : id \in right))) \div Len(left)

\* The vectors have a clear best, and the words do not know it: of equal
\* scores max_by takes the last.
ClearWinner(vectors, words) ==
    LET scores == Sorted(vectors)
        rest == scores[Min({4, Len(scores)})].score
        winner == vectors[Max({k \in DOMAIN vectors : vectors[k].score = scores[1].score})].id
    IN  /\ Len(vectors) >= 2
        /\ scores[1].score - rest > CLEAR
        /\ winner \notin ToSet(Ids(Truncated(Sorted(words), 5)))

HybridRanked(index, docs, query, signals, top, limit, base) ==
    LET vectors == Truncated(Sorted(docs), 3 * top)
        ids == FirstOnly(Ids(vectors) \o Ids(SearchBm25(index, query, 2 * Max({top, 1}))))
        words == [k \in DOMAIN ids |-> [id |-> ids[k], score |-> ScoreTerms(index, query, ids[k])]]
        best == Best(ScoresOf(words))
        keyword(id) == IF best = 0 THEN 0 ELSE (1000 * ScoreTerms(index, query, id)) \div best
        agent(id) == \E doc \in ToSet(docs) : doc.id = id /\ doc.tier2
        vector(id) == (MinMax(vectors, id) * (IF agent(id) THEN 13 ELSE 10)) \div 10
        alpha == SearchAlpha(signals, base)
        fallback == /\ best > 0
                    /\ \/ RankDisagreement(vectors, words) >= 500
                       \/ ClearWinner(vectors, words)
                       \/ Span(vectors) < FLAT /\ Len(vectors) >= 4
                       \/ Best(ScoresOf(vectors)) < LOW
        row(id) == [id |-> id, source |-> IF fallback THEN "bm25" ELSE "hnsw",
                    score |-> IF fallback THEN keyword(id)
                              ELSE (alpha * vector(id) + (1000 - alpha) * keyword(id)) \div 1000]
    IN  IF top = 0 THEN <<>> ELSE Truncated(ByScoreAndId({row(id) : id \in ToSet(ids)}), limit)
=============================================================================
