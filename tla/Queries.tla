------------------------------- MODULE Queries -------------------------------
(***************************************************************************)
(* The tools that search the text of the index: search_text, agent_grep,   *)
(* search and query, and the session rows they read                        *)
(* (src/src/engine/query.rs).                                              *)
(*                                                                         *)
(* A chunk is [id, path, start, lines]; a path, and a prefix of paths, is a*)
(* sequence of characters; a score is a number of thousandths.  The index  *)
(* is a sequence of chunks; disk gives the chunks a file would be cut into *)
(* now, <<>> for a file that is as it was indexed.                         *)
(***************************************************************************)
EXTENDS Integers, Sequences, SequencesExt, FiniteSetsExt, Functions, Folds

CONSTANTS Before(_, _),       \* the order of two chunks: path, then start
          Occurs(_, _),       \* how often a pattern occurs in a line
          Squeezed(_),        \* lines without what differs in blanks
          GroupTokens(_),     \* the estimate for the rows of a group
          Near(_),            \* the proximity score of a chunk
          LanguageOf(_),      \* of a path
          NoLanguage,
          MAX_HITS, GREP_LIMIT, RESERVE, FLOOR

Bigger(a, b) == IF a >= b THEN a ELSE b
Lesser(a, b) == IF a <= b THEN a ELSE b
Take(s, n) == SubSeq(s, 1, Lesser(n, Len(s)))
Ids(rows) == {rows[i].id : i \in DOMAIN rows}
Total(S, Of(_)) == MapThenFoldSet(+, 0, Of, LAMBDA T : CHOOSE x \in T : TRUE, S)

ChunkOf(index, id) == SelectSeq(index, LAMBDA chunk : chunk.id = id)
ChunksOf(index, path) ==
    SetToSortSeq({chunk \in ToSet(index) : chunk.path = path}, Before)

\* index(paths) of files that changed: their chunks go and come last.
Reindex(index, disk, paths) ==
    LET changed == {path \in paths \cap DOMAIN disk : disk[path] # <<>>}
    IN  SelectSeq(index, LAMBDA chunk : chunk.path \notin changed)
            \o FlattenSeq(SetToSeq({disk[path] : path \in changed}))

-----------------------------------------------------------------------------
(* search_text and agent_grep                                              *)

\* One line number for each occurrence.
LiteralHits(pattern, lines) ==
    FlattenSeq([n \in DOMAIN lines |-> [k \in 1..Occurs(pattern, lines[n]) |-> n]])

\* Chunks in the order of their files, as many as the limit; of each, all
\* occurrences are counted and the first MAX_HITS listed.
TextSearch(index, pattern, limit) ==
    LET found == [i \in DOMAIN index |-> [chunk |-> SetToSortSeq(ToSet(index), Before)[i]]]
        Row(chunk) == [id |-> chunk.id, path |-> chunk.path,
                       count |-> Len(LiteralHits(pattern, chunk.lines)),
                       hits |-> Take(LiteralHits(pattern, chunk.lines), MAX_HITS)]
        rows == [i \in DOMAIN found |-> Row(found[i].chunk)]
    IN  Take(SelectSeq(rows, LAMBDA row : row.count > 0), Bigger(limit, 1))

BaseLine(index, chunk) ==
    1 + Total({other \in ToSet(index) : other.path = chunk.path /\ Before(other, chunk) /\ other # chunk},
              LAMBDA other : Len(other.lines))

\* The entry of a hit, from the chunk as it is after the files with hits were
\* indexed: a chunk that is gone has one empty line.
Entry(index, row, hit, context) ==
    LET held == ChunkOf(index, row.id)
    IN  IF held = <<>> THEN [file |-> row.path, line |-> 1, excerpt |-> <<"">>, copies |-> 1]
        ELSE [file |-> row.path,
              line |-> BaseLine(index, held[1]) + hit - 1,
              excerpt |-> SubSeq(held[1].lines, Bigger(hit - context, 1),
                                 Lesser(hit + context, Len(held[1].lines))),
              copies |-> 1]

\* Entries by a key, the keys in the order in which they first appear.
Buckets(entries, keys) ==
    LET place(acc, i) ==
            LET at == {b \in DOMAIN acc : keys[acc[b][1]] = keys[i]}
            IN  IF at = {} THEN Append(acc, <<i>>) ELSE [acc EXCEPT ![Min(at)] = Append(@, i)]
        buckets == FoldLeftDomain(place, <<>>, keys)
    IN  [b \in DOMAIN buckets |-> [k \in DOMAIN buckets[b] |-> entries[buckets[b][k]]]]

Excerpts(entries) == [i \in DOMAIN entries |-> Squeezed(entries[i].excerpt)]
Files(entries) == [i \in DOMAIN entries |-> entries[i].file]

\* A plausible slip: the entry that stays is not counted.
Deduplicate_Pairs(entries) ==
    LET buckets == Buckets(entries, Excerpts(entries))
    IN  FlattenSeq([b \in DOMAIN buckets |->
            IF Len(buckets[b]) > 2 THEN <<[buckets[b][1] EXCEPT !.copies = Len(buckets[b]) - 1]>> ELSE buckets[b]])

\* More than two entries with one text become the first of them.
Deduplicate(entries) ==
    LET buckets == Buckets(entries, Excerpts(entries))
    IN  FlattenSeq([b \in DOMAIN buckets |->
            IF Len(buckets[b]) > 2 THEN <<[buckets[b][1] EXCEPT !.copies = Len(buckets[b])]>> ELSE buckets[b]])

\* Whole groups are shown while the budget lasts, the first in any case.
Shown(groups, maxTokens) ==
    LET budget == Bigger(maxTokens - RESERVE, FLOOR)
        Add(acc, group) ==
            IF acc.full \/ (acc.tokens + GroupTokens(group) > budget /\ acc.kept # <<>>)
            THEN [acc EXCEPT !.full = TRUE]
            ELSE [acc EXCEPT !.tokens = @ + GroupTokens(group), !.kept = Append(@, group)]
    IN  FoldLeft(Add, [full |-> FALSE, tokens |-> 0, kept |-> <<>>], groups).kept

Counted(kept, total, collapsed) ==
    LET shown == Len(FlattenSeq(kept))
    IN  [groups |-> kept, total |-> total, shown |-> shown, collapsed |-> collapsed,
         truncated |-> Bigger(total - shown - collapsed, 0)]

\* With a session the files with hits are indexed before the hits are looked
\* up.
Grep(index, disk, pattern, context, maxTokens, deduplicate, session) ==
    LET rows == TextSearch(index, pattern, GREP_LIMIT)
        after == IF session THEN Reindex(index, disk, {row.path : row \in ToSet(rows)}) ELSE index
        entries == FlattenSeq([i \in DOMAIN rows |->
                       [k \in DOMAIN rows[i].hits |-> Entry(after, rows[i], rows[i].hits[k], context)]])
        grouped(total, distinct) ==
            Counted(Shown(Buckets(distinct, Files(distinct)), maxTokens), total, total - Len(distinct))
        all(found) == grouped(Len(found), IF deduplicate THEN Deduplicate(found) ELSE found)
    IN  [index |-> after, files |-> {row.path : row \in ToSet(rows)}] @@ all(entries)

\* The chunk that query takes a line of agent_grep to be in.
ChunkForLine(index, path, line) ==
    LET rows == ChunksOf(index, path)
        holding == {k \in DOMAIN rows : /\ BaseLine(index, rows[k]) <= line
                                        /\ line < BaseLine(index, rows[k]) + Len(rows[k].lines)}
    IN  IF rows = <<>> THEN <<>> ELSE <<rows[IF holding = {} THEN Len(rows) ELSE Min(holding)]>>

-----------------------------------------------------------------------------
(* Prefixes of paths.                                                      *)

Segments(path) ==
    FoldLeft(LAMBDA acc, c : IF c = "/" THEN Append(acc, <<>>) ELSE [acc EXCEPT ![Len(acc)] = Append(@, c)],
             << <<>> >>, path)
Joined(parts) ==
    FlattenSeq([i \in DOMAIN parts |-> IF i = 1 THEN parts[i] ELSE <<"/">> \o parts[i]])

\* "." and empty parts go, ".." takes the part before it along.
Normal(path) ==
    Joined(FoldLeft(LAMBDA acc, part :
                        IF part \in {<<>>, <<".">>} THEN acc
                        ELSE IF part = <<".", ".">> THEN (IF acc = <<>> THEN acc ELSE Front(acc))
                        ELSE Append(acc, part),
                    <<>>, Segments(path)))

\* search: the prefix is a directory or a file; the root itself matches none.
UnderPrefix(prefix, path) ==
    /\ Normal(prefix) # <<>>
    /\ path = Normal(prefix) \/ IsPrefix(Append(Normal(prefix), "/"), path)

\* query, for its other sources: a prefix of the text of the path.
StartsWith(prefix, path) == IsPrefix(prefix, path)

\* What the most recently indexed quarter of the documents has in common, cut
\* back at slashes.
RecentPrefix(recent) ==
    LET Cut(prefix) == LET slashes == {i \in DOMAIN prefix : prefix[i] = "/"}
                       IN  IF slashes = {} THEN <<>> ELSE SubSeq(prefix, 1, Max(slashes) - 1)
        Common(prefix, path) ==
            LET cut[n \in Nat] == IF n = 0 THEN prefix ELSE Cut(cut[n - 1])
            IN  cut[Min({n \in 0..Len(prefix) : IsPrefix(cut[n], path)})]
    IN  FoldLeft(Common, recent[1], Take(recent, Bigger(Len(recent) \div 4, 1)))

-----------------------------------------------------------------------------
(* The names in the text of a query: pieces of camel case, runs of capitals*)
(* and snake words where one begins, then whole identifiers.  "a" stands   *)
(* for a small letter, "A" for a capital, "1" for a digit.                 *)

Wordly(s, i) == i \in DOMAIN s /\ s[i] \in {"a", "A", "1", "_"}
RunTo(s, i, C) == Max({i - 1} \cup {j \in i..Len(s) : \A k \in i..j : s[k] \in C})
WordTo(s, i) == RunTo(s, i, {"a", "A", "1", "_"})

\* The last positions of the piece that begins at i: of each kind at most one.
CamelTo(s, i) ==
    IF s[i] = "A" /\ RunTo(s, i + 1, {"a"}) >= i + 2 THEN {RunTo(s, i + 1, {"a"})}
    ELSE {j \in {RunTo(s, i, {"a"})} : j >= i + 1}
CapitalsTo(s, i) ==
    LET ends == {j \in i + 1..RunTo(s, i, {"A"}) :
                    \/ j + 2 <= Len(s) /\ s[j + 1] = "A" /\ s[j + 2] = "a"
                    \/ ~Wordly(s, j + 1)}
    IN  IF ends = {} THEN {} ELSE {Max(ends)}
SnakeTo(s, i) == {j \in {WordTo(s, i)} : s[i] \in {"a", "_"} /\ j >= i + 2}

PieceTo(s, i) ==
    IF CamelTo(s, i) # {} THEN CamelTo(s, i)
    ELSE IF CapitalsTo(s, i) # {} THEN CapitalsTo(s, i) ELSE SnakeTo(s, i)
WholeTo(s, i) == {j \in {WordTo(s, i)} : s[i] \in {"a", "A", "_"} /\ j >= i + 2}

\* to: where the piece that begins at each position ends.
Scanned(s, to) ==
    LET from[i \in 1..Len(s) + 1] ==
            IF i > Len(s) THEN <<>>
            ELSE IF to[i] = {} THEN from[i + 1]
            ELSE LET end == CHOOSE j \in to[i] : TRUE
                 IN  <<SubSeq(s, i, end)>> \o from[end + 1]
    IN  from[1]

Identifiers(s) ==
    FoldLeft(LAMBDA acc, name : IF name \in ToSet(acc) THEN acc ELSE Append(acc, name), <<>>,
             Scanned(s, [i \in DOMAIN s |-> PieceTo(s, i)]) \o Scanned(s, [i \in DOMAIN s |-> WholeTo(s, i)]))

-----------------------------------------------------------------------------
(* search and query                                                        *)

SortByScore(rows) ==
    LET order == SetToSortSeq(DOMAIN rows, LAMBDA i, j : \/ rows[i].score > rows[j].score
                                                         \/ rows[i].score = rows[j].score /\ i < j)
    IN  [k \in DOMAIN rows |-> rows[order[k]]]

UnderAny(prefix, path) == prefix = <<>> \/ UnderPrefix(prefix[1], path)

\* A definition named by the query that the ranking missed is added below the
\* last row.
SymbolBoost(index, symbols, rows, idents, prefix) ==
    LET least == IF rows = <<>> THEN 100 ELSE Last(rows).score
        missed == SelectSeq(symbols, LAMBDA sym :
                      /\ sym.role = "definition" /\ sym.name \in idents
                      /\ sym.chunk \notin Ids(rows) /\ ChunkOf(index, sym.chunk) # <<>>
                      /\ UnderAny(prefix, ChunkOf(index, sym.chunk)[1].path))
        ids == FoldLeft(LAMBDA acc, sym : IF sym.chunk \in ToSet(acc) THEN acc ELSE Append(acc, sym.chunk),
                        <<>>, missed)
    IN  rows \o [i \in DOMAIN ids |->
                    [id |-> ids[i], path |-> ChunkOf(index, ids[i])[1].path,
                     score |-> (least * 85) \div 100]]

\* Scores give way to how near the terms of the query are to one another.
Proximity(rows, weight) ==
    [i \in DOMAIN rows |->
        IF Near(rows[i].id) = 0 THEN rows[i]
        ELSE [rows[i] EXCEPT !.score = (@ * (100 - weight) + Near(rows[i].id) * weight) \div 100]]

\* ranked: the ids and scores of the whole ranking; prefix: <<>> or <<a path>>.  The ranking is asked for
\* ten times as many rows when a prefix will drop some, and the rows are cut
\* to top_k before the prefix is looked at whenever the query names something.
SearchRows(index, symbols, ranked, idents, topK, prefix) ==
    LET top == Bigger(topK, 1)
        held == SelectSeq(Take(ranked, IF prefix = <<>> THEN top ELSE top * 10),
                          LAMBDA hit : ChunkOf(index, hit.id) # <<>>)
        rows == [i \in DOMAIN held |-> [id |-> held[i].id, path |-> ChunkOf(index, held[i].id)[1].path,
                                        score |-> held[i].score]]
        boosted == IF idents = {} THEN rows
                   ELSE Take(SortByScore(SymbolBoost(index, symbols, rows, idents, prefix)), top)
        nudged == IF idents = {} THEN boosted ELSE Take(SortByScore(Proximity(boosted, 28)), top)
    IN  IF held = <<>> THEN <<>> ELSE Take(SelectSeq(nudged, LAMBDA row : UnderAny(prefix, row.path)), top)

\* Bodies are returned while they fit; the first that does not ends the list.
Fitting(rows, tokens, budget) ==
    LET used[n \in Nat] == IF n = 0 THEN 0 ELSE used[n - 1] + tokens[n]
        fits == {n \in 0..Len(rows) : used[n] <= budget}
    IN  [results |-> Take(rows, Max({n \in fits : 0..n \subseteq fits})), total |-> Len(rows)]

Sourced(rows, source) == [i \in DOMAIN rows |-> [id |-> rows[i].id, path |-> rows[i].path, source |-> source]]

\* The rows whose chunk is not there yet, once each.
Merged(results, rows) ==
    FoldLeft(LAMBDA acc, row : IF row.id \in Ids(acc) THEN acc ELSE Append(acc, row), results, rows)

\* The definitions of a name, then its references in the languages that define
\* it.
Referenced(symbols, name) ==
    LET Of(role) == SelectSeq(symbols, LAMBDA sym : sym.name = name /\ sym.role = role)
        languages == {LanguageOf(def.path) : def \in ToSet(Of("definition"))}
    IN  Of("definition") \o SelectSeq(Of("reference"), LAMBDA ref :
            languages = {} \/ NoLanguage \in languages \/ LanguageOf(ref.path) \in languages)

BeginsWith(prefix, path) == prefix = <<>> \/ StartsWith(prefix[1], path)

\* The chunks of the lines that agent_grep shows.
LineHits(grep, prefix) ==
    LET found == FlattenSeq([g \in DOMAIN grep.groups |->
                     [i \in DOMAIN grep.groups[g] |->
                         [row |-> ChunkForLine(grep.index, grep.groups[g][i].file, grep.groups[g][i].line),
                          path |-> grep.groups[g][i].file]]])
        hits == SelectSeq(found, LAMBDA hit : BeginsWith(prefix, hit.path) /\ hit.row # <<>>)
    IN  [i \in DOMAIN hits |-> [id |-> hits[i].row[1].id, path |-> hits[i].path]]

Report(rows, after, topK) ==
    [results |-> Take(rows, topK), index |-> after,
     sources |-> [source \in {"semantic_search", "symbol_graph", "text_match"} |->
                     Len(SelectSeq(rows, LAMBDA row : row.source = source))],
     suggested |-> CASE rows = <<>>                                        -> "other tools"
                     [] rows # <<>> /\ Len(rows) < Bigger(3, topK \div 2)  -> "confirm"
                     [] OTHER                                              -> "nothing"]

Combined(semantic, graph, grep, topK, prefix) ==
    Report(Merged(Merged(Merged(<<>>, Sourced(semantic, "semantic_search")), Sourced(graph, "symbol_graph")),
                  Sourced(LineHits(grep, prefix), "text_match")),
           grep.index, topK)

\* search, then the definitions and references of the first three names, then
\* agent_grep; results is the first top_k.
QueryFull(index, disk, symbols, ranked, names, pattern, topK, prefix, session) ==
    LET found == FlattenSeq([i \in 1..Lesser(Len(names), 3) |-> Referenced(symbols, names[i])])
        kept == SelectSeq(found, LAMBDA sym : BeginsWith(prefix, sym.path) /\ ChunkOf(index, sym.chunk) # <<>>)
        graph == [i \in DOMAIN kept |-> [id |-> kept[i].chunk, path |-> kept[i].path]]
    IN  Combined(SearchRows(index, symbols, ranked, ToSet(names), topK, prefix), graph,
                 Grep(index, disk, pattern, 0, 2000, TRUE, session), topK, prefix)

=============================================================================
