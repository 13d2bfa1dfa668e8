----------------------------- MODULE IndexTasks -----------------------------
(***************************************************************************)
(* What is made of a project's text and read back: a document is cut into  *)
(* chunks and compared with its file after an edit, and an index of a few  *)
(* chunks, whose files may have been edited, is searched.                  *)
(***************************************************************************)
EXTENDS Tasks

CONSTANTS CHUNK_SIZE, MAX_CHUNK_SIZE, WINDOW,
          Texts, Languages,
          Alikes,               \* which chunks may look like the one before
          CONTEXT, Olds, News,  \* texts before and after an edit
          Edits                 \* what a chunked document may be on disk

ASSUME SizesAssumption ==
    /\ CHUNK_SIZE \in Nat \ {0} /\ WINDOW \in Nat \ {0}
    /\ MAX_CHUNK_SIZE \in Nat /\ MAX_CHUNK_SIZE >= CHUNK_SIZE

C == INSTANCE Chunking
D == INSTANCE TextDiff

TextInputs ==
    \/ Chosen("diff") /\ \E old \in Olds, new \in News : input = [cached |-> old, disk |-> new]
    \/ /\ Chosen("context")
       /\ \E text \in Olds \cup Edits, disk \in Edits, language \in Languages, alike \in Alikes,
             isFile, known, stat \in BOOLEAN :
             /\ (isFile /\ known /\ ~stat) \/ (text = disk /\ alike = {})
             /\ input = [text |-> text, language |-> language, alike |-> alike, disk |-> disk,
                         isFile |-> isFile, known |-> known, stat |-> stat]
    \/ Chosen("chunk") /\ \E text \in Texts, language \in Languages, dense \in BOOLEAN, alike \in Alikes :
        input = [text |-> C!ReadText(text), language |-> language, dense |-> dense, alike |-> alike]

ChunkDocument ==
    /\ Runs("chunk")
    /\ answer' = C!ChunkDocument(input.text, input.language, input.dense, input.alike)

Diff == Runs("diff") /\ answer' = D!Unified(input.cached, input.disk)

Context ==
    /\ Runs("context")
    /\ answer' = D!Context(input.isFile, input.known, input.stat, TRUE,
                           C!ChunkDocument(input.text, input.language, FALSE, input.alike),
                           input.text, input.disk)

-----------------------------------------------------------------------------
Ink(s) == SelectSeq(s, LAMBDA c : c \notin C!Blank)
InkLines(lines) == SelectSeq([i \in DOMAIN lines |-> i], LAMBDA i : Ink(lines[i]) # <<>>)

\* The chunks hold the text of the document, all of it and nothing twice, and
\* their spans, which make their ids, do not overlap.
TextKept ==
    Answered("chunk") =>
        /\ Ink(FlattenSeq([k \in DOMAIN answer |-> answer[k].content])) = Ink(input.text)
        /\ \A k \in 1..Len(answer) - 1 : answer[k].end <= answer[k + 1].start
        /\ Len(answer) > 1 => \A k \in DOMAIN answer : answer[k].start < answer[k].end

\* A symbol's line is the line of its file: the map of a chunk, however it was
\* trimmed and merged, takes the n-th line with text back to the n-th line with
\* text, and that line to the chunk's line again.
LinesMapBack ==
    Answered("chunk") /\ ~Contains(input.text, "\f") =>
        LET file == C!Split(input.text, {"\n"})
            Own(k) == InkLines(C!ContentLines(answer[k].content))
        IN  \E maps \in {C!LineMaps(input.text, answer)} :
               /\ FlattenSeq([k \in DOMAIN answer |-> [j \in DOMAIN Own(k) |-> C!Absolute(maps[k], Own(k)[j])]])
                      = InkLines(file)
               /\ \A k \in DOMAIN answer : \A j \in DOMAIN Own(k) :
                      C!Relative(maps[k], C!Absolute(maps[k], Own(k)[j])) = Own(k)[j] - 1

\* query attributes a line that agent_grep reports to the chunk of the match.
HitsFindTheirChunk ==
    Answered("chunk") =>
        \A k \in DOMAIN answer : \A at \in DOMAIN answer[k].content :
            C!ChunkForLine(answer, C!GrepLine(answer, k, at)) = k
\* Old lines with the changes of a diff made to them.
Patched(old, hunks) ==
    LET Of(hunk, signs) == LET rows == SelectSeq(hunk.rows, LAMBDA row : row.sign \in signs)
                           IN  [n \in DOMAIN rows |-> rows[n].line]
        end == FoldLeft(LAMBDA acc, hunk :
                             [lines |-> acc.lines \o SubSeq(old, acc.at + 1, hunk.from) \o Of(hunk, {" ", "+"}),
                              at |-> hunk.from + Len(Of(hunk, {" ", "-"}))],
                         [lines |-> <<>>, at |-> 0], hunks)
    IN  end.lines \o SubSeq(old, end.at + 1, Len(old))

\* An agent that holds the cached text and follows diff_since_cache has the
\* file: the hunks fit where they say and leave no change out, and an exact
\* difference is one from the text that was indexed.
DiffRebuilds ==
    LET Rebuilds(cached, disk, hunks) ==
            LET old == D!TrimSplit(D!LinesOf(cached))
                new == D!TrimSplit(D!LinesOf(disk))
            IN  /\ Patched(old, hunks) = new
                /\ \A n \in DOMAIN hunks : Patched(SubSeq(old, hunks[n].from + 1, hunks[n].from + hunks[n].size),
                                                   <<[hunks[n] EXCEPT !.from = 0]>>)
                                           = SubSeq(new, hunks[n].into + 1, hunks[n].into + hunks[n].newSize)
    IN  /\ Answered("diff") => Rebuilds(input.cached, input.disk, answer)
        /\ Answered("context") /\ answer.in = "changed" =>
               /\ Rebuilds(answer.diff.cached, input.disk, answer.diff.diff)
               /\ answer.diff.exact => answer.diff.cached = input.text

-----------------------------------------------------------------------------

CONSTANTS Before(_, _), Occurs(_, _), Squeezed(_), GroupTokens(_), Near(_),
          PathLanguage(_), NoLanguage, MAX_HITS, GREP_LIMIT, RESERVE, FLOOR,
          Indexes, Disks, Patterns, Budgets,   \* of agent_grep
          Symbols, Rankings, PathPrefixes,         \* of search and query
          Recents,                             \* lists of recently indexed paths
          QueryTexts

Q == INSTANCE Queries WITH LanguageOf <- PathLanguage

QueryInputs ==
    \/ Chosen("grep") /\ \E index \in Indexes, disk \in Disks, pattern \in Patterns, context \in 0..1,
                            budget \in Budgets, deduplicate, session \in BOOLEAN :
          input = [index |-> index, disk |-> disk, pattern |-> pattern, context |-> context,
                   budget |-> budget, deduplicate |-> deduplicate, session |-> session]
    \/ Chosen("query") /\ \E index \in Indexes, pattern \in Patterns, symbols \in Symbols,
                             ranked \in Rankings, topK \in {1, 2, 9}, prefix \in PathPrefixes :
          input = [index |-> index, pattern |-> pattern, symbols |-> symbols, ranked |-> ranked,
                   topK |-> topK, prefix |-> prefix]
    \/ Chosen("recent") /\ input \in Recents
    \/ Chosen("names") /\ input \in QueryTexts

Grep ==
    /\ Runs("grep")
    /\ answer' = Q!Grep(input.index, input.disk, input.pattern, input.context, input.budget,
                        input.deduplicate, input.session)

Names(symbols) == SetToSeq({sym.name : sym \in ToSet(symbols)})

Query ==
    /\ Runs("query")
    /\ \E rows \in {Q!SearchRows(input.index, input.symbols, input.ranked, ToSet(Names(input.symbols)),
                                  input.topK, input.prefix)} :
       \E tokens \in {[i \in DOMAIN rows |-> Len(Q!ChunkOf(input.index, rows[i].id)[1].lines)]} :
           answer' = [search |-> rows, tokens |-> tokens,
                      fitting |-> [budget \in 0..3 |-> Q!Fitting(rows, tokens, budget)],
                      query |-> Q!QueryFull(input.index, <<>>, input.symbols, input.ranked,
                                            Names(input.symbols), input.pattern, input.topK, input.prefix, FALSE)]

NameScan == Runs("names") /\ answer' = Q!Identifiers(input)

Recent == Runs("recent") /\ answer' = Q!RecentPrefix(input)

-----------------------------------------------------------------------------
FileLines(index, path) ==
    FlattenSeq([k \in DOMAIN Q!ChunksOf(index, path) |-> Q!ChunksOf(index, path)[k].lines])

\* agent_grep accounts for every occurrence it counts, as shown, collapsed or
\* cut off, whatever the budget; and what it shows is so: the line it gives
\* holds the pattern, unless the file was edited and the call indexed it.
GrepAccounts ==
    Answered("grep") =>
        LET rows == FlattenSeq(answer.groups)
            copies == FoldLeft(LAMBDA n, e : n + e.copies, 0, rows)
        IN  /\ answer.total = answer.shown + answer.collapsed + answer.truncated
            /\ answer.total > 0 => answer.shown > 0
            /\ answer.truncated = 0 => copies = answer.total
            /\ ~(input.session /\ \E path \in answer.files \cap DOMAIN input.disk : input.disk[path] # <<>>)
                   => \A i \in DOMAIN rows :
                          Occurs(input.pattern, FileLines(answer.index, rows[i].file)[rows[i].line]) > 0

\* query gives each chunk once, counts what it merged, keeps its rows under the
\* prefix as their source understands it, and leaves out no definition of a name that it was asked for;
\* search adds such a definition wherever it has room, below no better row, and
\* shows as many rows as fit into a budget of tokens.
QueryMerges ==
    Answered("query") =>
        LET rows == answer.query.results
            counts == answer.query.sources
            all == counts["semantic_search"] + counts["symbol_graph"] + counts["text_match"]
            defined == {sym \in ToSet(input.symbols) :
                            sym.role = "definition" /\ Q!ChunkOf(input.index, sym.chunk) # <<>>}
            Under(path) == input.prefix = <<>> \/ Q!StartsWith(input.prefix[1], path)
        IN  /\ Len(rows) = Cardinality(Q!Ids(rows))
            /\ Len(rows) = Q!Lesser(all, input.topK)
            /\ all <= input.topK => {sym.chunk : sym \in {s \in defined : Under(s.path)}} \subseteq Q!Ids(rows)
            /\ \A i \in DOMAIN rows : input.prefix # <<>> =>
                   IF rows[i].source = "semantic_search" THEN Q!UnderPrefix(input.prefix[1], rows[i].path)
                   ELSE Under(rows[i].path)
            /\ \A i \in 1..Len(answer.search) - 1 : answer.search[i].score >= answer.search[i + 1].score
            /\ \A budget \in DOMAIN answer.fitting :
                   LET shown == Len(answer.fitting[budget].results)
                       sum[n \in Nat] == IF n = 0 THEN 0 ELSE sum[n - 1] + answer.tokens[n]
                   IN  /\ IsPrefix(answer.fitting[budget].results, answer.search)
                       /\ sum[shown] <= budget
                       /\ shown < answer.fitting[budget].total => sum[shown + 1] > budget
            /\ answer.search # <<>> /\ Len(answer.search) < input.topK /\ input.prefix = <<>> =>
                   {sym.chunk : sym \in defined} \subseteq Q!Ids(answer.search)

\* What query decides by itself: a prefix that the most recent files have, and
\* names among which is every identifier that the text holds as a word.
DefaultsFit ==
    /\ Answered("recent") =>
           \A i \in 1..Q!Bigger(Len(input) \div 4, 1) : Q!StartsWith(answer, input[i])
    /\ Answered("names") =>
           \A i, j \in DOMAIN input :
               /\ j >= i + 2 /\ \A k \in i..j : Q!Wordly(input, k)
               /\ ~Q!Wordly(input, i - 1) /\ ~Q!Wordly(input, j + 1) /\ input[i] # "1"
               => SubSeq(input, i, j) \in ToSet(answer)
=============================================================================
