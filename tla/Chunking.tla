------------------------------ MODULE Chunking ------------------------------
(***************************************************************************)
(* How a document is cut into chunks, and how a chunk's lines are found    *)
(* again in its file: src/src/chunk, and the line numbers that agent_grep  *)
(* and the symbol extractors give.  A text is a sequence of characters,    *)
(* one or two for each class that the code tells apart; "d" is a word that *)
(* begins a definition when it begins a line.  Offsets count from 0.       *)
(***************************************************************************)
EXTENDS Integers, Sequences, SequencesExt, FiniteSetsExt

CONSTANTS CHUNK_SIZE, MAX_CHUNK_SIZE, WINDOW

Lower == {"a", "b", "d"}
Upper == {"A", "B"}
Digit == {"1"}
Blank == {" ", "\n", "\f"}
Breaks == {"\n", "\f"}                                   \* where Python's splitlines splits
Word == Lower \cup Upper \cup Digit \cup {"_", "other"}  \* "other": a letter of another script

Larger(a, b) == IF a >= b THEN a ELSE b
Smaller(a, b) == IF a <= b THEN a ELSE b
Least(n) == Larger(n, 1)

Trim(s) ==
    LET ink == {i \in DOMAIN s : s[i] \notin Blank}
    IN  IF ink = {} THEN <<>> ELSE SubSeq(s, Min(ink), Max(ink))

\* The pieces of s between the characters in C.
Split(s, C) ==
    FoldLeft(LAMBDA lines, c : IF c \in C THEN Append(lines, <<>>)
                               ELSE [lines EXCEPT ![Len(lines)] = Append(@, c)],
             << <<>> >>, s)

\* Universal newlines, as Python reads a text file.
ReadText(bytes) ==
    FoldLeftDomain(LAMBDA text, i :
                       IF bytes[i] # "\r" THEN Append(text, bytes[i])
                       ELSE IF i < Len(bytes) /\ bytes[i + 1] = "\n" THEN text
                       ELSE Append(text, "\n"),
                   <<>>, bytes)

-----------------------------------------------------------------------------
(* The estimate of tokens: a leftmost scan, then pairs that count as one.  *)

\* The last position of the run of characters in C that begins at i.
RunEnd(s, i, C) == Max({j \in i..Len(s) : \A k \in i..j : s[k] \in C})

\* The last position of the token at i, 0 when none begins there.
TokenEnd(s, i) ==
    LET next == IF i < Len(s) THEN s[i + 1] ELSE "\n"
        caps == RunEnd(s, i, Upper)
        after == IF caps < Len(s) THEN s[caps + 1] ELSE "\n"
    IN  CASE s[i] \in Lower                      -> RunEnd(s, i, Lower)
          [] s[i] \in Upper /\ next \in Lower    -> RunEnd(s, i + 1, Lower)
          [] s[i] \in Upper /\ next \notin Lower ->
                IF after \in Lower THEN caps - 1      \* a capital begins the next word
                ELSE IF after \in Word THEN 0 ELSE caps
          [] s[i] \in Digit                      -> RunEnd(s, i, Digit)
          [] s[i] \in Blank                      -> RunEnd(s, i, Blank)
          [] s[i] \in {"_", "other"}             -> 0
          [] OTHER                               -> i

Kind(s, i) ==
    CASE s[i] \in Blank             -> "space"
      [] s[i] \in Blank \cup Word   -> "other"
      [] OTHER                      -> "mark"

TokenKinds(s) ==
    LET from[i \in 1..Len(s) + 1] ==
            IF i > Len(s) THEN <<>>
            ELSE IF TokenEnd(s, i) = 0 THEN from[i + 1]
            ELSE <<Kind(s, i)>> \o from[TokenEnd(s, i) + 1]
    IN  from[1]

\* Python merges a space into what follows it, and two marks.
MergedTokens(kinds) ==
    LET Merges(i) == \/ kinds[i] = "space" /\ kinds[i + 1] # "space"
                     \/ kinds[i] = "mark" /\ kinds[i + 1] = "mark"
        count[i \in 1..Len(kinds) + 2] ==
            CASE i > Len(kinds)                 -> 0
              [] i < Len(kinds) /\ Merges(i)    -> 1 + count[i + 2]
              [] i <= Len(kinds) /\ (i = Len(kinds) \/ ~Merges(i)) -> 1 + count[i + 1]
    IN  count[1]

Tokens(s) == Least(MergedTokens(TokenKinds(s)))

-----------------------------------------------------------------------------
(* The chunkers.                                                           *)

Piece(content, start, end) == [content |-> content, start |-> start, end |-> end]
NoText == <<Piece(<<>>, 0, 0)>>

\* Consecutive slices of the file become its chunks, but for blank ones.
Flush(raws) ==
    LET all == FoldLeft(LAMBDA acc, raw :
                    [at |-> acc.at + Len(raw),
                     pieces |-> IF Trim(raw) = <<>> THEN acc.pieces
                                ELSE Append(acc.pieces, Piece(Trim(raw), acc.at, acc.at + Len(raw)))],
                    [at |-> 0, pieces |-> <<>>], raws).pieces
    IN  IF all = <<>> THEN NoText ELSE all

\* The lines of s with their newlines.
SplitKeep(s) ==
    LET lines == Split(s, {"\n"})
        kept == [i \in DOMAIN lines |-> IF i < Len(lines) THEN Append(lines[i], "\n") ELSE lines[i]]
    IN  IF Last(kept) = <<>> /\ Len(kept) > 1 THEN Front(kept) ELSE kept

ByLines(text) ==
    LET cut(lines, per) ==
            Flush([k \in 1..(Len(lines) + per - 1) \div per |->
                      FlattenSeq(SubSeq(lines, (k - 1) * per + 1, Smaller(k * per, Len(lines))))])
        sized(lines, avg) == cut(lines, Least(CHUNK_SIZE \div avg))
    IN  sized(SplitKeep(text), Least(Least(Tokens(text)) \div Least(Len(SplitKeep(text)))))

\* Definitions and the gaps before them fill a chunk up to CHUNK_SIZE.
Boundaries(text, defs) ==
    LET Add(acc, def) ==
            LET gap == SubSeq(text, acc.last + 1, def.start)
                body == SubSeq(text, def.start + 1, def.end)
                raw == acc.raw \o gap
                fill(tokens, more) ==
                    IF tokens + more > CHUNK_SIZE /\ raw # <<>>
                    THEN [raws |-> Append(acc.raws, raw), raw |-> body, tokens |-> more, last |-> def.end]
                    ELSE [raws |-> acc.raws, raw |-> raw \o body, tokens |-> tokens + more, last |-> def.end]
            IN  fill(acc.tokens + (IF gap = <<>> THEN 0 ELSE Tokens(gap)), Tokens(body))
        all(done) == Append(done.raws, done.raw \o SubSeq(text, done.last + 1, Len(text)))
    IN  Flush(all(FoldLeft(Add, [raws |-> <<>>, raw |-> <<>>, tokens |-> 0, last |-> 0], defs)))

Span(start, end) == [start |-> start, end |-> end]
InOrder(spans) == SetToSortSeq(spans, LAMBDA x, y : x.start < y.start)

\* A match of the language's pattern takes in the newline before the word and
\* reaches to the next match.
PatternDefs(text) ==
    LET starts == {p \in 0..Len(text) - 1 :
                       IF p = 0 /\ text[1] = "d" THEN TRUE
                       ELSE text[p + 1] = "\n" /\ p + 2 <= Len(text) /\ text[p + 2] = "d"}
    IN  InOrder({Span(p, Min({q \in starts : q > p} \cup {Len(text)})) : p \in starts})

Depth(text, at) ==
    Cardinality({k \in 1..at : text[k] = "{"}) - Cardinality({k \in 1..at : text[k] = "}"})

Balanced(text) == Depth(text, Len(text)) = 0 /\ \A at \in DOMAIN text : Depth(text, at) >= 0

\* A Python definition reaches to the last line with code of its suite.
Suites(text, lines) ==
    LET End(i) == Len(FlattenSeq(SubSeq(lines, 1, i)))
        Empty(i) == Trim(lines[i]) = <<>>
        Inside(i) == Depth(text, End(i - 1)) > 0      \* begins between brackets
        Suite(h) == {m \in h..Len(lines) :
                        /\ \A i \in h + 1..m :
                               Empty(i) \/ IF Inside(i) THEN ~Inside(h) ELSE lines[i][1] = " "
                        /\ m = h \/ (~Empty(m) /\ ~Inside(h))}
        leads == {h \in DOMAIN lines : lines[h] # <<>> /\ lines[h][1] = "d"}
        heads == {h \in leads : \A g \in leads : g < h => h > Max(Suite(g))}
    IN  InOrder({Span(End(h - 1), End(Max(Suite(h)))) : h \in heads})

PythonDefs(text) == Suites(text, SplitKeep(text))

\* Unbalanced Python, and Python without definitions, is cut as other text is.
Code(text, language) ==
    LET cut(defs) == IF defs # <<>> THEN Boundaries(text, defs) ELSE ByLines(text)
        defined(python) == IF python # <<>> THEN python ELSE PatternDefs(text)
    IN  cut(defined(IF language = "py" /\ Balanced(text) THEN PythonDefs(text) ELSE <<>>))

\* A newline, blanks, a newline: what separates paragraphs.
Paragraphs(text) ==
    LET BreakEnd(i) == {e \in i + 1..Len(text) : text[e] = "\n" /\ \A k \in i + 1..e : text[k] \in Blank}
        from[i \in 1..Len(text) + 1] ==
            IF i > Len(text) THEN << <<>> >>
            ELSE IF text[i] = "\n" /\ BreakEnd(i) # {} THEN << <<>> >> \o from[Max(BreakEnd(i)) + 1]
            ELSE LET rest == from[i + 1] IN <<(<<text[i]>> \o Head(rest))>> \o Tail(rest)
    IN  SelectSeq([k \in DOMAIN from[1] |-> Trim(from[1][k])], LAMBDA para : para # <<>>)

\* The denser a paragraph, the smaller the chunk that takes it: a share of
\* the size between the whole and a half.
Target(dense) ==
    Smaller(Larger(IF dense THEN CHUNK_SIZE \div 2 ELSE CHUNK_SIZE, CHUNK_SIZE \div 2),
            MAX_CHUNK_SIZE)

Text(text, dense) ==
    LET Push(acc) == Append(acc.pieces, Piece(Trim(acc.text), acc.start, acc.start + Len(acc.text)))
        Add(acc, para) ==
            LET ended == para \o <<"\n", "\n">>
            IN  IF acc.tokens + Tokens(para) > Target(dense) /\ acc.text # <<>>
                THEN [pieces |-> Push(acc), start |-> acc.start + Len(acc.text),
                      text |-> ended, tokens |-> Tokens(para)]
                ELSE [acc EXCEPT !.text = @ \o ended, !.tokens = @ + Tokens(para)]
        done == FoldLeft(Add, [pieces |-> <<>>, start |-> 0, text |-> <<>>, tokens |-> 0],
                         Paragraphs(text))
    IN  IF done.text = <<>> THEN NoText ELSE Push(done)

\* Adjacent chunks that look alike become one, but no code chunk takes in the
\* beginning of a definition.  alike: the positions whose signature is near
\* enough to that of the chunk before them.
Merge(pieces, modality, alike) ==
    LET Joined(x, y) ==
            LET pad == y.start - x.start - Len(x.content)
                gap == [i \in 1..(IF pad >= 1 THEN pad ELSE 2) |-> "\n"]
            IN  Piece(x.content \o gap \o y.content, x.start, y.end)
        Add(acc, i) ==
            LET piece == pieces[i]
            IN  IF \/ acc = <<>> \/ i \notin alike
                   \/ modality = "code" /\ piece.content # <<>> /\ piece.content[1] = "d"
                   \/ Tokens(Last(acc).content) + Tokens(piece.content) > MAX_CHUNK_SIZE
                THEN Append(acc, piece)
                ELSE Append(Front(acc), Joined(Last(acc), piece))
    IN  FoldLeftDomain(Add, <<>>, pieces)

\* The pieces before the merge, and the chunks of a document.
Pieces(text, language, dense) ==
    IF language = "txt" THEN Text(text, dense) ELSE Code(text, language)

ChunkDocument(text, language, dense, alike) ==
    Merge(Pieces(text, language, dense), IF language = "txt" THEN "text" ELSE "code", alike)

-----------------------------------------------------------------------------
(* Lines of chunks and lines of their file.                                *)

ContentLines(content) ==
    LET lines == Split(content, Breaks)
    IN  IF Last(lines) = <<>> THEN Front(lines) ELSE lines

\* A plausible slip: each line is looked for from the beginning of the file.
LineMap_NoCursor(file, content, from) ==
    LET lines == ContentLines(content)
        Find(acc, i) ==
            LET hits == {at \in 0..Smaller(WINDOW, Len(file)) - 1 :
                            Trim(file[at + 1]) = Trim(lines[i])}
                found == Min(hits)
                shift == found - (i - 1)
            IN  IF Trim(lines[i]) = <<>> \/ hits = {} THEN acc
                ELSE [map |-> IF acc.map # <<>> /\ acc.shift = shift THEN acc.map
                              ELSE Append(acc.map, [chunk |-> i - 1, file |-> found]),
                      shift |-> shift, cursor |-> found + 1]
    IN  FoldLeftDomain(Find, [map |-> <<>>, shift |-> 0, cursor |-> from], lines)

\* Each chunk line with text is looked for in the next WINDOW lines of the
\* file; the map has an entry wherever the distance of the two changes.
LineMap(file, content, from) ==
    LET lines == ContentLines(content)
        Find(acc, i) ==
            LET hits == {at \in acc.cursor..Smaller(acc.cursor + WINDOW, Len(file)) - 1 :
                            Trim(file[at + 1]) = Trim(lines[i])}
                found == Min(hits)
                shift == found - (i - 1)
            IN  IF Trim(lines[i]) = <<>> \/ hits = {} THEN acc
                ELSE [map |-> IF acc.map # <<>> /\ acc.shift = shift THEN acc.map
                              ELSE Append(acc.map, [chunk |-> i - 1, file |-> found]),
                      shift |-> shift, cursor |-> found + 1]
    IN  FoldLeftDomain(Find, [map |-> <<>>, shift |-> 0, cursor |-> from], lines)

\* The maps of a document's chunks, which share one cursor.
LineMaps(text, chunks) ==
    FoldLeft(LAMBDA acc, chunk :
                 LET found == LineMap(Split(text, {"\n"}), chunk.content, acc.cursor)
                 IN  [maps |-> Append(acc.maps, found.map), cursor |-> found.cursor],
             [maps |-> <<>>, cursor |-> 0], chunks).maps

\* The file line of a chunk line, both from 1.
Absolute(map, line) ==
    IF line = 0 \/ map = <<>> THEN line
    ELSE LET before == {k \in DOMAIN map : map[k].chunk <= line - 1}
             entry == map[IF before = {} THEN 1 ELSE Max(before)]
         IN  Larger(entry.file + (line - 1) - entry.chunk, 0) + 1

\* The chunk line, from 0, of a file line from 1; -1 when there is none.
Relative(map, line) ==
    LET before == {k \in DOMAIN map : map[k].file <= line - 1}
    IN  IF line = 0 \/ before = {} THEN -1
        ELSE map[Max(before)].chunk + (line - 1 - map[Max(before)].file)

Newlines(s) == Cardinality({i \in DOMAIN s : s[i] = "\n"})

\* The lines that agent_grep, and query after it, count for a chunk.
Rows(content) == Newlines(content) + (IF content # <<>> /\ Last(content) = "\n" THEN 0 ELSE 1)
Height(content) == Newlines(content) + (IF content # <<>> /\ Last(content) = "\n" THEN 0 ELSE 1)

BaseLine(chunks, k, Count(_)) ==
    FoldLeft(LAMBDA line, chunk : line + Count(chunk.content), 1, SubSeq(chunks, 1, k - 1))

\* The line agent_grep reports for the character at of chunk k.
GrepLine(chunks, k, at) ==
    BaseLine(chunks, k, Rows) + Newlines(SubSeq(chunks[k].content, 1, at - 1))

\* The chunk that query takes a reported line to be in.
ChunkForLine(chunks, line) ==
    LET holding == {k \in DOMAIN chunks :
                        /\ BaseLine(chunks, k, Height) <= line
                        /\ line < BaseLine(chunks, k + 1, Height)}
    IN  IF holding = {} THEN Len(chunks) ELSE Min(holding)
=============================================================================
