---------------------------- MODULE MCAlgorithms ----------------------------
EXTENDS Algorithms

\* Documents: every four lines of four kinds, and documents with a closed
\* bracket over a line, a form feed, a capital run and a carriage return.
MCLines == {<<>>, <<"a">>, <<"d", "A">>, <<" ", "b">>}
Joined(lines) == FlattenSeq([i \in DOMAIN lines |-> IF i = 1 THEN lines[i] ELSE <<"\n">> \o lines[i]])
MCTexts ==
    {Joined(lines) : lines \in [1..4 -> MCLines]}
        \cup {Joined(<< <<"d">>, <<" ", "{">>, line, <<"}", "}">>, <<>>, <<"d", "1">> >>) : line \in MCLines}
        \cup {Joined(<< <<"a", "\r">>, line, <<"a", "\f", "d">>, <<>>, <<>>, line,
                        <<"A", "B", "b", "{", "{">> >>) : line \in MCLines}
MCShort(n, kinds) == {Joined(lines) : lines \in [1..n -> kinds]}
MCOlds == MCShort(5, {<<>>, <<"a">>, <<"d">>})
MCNews == MCShort(5, {<<"a">>, <<"d">>}) \cup MCShort(2, {<<>>, <<"a">>, <<"d">>})
MCEdits == {Joined(<< <<"d">>, <<"b">>, <<>>, <<"d">>, <<"b", " ">>, <<"d">> >>),
            Joined(<< <<"d">>, <<"a">>, <<>>, <<>>, <<"a">>, <<"d">>, <<>> >>), <<>>}
MCAlikes == {{}, 2..9}

\* Symbols: one name defined and used in three directories and two languages,
\* modules by an ambiguous and an exact name, and a test.
Plain(name) == [relative |-> FALSE, parts |-> <<name>>, ext |-> "no ext"]
Dotted == [relative |-> FALSE, parts |-> <<"src", "m">>, ext |-> "no ext"]
Loose == [relative |-> TRUE, parts |-> <<"m">>, ext |-> "no ext"]
Src == <<"src", <<"m">>, ".py">>
Lib == <<"lib", <<"m">>, ".js">>
Doc == <<"lib", <<"m">>, "no ext">>
Test == <<"src", <<"test_", "m">>, ".py">>
Sym(name, kind, role, path, chunk) ==
    [name |-> name, kind |-> kind, role |-> role, path |-> path, chunk |-> chunk, line |-> 1]
Universe ==
    {Sym(Plain("f"), "function", "definition", path, <<path, 1>>) : path \in {Src, Lib, Doc}}
        \cup {Sym(Plain("f"), "call", "reference", path, <<path, 2>>) : path \in {Src, Lib, Test}}
        \cup {Sym(module, "module", "reference", Test, <<Test, 2>>) : module \in {Dotted, Loose, Plain("m")}}
        \cup {Sym(Plain("x"), "function", "definition", Lib, <<Lib, 3>>)}
MCSymbolLists == {list \in [1..4 -> Universe] : \A i, j \in 1..4 : list[i] = list[j] => i = j}
MCChunkPaths == "a1" :> "a" @@ "a2" :> "a" @@ "b" :> "b" @@ "c" :> "c"
MCReferrals == UNION {kSubset(n, {pair \in (DOMAIN MCChunkPaths) \X (DOMAIN MCChunkPaths) : pair[1] # pair[2]}) : n \in 0..4}
MCLanguageOf(ext) == CASE ext = ".py" -> "python" [] ext = ".js" -> "javascript" [] OTHER -> "no ext"

\* Three chunks of two files, "s/a" and "s", of one or two lines each.
MCChunk(id, path, start, lines) == [id |-> id, path |-> path, start |-> start, lines |-> lines]
FileA == <<"s", "/", "a">>
FileB == <<"s", "a">>
MCBodies == {<<line>> : line \in {"x", " x", "y"}} \cup {<<"xx", line>> : line \in {"x", "y"}}
MCIndexes == {<<MCChunk("b1", FileB, 0, b), MCChunk("a2", FileA, 9, a2), MCChunk("a1", FileA, 0, a1)>> :
                 a1, a2, b \in MCBodies}
MCDisks == {<<>>, FileA :> <<MCChunk("a3", FileA, 0, <<"y", "x">>)>>}
MCBefore(c, d) == \/ c.path = FileA /\ d.path = FileB
                  \/ c.path = d.path /\ c.start < d.start
MCOccurs(pattern, line) == CASE line = "xx" -> 2 [] line \in {"x", " x"} -> 1 [] OTHER -> 0
MCSqueezed(lines) == [i \in DOMAIN lines |-> IF lines[i] = " x" THEN "x" ELSE lines[i]]
MCGroupTokens(rows) == 2 * Len(rows)
MCNear(id) == IF id = "a2" THEN 800 ELSE 0
MCPathLanguage(path) == "rust"
MCSym(name, role, chunk, path) == [name |-> name, role |-> role, chunk |-> chunk, path |-> path]
MCSymbols == {<<>>, <<MCSym("f", "definition", "a1", FileA), MCSym("f", "reference", "b1", FileB)>>,
              <<MCSym("f", "definition", "a1", FileA), MCSym("g", "definition", "a1", FileA),
                MCSym("f", "definition", "gone", FileA), MCSym("f", "definition", "b1", FileB)>>}
MCHit(id, score) == [id |-> id, score |-> score]
MCRankings == {<<>>, <<MCHit("a1", 900), MCHit("a2", 500)>>, <<MCHit("b1", 900), MCHit("a2", 850), MCHit("a1", 100)>>}
MCPrefixes == {<<>>, << <<>> >>, << <<"s">> >>, << <<"s", "/", ".">> >>, <<FileB>>}
MCPaths == {FileA, FileB, <<"s", "/", "a", "/", "b">>, <<"s", "/", "b">>}
MCRecents == {<<p, q, p>> : p, q \in MCPaths} \cup {<<p, q, r, r, p, p, p, p, p, p, p, p>> : p, q, r \in MCPaths}

MCQueryTexts == UNION {[1..n -> {"a", "A", "1", "_", " "}] : n \in 3..5}

\* Two calls in one tree: the settings and the tree change, or the rules do.
MCSkipped == {<<"v">>}
MCSupported == {<<"p">>}
MCSpaces == {" ", "\n", "\r"}
MCCode(c) == CHOOSE n \in 1..20 :
    <<"!", "#", "*", ".", "/", "?", "P", "[", "]", "a", "b", "c", "d", "g", "p", "v", "x", " ", "\n", "\r">>[n] = c
DirD == <<"d">>
DirG == <<"g">>
AP == <<"a", ".", "p">>
ABP == <<"a", "b", ".", "p">>
MCTree == {<<AP>>, <<DirD, AP>>, <<DirD, DirG, ABP>>, <<DirD, DirG, AP>>, <<<<".", "d">>, AP>>, <<DirD, <<"a", ".", "x">> >>,
           <<DirD, <<"v">>, AP>>, <<<<"d", "a">>, AP>>, <<DirD, <<"b", ".", "P">> >>}
MCTrees == {MCTree, MCTree \ {<<DirD, AP>>}, MCTree \ {<<DirD, DirG, AP>>, <<AP>>}}
MCRuleLines ==
    {<<"*", ".", "p">>, <<"!", "a", ".", "p">>, <<"g", "/">>, <<"/", "a", ".", "p", " ">>, <<"d", "/", "g">>,
     <<" ", "#", "p">>, <<"d", "/", "*", "*", "/", "a", "?", ".", "p">>, <<"[", "a", "-", "c", "]", "*">>,
     <<"!", "*", "*", "/", "g">>, <<"[", "!", "]", "a", "]", "b", "*", "*">>, <<"[", "a">>, <<"!", "/">>}
\* What a call knows of the files: all, or their rows, none edited or one.
Full == [brief |-> FALSE, edited |-> {}]
Kinds == {Full, [brief |-> TRUE, edited |-> {}], [brief |-> TRUE, edited |-> {<<DirD, DirG, ABP>>}]}
As(calls, kinds) == {call @@ kind : call \in calls, kind \in kinds}
CallsIn(cwd, trees, ignored, spelled) ==
    [cwd : {cwd}, tree : trees, paths : spelled,
     ignores : {<<>> :> lines @@ <<DirD>> :> lines @@ <<DirD, DirG>> :> <<>> @@ << <<"d", "a">> >> :> <<>> : lines \in ignored}]
Calls(trees, ignored, spelled) == CallsIn(<<>>, trees, ignored, spelled)
DirDA == <<"d", "a">>
At(path) == <<W!Root>> \o path
MCNamed == {<<>>, << <<W!Dot>> >>, << <<DirD>> >>, << <<DirD, AP>>, <<W!Dot, DirD>> >>, << <<DirD, DirG>>, <<DirD>>, <<AP>> >>}
Setting(key, type, value) == [kind |-> "pair", key |-> key, type |-> type, value |-> value]
Table(name) == [kind |-> "table", name |-> name]
Broken == [kind |-> "broken"]
Tomls ==
    {Unset, <<>>, <<Setting("skip_dirs", "array", {DirG}), Broken>>,
     <<Setting("skip_dirs", "array", {DirD}), Table("stele-context"), Setting("skip_dirs", "array", {DirG}),
       [kind |-> "blank"], Table("tool"), Broken>>,
     <<Setting("respect_gitignore", "bool", FALSE), Setting("chunk_size", "int", 0), Setting("name", "int", 1),
       Setting("merge_threshold", "int", 1), Setting("merge_threshold", "string", 2),
       Setting("chunk_size", "string", 2)>>}
Nothing == [git |-> FALSE, toml |-> Unset]
Places(git, toml) == <<>> :> [git |-> git, toml |-> toml] @@ <<DirD>> :> Nothing @@ <<DirD, DirG>> :> Nothing
IgnoreG == {<<>>, << <<"g", "/">> >>}
MCScenes ==
    {[places |-> places, calls |-> <<one, two>>] :
        places \in {Places(git, toml) : git \in BOOLEAN, toml \in Tomls},
        one \in As(Calls({MCTree}, IgnoreG, {<<>>, << <<DirD>> >>}), {Full}),
        two \in As(Calls(MCTrees, IgnoreG, MCNamed), Kinds)}
    \cup
    {[places |-> Places(git, Unset), calls |-> <<one, two>>] :
        git \in BOOLEAN,
        one \in As(CallsIn(<<DirD>>, {MCTree}, {<<>>}, {<<>>, <<At(<<DirDA>>)>>, <<At(<<DirD>>)>>}), {Full}),
        two \in As(CallsIn(<<DirD>>, MCTrees \cup {MCTree \ {<<DirDA, AP>>}}, IgnoreG,
                           {<<>>, <<At(<<DirD>>)>>, <<At(<<DirDA>>)>>, << <<DirG>>, At(<<AP>>)>>,
                            << <<W!Dot, DirG>>, At(<<DirDA>>)>>, << <<>> >>, << At(<<>>) >>}), Kinds)}
    \cup
    {[places |-> Places(TRUE, Unset), calls |-> <<one, two>>] :
        one \in As(Calls({MCTree}, {<<>>}, {<<>>}), {Full}),
        two \in As(Calls({MCTree}, {<<a, b>> : a, b \in MCRuleLines}, {<<>>, << <<DirD>> >>}), {Full})}

\* Histories of two chunks of up to three terms; rankings of four chunks.
MCWeight(tf, n, length) == (100 * tf) \div (n + length)
Letters == <<"a", "b", "c", "d", "x", "y">>
Place(letter) == CHOOSE k \in 1..6 : Letters[k] = letter
MCIdBelow(a, b) == Place(a) < Place(b)
AddCall(id, text) == [id |-> id, text |-> text]
MCTermLists == {<<>>, <<"x">>, <<"x", "y">>, <<"y", "x", "y">>, Gone}
VectorRows(scores, agents) ==
    [k \in DOMAIN scores |-> [id |-> Letters[k], score |-> scores[k], tier2 |-> Letters[k] \in agents]]
MCCases ==
    [history : [1..3 -> [id : {"a", "b"}, text : MCTermLists]],
     search : [docs : {VectorRows(<<500, 900>>, {})}, query : {<<"x">>, <<"y", "x">>}, signals : {0}, top : {1}]]
    \cup
    [history : {<<AddCall("a", <<"x">>), AddCall("b", <<"x", "y">>), AddCall("c", <<"y", "y", "x">>),
                  AddCall("d", <<"y">>)>>},
     search : [docs : {VectorRows(scores, agents) : scores \in [1..4 -> {0, 700, 720, 900}], agents \in {{}, {"c"}}},
               query : {<<"x">>, <<"y", "x">>}, signals : {0, 3}, top : {1, 3}]]

\* Four chunks on a line.
MCDistance(a, b) == IF a > b THEN a - b ELSE b - a
MCVectors == <<{0}, {1, 8}, {2}, {7}>>

\* Patterns: all of up to four of eight characters, and one of each form.
PatternChars == {"a", "b", "*", "?", "|", "(", ")", "."}
MCRegexes ==
    UNION {[1..n -> PatternChars] : n \in 0..4}
        \cup {<<"a", "{", "2", ",", "3", "}", q, "a">> : q \in {"?", "b", "("}}
        \cup {<<"(", "?", look, "(", "a", "|", "b", "b", ")", ")", "[", neg, "b", "-", "c", "]", "+">> :
                 look \in {"!", "=", ":", "P"}, neg \in {"^", "a"}}
        \cup {<<"(", "?", "<", neg, "a", "b", "?", ")", "\\", esc>> :
                 neg \in {"!", "=", "a"}, esc \in {"b", "B", "w", "W", "s", "1", "n", "d", "D", "S"}}
        \cup {<<"[", "\\", esc, "]", "$">> : esc \in {"w", "d", "s", "r", "]"}}
        \cup {<<"^", "(", "a", x, "(", "b", ")", x, ")", y, "b">> : x, y \in {"*", "+", "?"}}
MCSubjects == {<<>>, <<"\r">>, <<"a", "b">>, <<"a", "a", "b">>, <<"b", "a", "b", "\n">>, <<"a", "b", "b", " ", "c">>}

\* Texts someone wrote: all of up to three marks, numbers of every shape,
\* escapes, raw control characters, and objects with a key that comes again.
Marks == {"[", "]", "{", "}", ",", ":", "\"", "\\", "a", "0", "1", "-", " "}
NullWord == <<"n", "u", "l", "l">>
TrueWord == <<"t", "r", "u", "e">>
Fractions == {<<>>, <<".">>, <<".", "5">>, <<".", "0">>, <<"0">>}
Powers == {<<>>, <<"e">>, <<"E", "1">>, <<"e", "+", "1">>, <<"e", "-">>, <<"9", "9">>, <<"e", "9", "9">>}
Escapes == {<<"b">>, <<"n">>, <<"u", "0", "0", "4", "1">>, <<"u", "d", "8", "0", "0">>, <<"u", "0", "0", "4">>,
            <<"u", "0", "0", "1", "f">>, <<"x">>}
MCJsonTexts ==
    UNION {[1..n -> Marks] : n \in 0..3}
        \cup {sign \o <<digit>> \o part \o power :
                 sign \in {<<>>, <<"-">>}, digit \in {"0", "1"}, part \in Fractions, power \in Powers}
        \cup {<<"\"", "\\">> \o escape \o <<"\"">> : escape \in Escapes}
        \cup {<<"\"", char, "\"">> : char \in {"\n", "\t", "^_", " ", "/", "\f"}}
        \cup {<<"{", "\"", "a", "\"", ":">> \o first \o <<",">> \o gap \o <<"\"">> \o key \o <<"\"", colon, ":", "1", "}">> :
                 first \in {<<"0">>, TrueWord, <<"[", "]">>, <<"1", ",">>}, gap \in {<<>>, <<" ", "\f">>},
                 colon \in {" ", "\n", "a"}, key \in {<<"a">>, <<"b">>, <<>>}}
        \cup {<<"[">> \o one \o two \o <<"]">> :
                 one, two \in {NullWord, <<",">>, <<"1", " ">>, <<" ", ",", " ", "1">>, <<",", "[", "]">>}}
Strings == {<<>>, <<"\"", "\\">>, <<"\n", "^H", "\f">>, <<"^_", "a">>, <<"]", "}", ",", ":">>}
Leaves == {J!Null, J!Bool(TRUE), J!Bool(FALSE), J!IntOf(0), J!IntOf(-100), J!IntOf(99),
           J!FloatOf(<<"1", ".", "5">>), J!FloatOf(<<"-", "2">>), J!FloatOf(<<>>)}
          \cup {J!String(text) : text \in Strings}
MCJsonValues ==
    Leaves \cup {J!Array(<<a, b>>) : a, b \in Leaves}
        \cup {J!Object(<< <<pair[1], a>>, <<pair[2], J!Array(<<b>>)>> >>) :
                 pair \in {pair \in Strings \X Strings : pair[1] # pair[2]}, a, b \in Leaves}

\* The shortest text of a number: no zeros after the point, one value for all
\* powers, and 1e99 is not finite.
RECURSIVE Shortest(_)
Shortest(lexeme) ==
    CASE Last(lexeme) = "." -> Front(lexeme)
      [] Last(lexeme) = "0" -> Shortest(Front(lexeme))
      [] OTHER -> lexeme
MCFloat(lexeme) ==
    IF ToSet(lexeme) \cap {"e", "E"} # {}
    THEN IF "1" \in ToSet(lexeme) /\ "9" \in ToSet(lexeme) THEN {} ELSE {<<"7", ".", "5">>}
    ELSE {IF "." \in ToSet(lexeme) THEN Shortest(lexeme) ELSE lexeme}
MCHex(char) == <<"0", "0", "1", "f">>
MCScalar(hex) == CASE hex = <<"0", "0", "4", "1">> -> {"A"} [] hex = MCHex("^_") -> {"^_"} [] OTHER -> {}

\* States of one or two rows of each table, named with quotes, brackets,
\* backslashes and the words that a scan of the text looks for.
RowNames == {<<"a">>, <<"[", "\"", "]">>, <<"\\", "\"", "documents", "\"", ":", "[">>, <<"memory:x">>, <<>>}
DocumentRow(path, n) ==
    [path |-> path, mtime_ns |-> n, size |-> n, sha256 |-> <<"h">>, doc_version |-> 2, chunk_count |-> 1,
     indexed_at |-> <<"1", ".", "5">>]
ChunkOf(path, text, language, map, lanes) ==
    [id |-> path, path |-> path, start |-> 0, end |-> 9, content |-> text, sha256 |-> <<"h">>, tokens |-> 3,
     modality |-> <<"code">>, language |-> language, summary |-> language, notes |-> {}, embedding |-> lanes,
     version |-> 3, staleness |-> <<"1", ".", "5">>, line_map |-> map]
SessionOf(name, kv_state) ==
    [id |-> name, searches |-> <<name>>, reads |-> <<name, <<>> >>, created_at |-> 7, updated_at |-> 8, turn |-> 2,
     tokens |-> 30, agent |-> <<"a">>, kv |-> <<[k |-> name, v |-> <<"1">>]>>,
     attached |-> <<[chunk_id |-> name, turn |-> 1]>>, kv_state |-> kv_state]
StateOf(documents, chunks, name, flag, sessions) ==
    [seq |-> 12, next_annotation |-> 1, inserts |-> 0, next_symbol_id |-> 40, symbol_lines |-> flag,
     documents |-> documents, chunks |-> chunks, sessions |-> sessions,
     symbols |-> <<[name |-> name, kind |-> <<"f">>, role |-> <<"def">>, line |-> 1,
                    container |-> IF flag THEN {name} ELSE {}, chunk_id |-> name, path |-> name, chunk_index |-> 0]>>,
     annotations |-> <<[id |-> <<"1">>, path |-> name, body |-> name, tags |-> <<name, name>>,
                        target_type |-> <<"d">>, created_at |-> -5, updated_at |-> 0]>>,
     locks |-> <<[path |-> name, agent |-> <<"a">>, until |-> 10, auto |-> flag]>>,
     conflicts |-> <<[path |-> name, holder |-> <<"a">>, requester |-> <<"b">>, at |-> 3, kind |-> <<"k">>]>>,
     edges |-> <<[source |-> name, target |-> <<"b">>, kind |-> <<"call">>, name |-> name]>>,
     dynamic |-> <<[name |-> name, kind |-> <<"f">>, role |-> <<"def">>, path |-> name, agent |-> <<"a">>,
                    line |-> 0, chunk_id |-> name, id |-> 41]>>,
     change_log |-> <<[at |-> 4, session |-> name, summary |-> name, reason |-> <<>>]>>,
     chunk_history |-> <<[chunk_id |-> name, version |-> 2, hash |-> <<"h">>, at |-> 0, path |-> name]>>,
     search_log |-> <<[session_id |-> <<"s">>, pattern |-> name, tool |-> <<"grep">>, files_checked |-> 2,
                       files_with_matches |-> 1, searched_at |-> <<"2">>]>>]
MCStates ==
    {StateOf(<<DocumentRow(p, 3), DocumentRow(q, 0)>>, <<ChunkOf(q, p, {}, <<>>, <<>>)>>, <<"a">>, FALSE, <<>>) :
        p, q \in RowNames}
    \cup {StateOf(<<>>, <<ChunkOf(p, <<"x", "\n">>, {p}, <<<<0, 4>>, <<2, 9>>>>, <<<<"1", ".", "5">>, <<>> >>)>>, p, TRUE,
                  <<SessionOf(p, <<>>), SessionOf(p, <<[chunk_id |-> p, turn |-> 1, data |-> <<"{", "\"", "}">>]>>)>>) :
              p \in RowNames}

\* Legacy databases: tables with rows that fit a page of 39 bytes and rows that
\* overflow it, one leaf or two, under a store that is empty or not.
DocumentsSql == <<"create", "(", "document_path", "text", "primary", ",", "file_size", "(", "9", ",", "2", ")", ",",
                  "unique", "(", "a", ",", "b", ")", ")">>
ChunksSql == <<"(", "chunk_id", ",", "document_path", ",", "content", ",", "semantic_signature", ",", "token_count", ")">>
SymbolsSql == <<"(", "id", "integer", ",", "name", ",", "chunk_id", ")">>
NotesSql == <<"(", "id", ",", "target", ",", "content", ")">>
Long(n) == [k \in 1..n |-> k]
IntV(n) == L!IntValue(n)
DocRow(rowid, path, size) == <<rowid, <<Text(<<path>>), IntV(size)>> >>
ChunkRow(rowid, id, path, text, vector, tokens) ==
    <<rowid, <<Text(<<id>>), Text(<<path>>), Text(text), [kind |-> "blob", text |-> vector], IntV(tokens)>> >>
SymRow(rowid, id, name, chunk) == <<rowid, <<id, Text(<<name>>), Text(<<chunk>>)>> >>
TableOf(name, sql, rows) == [name |-> name, sql |-> sql, rows |-> rows]
SymTable ==
    TableOf("symbols", SymbolsSql,
            <<SymRow(1, L!Null, "f", "c1"), SymRow(2, L!Null, "g", "runtime:x"), SymRow(3, IntV(0), "h", "runtime:x")>>)
NoteTable == TableOf("annotations", NotesSql, << <<300, <<L!Null, Text(<<"p">>), Text(Long(40))>> >> >>)
DocumentLists == {<<>>, <<DocRow(1, "p", 300)>>, <<DocRow(1, "p", 0), DocRow(2, "q", -2)>>}
ChunkLists ==
    {<<>>, <<ChunkRow(1, "c1", "p", <<"t">>, <<1, 2>>, 0), ChunkRow(2, "c2", "p", Long(60), <<9>>, 200)>>,
     <<ChunkRow(1, "c1", "p", Long(4), <<1, 2>>, 7), ChunkRow(3, "c3", "q", Long(12), <<>>, 1),
       ChunkRow(4, "c4", "p", <<>>, <<>>, 1)>>}
Both(docs, chunks) == <<TableOf("documents", DocumentsSql, docs), TableOf("chunks", ChunksSql, chunks)>>
Tables == {Both(docs, chunks) \o rest :
              docs \in DocumentLists, chunks \in ChunkLists, rest \in {<<>>, <<SymTable, NoteTable>>}}
OldTables == {Both(<<>>, <<>>),
              Both(<<DocRow(1, "p", 300)>>, <<ChunkRow(1, "c1", "p", Long(60), <<9>>, 200)>>) \o <<SymTable, NoteTable>>}
Native(docs) == [L!NoState EXCEPT !.documents = docs, !.annotations = <<"mine">>]
Scene(old, new, split, stage, lost, native, live) ==
    [old |-> old, new |-> new, split |-> split, stage |-> stage, lost |-> lost, native |-> native, live |-> live,
     save |-> "done"]
MCLegacies ==
    {Scene(new, new, split, "file", lost, Native(docs), live) :
        new \in Tables, split \in BOOLEAN, lost \in {0, 1, 4, 30}, docs \in {<<>>, <<"d">>},
        live \in {<<>>, <<"p">> :> [size |-> 300, mtime |-> 5]}}
    \cup {Scene(old, new, split, stage, 0, Native(<<>>), <<>>) :
             old \in OldTables, new \in Tables, split \in BOOLEAN, stage \in {"log", "restarted"}}
    \cup {[Scene(new, new, FALSE, "file", lost, Native(docs), <<>>) EXCEPT !.save = save] :
             new \in Tables, lost \in {0, 4}, docs \in {<<>>, <<"d">>}, save \in {"unwritten", "unlogged"}}
MCEstimate(text) == Len(text) + 1
MCSignature(text) == <<"sig">>
MCRuntime(text) == IF text = <<"runtime:x">> THEN {"x"} ELSE {}

\* Payloads: all short ones, runs and repeats over the ends of the rows of
\* lengths and distances.  Streams: two blocks of any form.
Repeated(byte, n) == [k \in 1..n |-> byte]
MCPayloads ==
    UNION {[1..n -> {0, 144}] : n \in 0..6} \cup [1..7 -> {0, 255}]
        \cup {Repeated(7, n) : n \in {131, 257, 258, 259, 262, 270}}
        \cup {part \o Repeated(9, gap) \o part :
                 part \in {<<0, 143, 144, 255>>, <<1, 2, 1, 2, 1>>, [k \in 1..20 |-> k]}, gap \in {1, 30, 247}}
        \cup {<<1, 2, 3, 1, 2, 3, 4, 1, 2, 3, 4, 5, 6>> \o Repeated(1, n) \o <<2, 3, 4, 5>> : n \in 0..9}
Literal(byte) == [len |-> 1, byte |-> byte]
Match(len, dist) == [len |-> len, dist |-> dist]
Parts == {<<>>, <<Literal(255)>>, <<Match(3, 1)>>, <<Match(258, 2), Match(3, 18)>>}
TokenLists == {<<>>} \cup {<<Literal(0), Literal(1)>> \o one \o two : one, two \in Parts}
Forms == {"stored", "fixed", "dynamic"}
DistLengths == 0 :> 1 @@ 1 :> 2 @@ 8 :> 2
MCStreams ==
    {<<[form |-> one, tokens |-> tokens, dists |-> DistLengths],
       [form |-> two, tokens |-> <<Literal(1), Match(3, 1)>>, dists |-> dists]>> :
        one, two \in Forms, tokens \in TokenLists, dists \in {0 :> 1, 0 :> 1 @@ 9 :> 1}}
MCHash(three) == three[1] + three[2]

\* Tools of each mode: one with arguments to mistake for each other, one that
\* takes any, one without a signature, a write tool that needs the agent, and
\* the tool with the extra name.
A == <<"a", "b", "c">>
B == <<"b", "d">>
Agent == <<"a", "g">>
Extra == <<"e", "m">>
MCLite == << <<"f">>, <<"g", "r", "p">>, <<"n">> >>
MCStandard == << <<"w", "r">>, <<"s", "e">> >>
MCRemoved == << [old |-> <<"s", "t">>, new |-> <<"s", "e">>], [old |-> <<"o">>, new |-> <<"f">>] >>
MCParam(name, required) == [name |-> name, required |-> required]
MCSigs == <<"f">> :> [var_kw |-> FALSE, params |-> <<MCParam(A, TRUE), MCParam(B, TRUE), MCParam(<<"a", "b">>, FALSE)>>]
              @@ <<"g", "r", "p">> :> [var_kw |-> TRUE, params |-> <<MCParam(A, TRUE)>>]
              @@ <<"w", "r">> :> [var_kw |-> FALSE, params |-> <<MCParam(A, FALSE), MCParam(Agent, TRUE)>>]
              @@ <<"s", "e">> :> [var_kw |-> FALSE, params |-> <<MCParam(Agent, FALSE)>>]
              @@ <<"s", "t">> :> [var_kw |-> FALSE, params |-> <<MCParam(A, TRUE), MCParam(B, TRUE)>>]
MCAlias == [tool |-> <<"s", "t">>, extra |-> Extra, stands |-> B]
MCWrite == {<<"w", "r">>, <<"s", "t">>}
MCLower(c) == CASE c = "A" -> "a" [] c = "P" -> "p" [] OTHER -> c
MCKeys == {A, B, Agent, Extra, <<"a", "d">>, <<"A">>}
MCToolUses == {[mode |-> mode, tool |-> tool, keys |-> keys, inject |-> inject] :
               mode \in {"lite", "standard", "full"}, inject \in BOOLEAN,
               tool \in DOMAIN MCSigs \cup {<<"n">>, <<"o">>, <<"g", "p">>, <<"f", "f">>, <<"z", "z", "z">>},
               keys \in {s \in UNION {[1..n -> MCKeys] : n \in 0..3} : \A i, j \in DOMAIN s : s[i] = s[j] => i = j}}
MCWords(n) == UNION {[1..k -> {"a", "A", "b"}] : k \in 1..n}
MCMisspelt ==
    {[name |-> name, candidates |-> <<x, y>>] : name \in MCWords(3), x, y \in MCWords(2)}
        \cup {[name |-> name, candidates |-> <<x, y, z>>] :
                  name \in [1..4 -> {"a", "b"}], x, y, z \in {<<"b", "a">>, <<"A", "b", "a">>, <<"a", "b", "b", "a">>}}

\* Groups, the operator's lists and AGENTS.md: two blocks, a block in a block
\* of another kind, and a line with a name that is in no group.
MCGroups == "core" :> {"c1"} @@ "g" :> {"g1", "g2"} @@ "h" :> {"h1"}
MCCatalogue == {"c1", "g1", "g2", "h1"}
MCFence(len, info) == [kind |-> "fence", ch |-> "tick", len |-> len, info |-> info]
MCStele(key, list) == [kind |-> "stele", key |-> key, list |-> list]
MCLists == {{"all"}, {"g"}, {"g1", "h"}, {"g1", "zz"}, {"c1"}}
MCBlock(lines) == <<MCFence(3, "agent-tools")>> \o lines \o <<MCFence(3, "")>>
MCAgentTexts ==
    {<<>>} \cup {MCBlock(<<MCStele(k, a), MCStele(l, b)>>) : k, l \in {"tools", "disable"}, a, b \in MCLists}
        \cup {<<MCFence(4, "other")>> \o MCBlock(<<MCStele("tools", {"h"})>>) \o <<MCFence(4, "")>>
              \o MCBlock(<<MCStele("disable", a), [kind |-> "text"]>>) \o MCBlock(<<MCStele("disable", {"h"})>>) : a \in MCLists}
MCEnvs == {[tools |-> tools, disable |-> disable] :
               tools \in {{}, {{"h"}}, {{"g1"}}, {{"c1"}}, {{"all"}}}, disable \in {{}, {{"g", "g1"}}, {{"h1"}}}}
MCSettings == {[env |-> env, text |-> text] : env \in MCEnvs, text \in MCAgentTexts}
MCAbove(x, y) == IF x.path = y.path THEN x.line < y.line ELSE x.chunk[2] < y.chunk[2]
=============================================================================
