----------------------------- MODULE FormatTasks -----------------------------
(***************************************************************************)
(* What is written and read again: a text is parsed, and what it means is  *)
(* written and parsed again; a state is saved, opened in full and for its  *)
(* documents only, and saved and opened once more; a Python process leaves *)
(* a database, checkpointed or with a log, and the store is opened on it,  *)
(* twice; and a payload is compressed and a stream inflated.               *)
(***************************************************************************)
EXTENDS Tasks

CONSTANTS MAX_INT, Float(_), Controls, Hex(_), Scalar(_),
          JsonTexts,     \* texts someone else wrote
          JsonValues     \* values the program writes

J == INSTANCE Json

JsonInputs ==
    /\ Chosen("json")
    /\ input \in [text : JsonTexts, value : {J!Null}] \cup [text : {<<>>}, value : JsonValues]

ReadAndWrite ==
    /\ Runs("json")
    /\ LET written == J!ToText(input.value)
       IN  answer' = [parsed |-> J!Parse(input.text), written |-> written,
                      back |-> J!Parse(written), python |-> J!Parse(J!DumpsPython(input.value))]

-----------------------------------------------------------------------------
\* The grammar of JSON, of numbers that are finite.
Part(text, i, j) == SubSeq(text, i, j)
Number(chars) ==
    LET digits(s) == s # <<>> /\ \A k \in DOMAIN s : J!Digit(s[k])
        unsigned(s) == IF s # <<>> /\ s[1] = "-" THEN Tail(s) ELSE s
        whole(s) == digits(s) /\ (Len(s) > 1 => s[1] # "0")
        either(s) == IF s # <<>> /\ s[1] \in {"+", "-"} THEN Tail(s) ELSE s
        plain(s) == \/ whole(s)
                    \/ \E k \in DOMAIN s : s[k] = "." /\ whole(Part(s, 1, k - 1)) /\ digits(Part(s, k + 1, Len(s)))
        body == unsigned(chars)
    IN  /\ \/ plain(body)
           \/ \E k \in DOMAIN body : /\ body[k] \in {"e", "E"}
                                     /\ plain(Part(body, 1, k - 1)) /\ digits(either(Part(body, k + 1, Len(body))))
        /\ Float(chars) # {}
Chars(chars) ==
    /\ Len(chars) >= 2 /\ chars[1] = "\"" /\ Last(chars) = "\""
    /\ LET starts[k \in 1..Len(chars)] ==          \* a character of the string starts at k
               IF k <= 2 THEN k = 2
               ELSE \/ starts[k - 1] /\ chars[k - 1] \notin {"\"", "\\"} \cup J!Blank \cup Controls
                    \/ starts[k - 1] /\ chars[k - 1] = " "
                    \/ k > 3 /\ starts[k - 2] /\ chars[k - 2] = "\\"
                       /\ chars[k - 1] \in {"\"", "\\", "/", "b", "f", "n", "r", "t"}
                    \/ k > 7 /\ starts[k - 6] /\ chars[k - 6] = "\\" /\ chars[k - 5] = "u"
                       /\ Scalar(Part(chars, k - 4, k - 1)) # {}
       IN  starts[Len(chars)]
RECURSIVE Means(_), Items(_), Pairs(_)
Bare(chars) ==
    LET solid == {k \in DOMAIN chars : chars[k] \notin J!Blank}
    IN  IF solid = {} THEN <<>> ELSE Part(chars, Min(solid), Max(solid))
Items(chars) == \/ Means(chars)
                \/ \E k \in DOMAIN chars : chars[k] = "," /\ Means(Part(chars, 1, k - 1)) /\ Items(Part(chars, k + 1, Len(chars)))
Pair(chars) == \E k \in DOMAIN chars : chars[k] = ":" /\ Chars(Bare(Part(chars, 1, k - 1))) /\ Means(Part(chars, k + 1, Len(chars)))
Pairs(chars) == \/ Pair(chars)
                \/ \E k \in DOMAIN chars : chars[k] = "," /\ Pair(Part(chars, 1, k - 1)) /\ Pairs(Part(chars, k + 1, Len(chars)))
Means(chars) ==
    LET solid == Bare(chars)
        inner == Part(solid, 2, Len(solid) - 1)
        closed(open, close) == Len(solid) >= 2 /\ solid[1] = open /\ Last(solid) = close
    IN  \/ solid \in {<<"n", "u", "l", "l">>, <<"t", "r", "u", "e">>, <<"f", "a", "l", "s", "e">>}
        \/ Number(solid) \/ Chars(solid)
        \/ closed("[", "]") /\ (Bare(inner) = <<>> \/ Items(inner))
        \/ closed("{", "}") /\ (Bare(inner) = <<>> \/ Pairs(inner))

\* What comes back of a value: a number that is not finite does not.
RECURSIVE Kept(_)
Kept(value) ==
    CASE value.kind = "float" -> IF value.float = <<>> THEN J!Null ELSE value
      [] value.kind = "array" -> J!Array([k \in DOMAIN value.items |-> Kept(value.items[k])])
      [] value.kind = "object" -> J!Object([k \in DOMAIN value.pairs |-> <<value.pairs[k][1], Kept(value.pairs[k][2])>>])
      [] OTHER -> value

\* The keys of an object differ, at every depth.
RECURSIVE Distinct(_)
Distinct(value) ==
    CASE value.kind = "array" -> \A item \in ToSet(value.items) : Distinct(item)
      [] value.kind = "object" -> /\ \A i, j \in DOMAIN value.pairs : value.pairs[i][1] = value.pairs[j][1] => i = j
                                  /\ \A pair \in ToSet(value.pairs) : Distinct(pair[2])
      [] OTHER -> TRUE

\* The parser takes the texts of the JSON grammar and no others, gives an
\* object each key once, and reads what it wrote: a saved value, in either
\* layout, comes back as it was (parse, to_string, dumps_python).
JsonTrue ==
    Answered("json") =>
        /\ answer.back = {Kept(input.value)} /\ answer.python = answer.back
        /\ (answer.parsed # {}) <=> Means(input.text)
        /\ \A value \in answer.parsed : Distinct(value) /\ J!Parse(J!ToText(value)) = {value}

-----------------------------------------------------------------------------

CONSTANTS MemoryWords,   \* words that begin with "memory:"
          States         \* states to save

S == INSTANCE StoreRows

StoreInputs == Chosen("store") /\ input \in States

SaveAndOpen ==
    /\ Runs("store")
    /\ \E text \in {S!ToText(S!StateToJson(input))} :
       \E opened \in {S!LoadSnapshot(text)} :
           answer' = [opened |-> opened, documents |-> S!LoadDocumentsOnly(text),
                      again |-> UNION {S!LoadSnapshot(S!ToText(S!StateToJson(state))) : state \in opened}]

-----------------------------------------------------------------------------
\* What the file does not keep: how stale a chunk is and its version, what was
\* attached without a payload, and a number that is not finite.
Finite(float) == IF float = <<>> THEN S!Zero ELSE float
Survives(state) ==
    LET chunk(row) == [row EXCEPT !.version = 1, !.staleness = S!Zero,
                                  !.embedding = [k \in DOMAIN row.embedding |-> Finite(row.embedding[k])]]
        session(row) == [row EXCEPT !.attached = [k \in DOMAIN row.kv_state |->
                                        [chunk_id |-> row.kv_state[k].chunk_id, turn |-> row.kv_state[k].turn]]]
    IN  [state EXCEPT !.chunks = S!Each(chunk, state.chunks), !.sessions = S!Each(session, state.sessions)]

\* A save and an open keep the rest of the store, whatever characters paths,
\* texts and payloads are made of; the open that reads only the documents
\* finds the ones a full open finds, and never misses that there is memory;
\* and what was kept once is kept for good (State::to_json, State::from_json,
\* load_documents_only).
StoreSurvives ==
    Answered("store") =>
        /\ answer.opened = {Survives(input)}
        /\ answer.again = answer.opened
        /\ \A open \in answer.documents : open.documents = input.documents
        /\ \A chunk \in ToSet(input.chunks) : chunk.path # <<>> /\ Head(chunk.path) \in MemoryWords =>
               \A open \in answer.documents : open.memory_hint
        /\ Cardinality(answer.documents) = 1

-----------------------------------------------------------------------------

CONSTANTS USABLE, VECTOR, Estimate(_), Signature(_), RuntimeAgent(_),
          Legacies   \* [old, new: tables, split, stage, lost, native, live, save]

L == INSTANCE LegacyDb

LegacyInputs == Chosen("legacy") /\ input \in Legacies

-----------------------------------------------------------------------------
\* How SQLite writes tables.  A table is [name, sql, rows], a row <<rowid, values>>.

VarintOf(n) == IF n < 128 THEN <<n>> ELSE <<128 + (n \div 128), n % 128>>
Bytes(n) == IF n \in -128..127 THEN <<n % 256>> ELSE <<(n \div 256) % 256, n % 256>>
SerialOf(value) ==
    CASE value.kind = "null" -> 0
      [] value.kind = "int" -> IF value.int \in {0, 1} THEN 8 + value.int ELSE Len(Bytes(value.int))
      [] value.kind = "text" -> 13 + 2 * Len(value.text)
      [] value.kind = "blob" -> 12 + 2 * Len(value.text)
BodyOf(value) ==
    CASE value.kind = "null" -> <<>>
      [] value.kind = "int" -> IF value.int \in {0, 1} THEN <<>> ELSE Bytes(value.int)
      [] OTHER -> value.text
PayloadOf(values) ==
    LET serials == FlattenSeq([k \in DOMAIN values |-> VarintOf(SerialOf(values[k]))])
    IN  <<Len(serials) + 1>> \o serials \o FlattenSeq([k \in DOMAIN values |-> BodyOf(values[k])])

\* The pages of a payload's rest, from page first on.
Chain(rest, first) ==
    LET room == USABLE - 4
        count == (Len(rest) + room - 1) \div room
    IN  [n \in first..first + count - 1 |->
            [kind |-> "overflow", next |-> IF n = first + count - 1 THEN 0 ELSE n + 1,
             bytes |-> SubSeq(rest, room * (n - first) + 1, Min({Len(rest), room * (n - first + 1)}))]]

\* Rows of a table from page base: a leaf, or an interior page and two leaves;
\* the n-th row overflows to page base + 3n.
LayTable(rows, base, split) ==
    LET payload[k \in DOMAIN rows] == PayloadOf(rows[k][2])
        local(k) == L!LocalPayload(Len(payload[k]))
        rest(k) == SubSeq(payload[k], local(k) + 1, Len(payload[k]))
        cells[k \in DOMAIN rows] ==
                     [rowid |-> rows[k][1], length |-> Len(payload[k]), bytes |-> SubSeq(payload[k], 1, local(k)),
                      next |-> IF rest(k) = <<>> THEN 0 ELSE base + 3 * k]
        leaf(from, to) == [kind |-> "leaf", cells |-> SubSeq(cells, from, to)]
        trees == IF split THEN base :> [kind |-> "interior", children |-> <<base + 1>>, right |-> base + 2]
                               @@ base + 1 :> leaf(1, 1) @@ base + 2 :> leaf(2, Len(rows))
                 ELSE base :> leaf(1, Len(rows))
    IN  FoldLeft(LAMBDA pages, k : pages @@ Chain(rest(k), base + 3 * k), trees, [k \in DOMAIN rows |-> k])

Text(tokens) == [kind |-> "text", text |-> tokens]
Lay(tables, split) ==
    LET base(k) == 8 + 12 * k
        master == [k \in DOMAIN tables |->
                      <<k, <<Text(<<"table">>), Text(<<tables[k].name>>), Text(<<tables[k].name>>),
                             L!IntValue(base(k)), Text(tables[k].sql)>> >>]
        filled(pages) == [n \in 1..Max(DOMAIN pages) |-> IF n \in DOMAIN pages THEN pages[n] ELSE [kind |-> "zeros"]]
    IN  filled(FoldLeft(LAMBDA pages, k :
                            pages @@ LayTable(tables[k].rows, base(k), split /\ Len(tables[k].rows) > 1),
                        LayTable(master, 1, FALSE), [k \in DOMAIN tables |-> k]))

Frames(file, over, salt) ==
    LET pages == SelectSeq([n \in DOMAIN file |-> n], LAMBDA n : n \notin DOMAIN over \/ over[n] # file[n])
    IN  [k \in DOMAIN pages |-> [page |-> pages[k], salt |-> salt, content |-> file[pages[k]]]]

\* What the process left: all in the file, its last pages lost perhaps, a
\* committed log over an older file, or one that was restarted after a checkpoint.
Left(scene) ==
    LET Stage(old, new) ==
            CASE scene.stage = "file" -> [file |-> SubSeq(new, 1, Len(new) - scene.lost), wal |-> {}]
              [] scene.stage = "log" -> [file |-> old, wal |-> {[salt |-> 2, frames |-> Frames(new, old, 2)]}]
              [] scene.stage = "restarted" ->
                     [file |-> old, wal |-> {[salt |-> 2, frames |-> Frames(new, old, 2) \o Frames(old, <<>>, 1)]}]
    IN  Stage(Lay(scene.old, scene.split), Lay(scene.new, scene.split))

CopyLegacy ==
    /\ Runs("legacy")
    /\ \E left \in {Left(input)} :
       \E first \in {L!Migrate(input.native, left, input.live, input.save)} :
           answer' = [first |-> first, second |-> L!Migrate(first.saved, left, input.live, "done")]

-----------------------------------------------------------------------------
\* What is to be in the native store, from the tables as they were committed.
Rows(name) ==
    LET tables == SelectSeq(input.new, LAMBDA table : table.name = name)
    IN  IF tables = <<>> THEN <<>> ELSE tables[1].rows
Value(row, k) == IF row[2][k].kind = "int" THEN row[2][k].int ELSE IF row[2][k].kind = "null" THEN row[1]
                 ELSE row[2][k].text

\* The first open copies what was committed, row by row, whatever the size of
\* the rows and wherever the log stands; a store that has documents or a
\* database that has none changes nothing; of a file that was cut short only
\* rows that were there are copied; and a second open copies nothing unless
\* the first could not save what it copied, and then the same
\* (SqliteDb, apply_wal, read_db, migrate_if_needed).
LegacyCopied ==
    Answered("legacy") =>
        LET first == answer.first
            store == first.store
            ids(rows, k) == [n \in DOMAIN rows |-> Value(rows[n], k)]
            of(rows, field) == [n \in DOMAIN rows |-> rows[n][field]]
            occupied == input.native.documents # <<>> \/ input.native.chunks # <<>>
            taken == store # input.native
        IN  /\ first.outcome = "copied" <=> taken /\ input.save = "done"
            /\ first.saved = IF input.save = "unwritten" THEN input.native ELSE store
            /\ occupied => first.outcome = "kept" /\ ~taken
            /\ input.lost = 0 /\ ~occupied /\ Rows("documents") \o Rows("chunks") # <<>> => taken
            /\ taken =>
                  /\ ToSet(of(store.documents, "path")) \subseteq ToSet(ids(Rows("documents"), 1))
                  /\ input.lost = 0 =>
                        /\ of(store.documents, "path") = ids(Rows("documents"), 1)
                        /\ of(store.chunks, "id") = ids(Rows("chunks"), 1)
                        /\ of(store.chunks, "content") = ids(Rows("chunks"), 3)
                        /\ of(store.annotations, "id") = ids(Rows("annotations"), 1)
                        /\ Len(store.symbols) + Len(store.dynamic) = Len(Rows("symbols"))
                        /\ \A k, n \in DOMAIN store.dynamic : store.dynamic[k].id = store.dynamic[n].id => k = n
                  /\ \A note \in ToSet(store.annotations) : note.id <= store.next
                  /\ \A doc \in ToSet(store.documents) : input.lost = 0 =>
                        doc.chunk_count = Cardinality({k \in DOMAIN store.chunks : store.chunks[k].path = doc.path})
                  /\ answer.second.outcome = IF first.saved = store THEN "kept" ELSE "copied"
            /\ answer.second.store = store /\ answer.second.saved = store

-----------------------------------------------------------------------------

CONSTANTS MAX_CHAIN, NICE, LAZY, WIDTH, MAX_MATCH, Hash(_),
          Payloads,      \* what is compressed
          Streams        \* what others compressed: blocks [form, tokens, dists]

Z == INSTANCE Compression WITH WINDOW <- WIDTH

InflateInputs ==
    Chosen("inflate") /\ input \in [data : Payloads, blocks : {<<>>}] \cup [data : {<<>>}, blocks : Streams]

\* What tokens stand for.
RECURSIVE CopyOf(_, _, _), Expanded(_)
CopyOf(text, dist, n) == IF n = 0 THEN text ELSE CopyOf(Append(text, text[Len(text) - dist + 1]), dist, n - 1)
Expanded(tokens) ==
    IF tokens = <<>> THEN <<>>
    ELSE LET text == Expanded(Front(tokens))
         IN  IF "byte" \in DOMAIN Last(tokens) THEN Append(text, Last(tokens).byte)
             ELSE CopyOf(text, Last(tokens).dist, Last(tokens).len)

\* The code word of a symbol: the words of one length follow each other, after
\* all shorter ones.
CodeWord(lengths, symbol) ==
    LET sooner == {other \in DOMAIN lengths : \/ lengths[other] < lengths[symbol]
                                              \/ lengths[other] = lengths[symbol] /\ other < symbol}
        code == FoldSet(LAMBDA other, sum : sum + 2 ^ (lengths[symbol] - lengths[other]), 0, sooner)
    IN  Z!High(code, lengths[symbol])

Row(bases, last, n) == IF n = bases[last + 1] THEN last ELSE Max({k \in 0..last - 1 : bases[k + 1] <= n})
TokenWord(lits, dists, token) ==
    LET length == Row(Z!LenBase, 28, token.len)
        from == Row(Z!DistBase, 29, token.dist)
    IN  IF "byte" \in DOMAIN token THEN CodeWord(lits, token.byte)
        ELSE CodeWord(lits, 257 + length) \o Z!Low(token.len - Z!LenBase[length + 1], Z!LenExtraBits(length))
             \o CodeWord(dists, from) \o Z!Low(token.dist - Z!DistBase[from + 1], Z!DistExtraBits(from))
Words(lits, dists, tokens) ==
    FlattenSeq([k \in DOMAIN tokens |-> TokenWord(lits, dists, tokens[k])]) \o CodeWord(lits, 256)

\* The lengths of a code, runs of them written short.
FixedLengths == [s \in 0..287 |-> IF s < 144 THEN 8 ELSE IF s < 256 THEN 9 ELSE IF s < 280 THEN 7 ELSE 8]
LitLengths == 0 :> 2 @@ 1 :> 2 @@ 255 :> 3 @@ 256 :> 3 @@ 257 :> 3 @@ 285 :> 3
ClLengths == [s \in {0, 1, 2, 3, 16, 17, 18} |-> IF s = 18 THEN 2 ELSE 3]
RECURSIVE Shortened(_, _)
Shortened(lengths, at) ==
    LET run == CHOOSE n \in 1..Len(lengths) - at + 1 :
                   /\ at + n > Len(lengths) \/ lengths[at + n] # lengths[at]
                   /\ \A k \in at..at + n - 1 : lengths[k] = lengths[at]
        some(symbol, least, bits) ==
            LET n == Min({run, least + 2 ^ bits - 1})
            IN  CodeWord(ClLengths, symbol) \o Z!Low(n - least, bits) \o Shortened(lengths, at + n)
    IN  CASE at > Len(lengths) -> <<>>
          [] lengths[at] = 0 /\ run >= 11 -> some(18, 11, 7)
          [] lengths[at] = 0 /\ run >= 3 -> some(17, 3, 3)
          [] at > 1 /\ lengths[at - 1] = lengths[at] /\ run >= 3 -> some(16, 3, 2)
          [] OTHER -> CodeWord(ClLengths, lengths[at]) \o Shortened(lengths, at + 1)
Spread(lengths, last) == [k \in 1..last + 1 |-> IF k - 1 \in DOMAIN lengths THEN lengths[k - 1] ELSE 0]

BlockBits(block, at) ==
    LET text == Expanded(block.tokens)
        lits == Spread(LitLengths, 285)
        dists == Spread(block.dists, Max(DOMAIN block.dists))
    IN  CASE block.form = "stored" ->
                 <<0, 0>> \o [k \in 1..(8 - ((at + 2) % 8)) % 8 |-> 0] \o Z!Low(Len(text), 16) \o Z!Low(65535 - Len(text), 16)
                 \o FlattenSeq([k \in DOMAIN text |-> Z!Low(text[k], 8)])
          [] block.form = "fixed" -> <<1, 0>> \o Words(FixedLengths, [s \in 0..31 |-> 5], block.tokens)
          [] block.form = "dynamic" ->
                 <<0, 1>> \o Z!Low(Len(lits) - 257, 5) \o Z!Low(Len(dists) - 1, 5) \o Z!Low(14, 4)
                 \o FlattenSeq([k \in 1..18 |-> Z!Low(IF Z!ClOrder[k] \in DOMAIN ClLengths THEN ClLengths[Z!ClOrder[k]] ELSE 0, 3)])
                 \o Shortened(lits \o dists, 1) \o Words(LitLengths, block.dists, block.tokens)
Stream(blocks) ==
    LET bits == FoldLeft(LAMBDA out, k : Append(out, IF k = Len(blocks) THEN 1 ELSE 0) \o BlockBits(blocks[k], Len(out) + 1),
                         <<>>, [k \in DOMAIN blocks |-> k])
    IN  <<120, 156>> \o Z!Packed(bits) \o <<0, 0, 0, 0>>

Deflate ==
    /\ Runs("inflate")
    /\ answer' = [back |-> Z!ZlibDecode(Z!Compress(input.data)),
                  read |-> IF input.blocks = <<>> THEN {<<>>} ELSE Z!ZlibDecode(Stream(input.blocks))]

\* What is compressed inflates to itself, over distances and lengths of every
\* row; and a stream that another encoder made of any blocks inflates to what
\* its tokens stand for (compress, zlib_decode).
InflatesBack ==
    Answered("inflate") =>
        /\ answer.back = {input.data}
        /\ answer.read = {FlattenSeq([k \in DOMAIN input.blocks |-> Expanded(input.blocks[k].tokens)])}
=============================================================================
