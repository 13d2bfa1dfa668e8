------------------------------ MODULE LegacyDb ------------------------------
(***************************************************************************)
(* The copy of a Python 1.5 database into the native store: the read-only  *)
(* SQLite reader (write-ahead log, table b-trees, overflow pages, records) *)
(* and migrate_if_needed.                                                  *)
(*                                                                         *)
(* A file is a function from page numbers to pages; a page is a leaf with  *)
(* cells, an interior page with children, an overflow page, or another.  A *)
(* payload is a sequence of bytes, a text in it one token to a byte.       *)
(***************************************************************************)
EXTENDS Integers, Sequences, SequencesExt, FiniteSetsExt, Functions

CONSTANTS USABLE,        \* bytes of a page that are used
          VECTOR,        \* bytes of a signature
          Estimate(_),   \* the tokens of a text, at least one
          Signature(_),  \* and its signature
          RuntimeAgent(_) \* the agent in a chunk id "runtime:<agent>:...", {} of any other

\* Nothing, or the one thing that was read.
Nothing == {}
The(some) == CHOOSE x \in some : TRUE

-----------------------------------------------------------------------------
\* Numbers and records.

\* Seven bits a byte, the high bit set on all but the last of nine at most.
Varint(bytes, at) ==
    LET ends == {k \in at..Min({at + 8, Len(bytes)}) : (\A j \in at..k - 1 : bytes[j] >= 128) /\ bytes[k] < 128}
        end == Min(ends)
    IN  IF ends = {} THEN Nothing
        ELSE {[value |-> FoldLeft(LAMBDA n, byte : 128 * n + (byte % 128), 0, SubSeq(bytes, at, end)), next |-> end + 1]}

Signed(bytes) ==
    FoldLeft(LAMBDA n, byte : 256 * n + byte, IF bytes[1] >= 128 THEN bytes[1] - 256 ELSE bytes[1], Tail(bytes))

Null == [kind |-> "null"]
IntValue(n) == [kind |-> "int", int |-> n]
Width(serial) ==
    CASE serial \in 1..4 -> serial [] serial = 5 -> 6 [] serial \in {6, 7} -> 8
      [] serial >= 12 -> (serial - 12) \div 2 [] OTHER -> 0

ReadSerial(payload, at, serial) ==
    LET bytes == SubSeq(payload, at, at + Width(serial) - 1)
        value == CASE serial = 0 -> Null
                   [] serial \in 1..6 -> IntValue(Signed(bytes))
                   [] serial = 7 -> [kind |-> "float", bits |-> bytes]
                   [] serial \in {8, 9} -> IntValue(serial - 8)
                   [] serial >= 12 -> [kind |-> IF serial % 2 = 0 THEN "blob" ELSE "text", text |-> bytes]
    IN  IF serial \in {10, 11} \/ at + Width(serial) - 1 > Len(payload) THEN Nothing ELSE {value}

\* The values of a record, in a set; none when it is cut short.
RECURSIVE Serials(_, _, _)
Serials(payload, at, end) ==
    LET serial == Varint(payload, at)
    IN  IF at > end THEN {<<>>}
        ELSE IF serial = Nothing THEN Nothing
        ELSE {<<The(serial).value>> \o rest : rest \in Serials(payload, The(serial).next, end)}

RECURSIVE Values(_, _, _)
Values(payload, at, serials) ==
    IF serials = <<>> THEN {<<>>}
    ELSE {<<pair[1]>> \o pair[2] : pair \in ReadSerial(payload, at, Head(serials)) \X
                                              Values(payload, at + Width(Head(serials)), Tail(serials))}

ParseRecord(payload) ==
    LET header == Varint(payload, 1)
        size == The(header).value
    IN  IF header = Nothing \/ size > Len(payload) THEN Nothing
        ELSE UNION {Values(payload, size + 1, serials) : serials \in Serials(payload, The(header).next, size)}

-----------------------------------------------------------------------------
\* Pages.

\* The part of a payload that stays in the leaf.
LocalPayload(payload) ==
    LET most == USABLE - 35
        least == Max({0, ((USABLE - 12) * 32) \div 255 - 23})
        some == least + ((payload - least) % (USABLE - 4))
    IN  IF payload <= most THEN payload ELSE IF some <= most THEN some ELSE least

\* The rest of a payload: page after page to the length it has, or nothing
\* when one of them is not in the file.
RECURSIVE Overflow(_, _, _)
Overflow(file, page, missing) ==
    IF missing <= 0 \/ page = 0 THEN {<<>>}
    ELSE IF page \notin DOMAIN file THEN Nothing
    ELSE LET bytes == file[page].bytes
             taken == SubSeq(bytes, 1, Min({missing, Len(bytes)}))
         IN  {taken \o rest : rest \in Overflow(file, file[page].next, missing - Len(taken))}

\* A record that cannot be read is left out.
LeafRecord(file, cell) ==
    LET local == SubSeq(cell.bytes, 1, LocalPayload(cell.length))
        rests == IF cell.length > Len(local) THEN Overflow(file, cell.next, cell.length - Len(local)) ELSE {<<>>}
    IN  {[rowid |-> cell.rowid, values |-> values] :
            values \in UNION {ParseRecord(local \o rest) : rest \in rests}}

\* The records below a page, in order; a page that is missing is an error,
\* one of another kind has none.
RECURSIVE WalkPage(_, _)
WalkPage(file, page) ==
    LET below(pages) == [k \in DOMAIN pages |-> WalkPage(file, pages[k])]
        rows(lists) == FlattenSeq([k \in DOMAIN lists |-> The(lists[k])])
    IN  IF page \notin DOMAIN file THEN Nothing
        ELSE CASE file[page].kind = "interior" ->
                    LET lists == below(file[page].children
                                       \o (IF file[page].right = 0 THEN <<>> ELSE <<file[page].right>>))
                    IN  IF \E k \in DOMAIN lists : lists[k] = Nothing THEN Nothing ELSE {rows(lists)}
               [] file[page].kind = "leaf" ->
                    LET cells == file[page].cells
                        records == SelectSeq([k \in DOMAIN cells |-> LeafRecord(file, cells[k])],
                                             LAMBDA record : record # Nothing)
                    IN  {[k \in DOMAIN records |-> The(records[k])]}
               [] OTHER -> {<<>>}

\* Mutant: frames of an earlier log are applied.
ApplyWal_AnySalt(file, wal) ==
    FoldLeft(LAMBDA pages, frame : (frame.page :> frame.content) @@ pages, file, wal.frames)

\* The frames of the log as it is now, committed or not, to the first of an
\* earlier one; a page past the end makes the file longer.
ApplyWal(file, wal) ==
    LET old == {k \in DOMAIN wal.frames : wal.frames[k].salt # wal.salt \/ wal.frames[k].page = 0}
        live == IF old = {} THEN wal.frames ELSE SubSeq(wal.frames, 1, Min(old) - 1)
        size(pages) == Max({0} \cup DOMAIN pages)
        put(pages, frame) ==
            [n \in 1..Max({size(pages), frame.page}) |->
                IF n = frame.page THEN frame.content ELSE IF n \in DOMAIN pages THEN pages[n] ELSE [kind |-> "zeros"]]
    IN  FoldLeft(put, file, live)

-----------------------------------------------------------------------------
\* Tables.

TextAt(row, k) == IF k \in DOMAIN row /\ row[k].kind = "text" THEN row[k].text ELSE <<>>
IntAt(row, k) == IF k \in DOMAIN row /\ row[k].kind = "int" THEN row[k].int ELSE 0

\* The names in a CREATE TABLE, a sequence of tokens: the first word of each
\* piece between commas that are in no inner brackets.
Constraint == {"primary", "unique", "check", "foreign", "constraint"}
ColumnNames(sql) ==
    LET opens == {k \in DOMAIN sql : sql[k] = "("}
        depth(k) == Cardinality({j \in DOMAIN sql : j <= k /\ sql[j] = "("})
                    - Cardinality({j \in DOMAIN sql : j < k /\ sql[j] = ")"})
        end == Min({k \in DOMAIN sql : sql[k] = ")" /\ depth(k) = 1} \cup {Len(sql) + 1})
        starts(k) == k = Min(opens) + 1 \/ (k > 1 /\ sql[k - 1] = "," /\ depth(k - 1) = 1)
        firsts == SelectSeq([k \in 1..end - 1 |-> k], LAMBDA k : starts(k) /\ sql[k] \notin Constraint)
    IN  IF opens = {} THEN <<>> ELSE [n \in DOMAIN firsts |-> sql[firsts[n]]]

\* A row is a function from names; an integer key is the number of its row.
Row(record, columns) ==
    [column \in {columns[k] : k \in DOMAIN columns \cap DOMAIN record.values} |->
        LET value == record.values[CHOOSE k \in DOMAIN columns : columns[k] = column]
        IN  IF column = "id" /\ value = Null THEN IntValue(record.rowid) ELSE value]

\* The rows of a table, in a set: none when a page is missing.
Table(file, name) ==
    LET found(masters) == {k \in DOMAIN masters : /\ TextAt(masters[k].values, 1) = <<"table">>
                                                  /\ TextAt(masters[k].values, 2) = <<name>>}
        rows(master) ==
            IF IntAt(master, 4) = 0 THEN {<<>>}
            ELSE {[k \in DOMAIN list |-> Row(list[k], ColumnNames(TextAt(master, 5)))] :
                     list \in WalkPage(file, IntAt(master, 4))}
    IN  UNION {IF found(masters) = {} THEN {<<>>} ELSE rows(masters[Min(found(masters))].values) :
                  masters \in WalkPage(file, 1)}

TextOf(row, column) == IF column \in DOMAIN row /\ row[column].kind = "text" THEN row[column].text ELSE <<>>
NumberOf(row, column) == IF column \in DOMAIN row /\ row[column].kind = "int" THEN row[column].int ELSE 0
BlobOf(row, column) == IF column \in DOMAIN row /\ row[column].kind = "blob" THEN row[column].text ELSE <<>>

-----------------------------------------------------------------------------
\* migrate_if_needed.  live(path) is the file as it is: its size and mtime,
\* or size 0 when there is none.

NoState == [documents |-> <<>>, chunks |-> <<>>, symbols |-> <<>>, dynamic |-> <<>>, annotations |-> <<>>,
            sessions |-> <<>>, next |-> 0]

LiveStat(live, path, recorded) ==
    IF path \in DOMAIN live /\ (recorded = 0 \/ live[path].size = recorded)
    THEN [mtime |-> live[path].mtime, size |-> live[path].size] ELSE [mtime |-> 0, size |-> recorded]

Document(row, live, chunks) ==
    LET path == TextOf(row, "document_path")
    IN  [path |-> path, stat |-> LiveStat(live, path, NumberOf(row, "file_size")),
         chunk_count |-> Cardinality({k \in DOMAIN chunks : TextOf(chunks[k], "document_path") = path
                                                            /\ TextOf(chunks[k], "chunk_id") # <<>>})]
Chunk(row) ==
    LET content == TextOf(row, "content")
        blob == BlobOf(row, "semantic_signature")
        tokens == NumberOf(row, "token_count")
    IN  [id |-> TextOf(row, "chunk_id"), path |-> TextOf(row, "document_path"), content |-> content,
         signature |-> IF Len(blob) = VECTOR THEN blob ELSE Signature(content),
         tokens |-> IF tokens = 0 THEN Estimate(content) ELSE tokens]
Symbol(row) == [name |-> TextOf(row, "name"), chunk |-> TextOf(row, "chunk_id")]
\* A runtime symbol keeps its number, or takes the next place.
Dynamic(row, before) ==
    [name |-> TextOf(row, "name"), agent |-> The(RuntimeAgent(TextOf(row, "chunk_id"))),
     id |-> IF NumberOf(row, "id") = 0 THEN before + 1 ELSE NumberOf(row, "id")]
Annotation(row) == [id |-> NumberOf(row, "id"), path |-> TextOf(row, "target"), body |-> TextOf(row, "content")]

Map(F(_), rows) == [k \in DOMAIN rows |-> F(rows[k])]

\* The documents and the chunks, or nothing; what cannot be read of the
\* other tables is left out.
ReadTables(tables, live) ==
    LET rows(name) == IF tables[name] = Nothing THEN <<>> ELSE The(tables[name])
        documents == SelectSeq(rows("documents"), LAMBDA row : TextOf(row, "document_path") # <<>>)
        chunks == SelectSeq(rows("chunks"), LAMBDA row : TextOf(row, "chunk_id") # <<>>)
        named == SelectSeq(rows("symbols"), LAMBDA row : TextOf(row, "name") # <<>>)
        runtime == SelectSeq([k \in DOMAIN named |-> [row |-> named[k], before |-> k - 1]],
                             LAMBDA at : RuntimeAgent(TextOf(at.row, "chunk_id")) # {})
        notes == Map(Annotation, rows("annotations"))
    IN  IF tables.documents = Nothing \/ tables.chunks = Nothing THEN Nothing
        ELSE {[documents |-> Map(LAMBDA row : Document(row, live, chunks), documents),
               chunks |-> Map(Chunk, chunks),
               symbols |-> Map(Symbol, SelectSeq(named, LAMBDA row : RuntimeAgent(TextOf(row, "chunk_id")) = {})),
               dynamic |-> [k \in DOMAIN runtime |-> Dynamic(runtime[k].row, runtime[k].before)],
               annotations |-> notes,
               sessions |-> Map(LAMBDA row : TextOf(row, "session_id"), rows("sessions")),
               next |-> Max({0} \cup {notes[k].id : k \in DOMAIN notes})]}

ReadDb(file, live) ==
    ReadTables([name \in {"documents", "chunks", "symbols", "annotations", "sessions"} |-> Table(file, name)], live)

\* The rows in memory after an open, and those saved: only an empty store is
\* filled, and only by a database that has something.  The copy is in memory
\* before it is saved, and the save may fail: "unwritten" before it replaced
\* the snapshot, "unlogged" in the journal after it.
Migrate(native, legacy, live, save) ==
    LET file == IF legacy.wal = Nothing THEN legacy.file ELSE ApplyWal(legacy.file, The(legacy.wal))
        left(outcome) == [outcome |-> outcome, store |-> native, saved |-> native]
        filled(copy) == [outcome |-> IF save = "done" THEN "copied" ELSE "failed", store |-> copy,
                         saved |-> IF save = "unwritten" THEN native ELSE copy]
        found == {copied \in ReadDb(file, live) : copied.documents # <<>> \/ copied.chunks # <<>>}
    IN  IF native.documents # <<>> \/ native.chunks # <<>> THEN left("kept")
        ELSE IF found = Nothing THEN left("failed")
        ELSE filled(The(found))
=============================================================================
