------------------------------ MODULE StoreRows ------------------------------
(***************************************************************************)
(* What the snapshot file holds: every row of the state written as a JSON  *)
(* object, read back field by field, and the shortcut that reads only the  *)
(* documents.  A row is a function from its fields; a name or a key is one *)
(* token of the text.                                                      *)
(***************************************************************************)
EXTENDS Json

CONSTANT MemoryWords         \* words that begin with "memory:"

-----------------------------------------------------------------------------
\* Fields of an object: what is missing or of another type is read as empty.

Field(value, key) ==
    IF value.kind # "object" THEN Nothing
    ELSE LET found == {k \in DOMAIN value.pairs : value.pairs[k][1] = <<key>>}
         IN  IF found = {} THEN Nothing ELSE {value.pairs[Min(found)][2]}
Of(kind, value, key) == {item \in Field(value, key) : item.kind = kind}
TheField(items, default) == IF items = {} THEN default ELSE CHOOSE item \in items : TRUE

StringField(value, key) == TheField({item.text : item \in Of("string", value, key)}, <<>>)
IntField(value, key) == TheField({item.int : item \in Of("int", value, key)}, 0)
OptString(value, key) == {item.text : item \in Of("string", value, key)}
Zero == <<"0">>
FloatField(value, key) ==
    TheField({item.float : item \in Of("float", value, key)} \cup {IntText(item.int) : item \in Of("int", value, key)}, Zero)
ArrayField(value, key) == TheField({item.items : item \in Of("array", value, key)}, <<>>)
Strings(items) == LET texts == SelectSeq(items, LAMBDA item : item.kind = "string")
                  IN  [k \in DOMAIN texts |-> texts[k].text]

Each(F(_), rows) == [k \in DOMAIN rows |-> F(rows[k])]

-----------------------------------------------------------------------------
\* Rows that are written field by field: the fields and their types.

Documents == << <<"path", "text">>, <<"mtime_ns", "int">>, <<"size", "int">>, <<"sha256", "text">>,
                <<"doc_version", "int">>, <<"chunk_count", "int">>, <<"indexed_at", "float">> >>
SymbolFields == << <<"name", "text">>, <<"kind", "text">>, <<"role", "text">>, <<"line", "int">>,
                   <<"container", "optional">>, <<"chunk_id", "text">>, <<"path", "text">>, <<"chunk_index", "int">> >>
AnnotationFields == << <<"id", "text">>, <<"path", "text">>, <<"body", "text">>, <<"tags", "texts">>,
                       <<"target_type", "text">>, <<"created_at", "int">>, <<"updated_at", "int">> >>
ConflictFields == << <<"path", "text">>, <<"holder", "text">>, <<"requester", "text">>, <<"at", "int">>, <<"kind", "text">> >>
EdgeFields == << <<"source", "text">>, <<"target", "text">>, <<"kind", "text">>, <<"name", "text">> >>
DynamicFields == << <<"name", "text">>, <<"kind", "text">>, <<"role", "text">>, <<"path", "text">>,
                    <<"agent", "text">>, <<"line", "int">>, <<"chunk_id", "text">>, <<"id", "int">> >>
HistoryFields == << <<"chunk_id", "text">>, <<"version", "int">>, <<"hash", "text">>, <<"at", "int">>, <<"path", "text">> >>
ChangeFields == << <<"at", "int">>, <<"session", "text">>, <<"summary", "text">>, <<"reason", "text">> >>
SearchFields == << <<"session_id", "text">>, <<"pattern", "text">>, <<"tool", "text">>, <<"files_checked", "int">>,
                   <<"files_with_matches", "int">>, <<"searched_at", "float">> >>
LockFields == << <<"path", "text">>, <<"agent", "text">>, <<"until", "int">> >>
ChunkFields == << <<"id", "text">>, <<"path", "text">>, <<"start", "int">>, <<"end", "int">>, <<"content", "text">>,
                  <<"sha256", "text">>, <<"tokens", "int">>, <<"modality", "text">>, <<"language", "optional">>,
                  <<"summary", "optional">>, <<"notes", "optional">>, <<"embedding", "floats">> >>
SessionFields == << <<"id", "text">>, <<"searches", "texts">>, <<"reads", "texts">>, <<"created_at", "int">>,
                    <<"updated_at", "int">>, <<"turn", "int">>, <<"tokens", "int">>, <<"agent", "text">> >>
StateFields == << <<"seq", "int">>, <<"next_annotation", "int">>, <<"inserts", "int">>, <<"next_symbol_id", "int">> >>

ToJson(type, datum) ==
    CASE type = "text" -> String(datum)
      [] type = "int" -> IntOf(datum)
      [] type = "float" -> FloatOf(datum)
      [] type = "optional" -> IF datum = {} THEN Null ELSE String(CHOOSE text \in datum : TRUE)
      [] type = "texts" -> Array(Each(String, datum))
      [] type = "floats" -> Array(Each(FloatOf, datum))

FromJson(type, value, key) ==
    CASE type = "text" -> StringField(value, key)
      [] type = "int" -> IntField(value, key)
      [] type = "float" -> FloatField(value, key)
      [] type = "optional" -> OptString(value, key)
      [] type = "texts" -> Strings(ArrayField(value, key))
      [] type = "floats" -> Each(LAMBDA item : CASE item.kind = "float" -> item.float [] item.kind = "int" -> IntText(item.int)
                                                      [] OTHER -> Zero, ArrayField(value, key))

RowPairs(fields, row) == [k \in DOMAIN fields |-> <<<<fields[k][1]>>, ToJson(fields[k][2], row[fields[k][1]])>>]
RowToJson(fields, row) == Object(RowPairs(fields, row))
RowFromJson(fields, value) ==
    [name \in {fields[k][1] : k \in DOMAIN fields} |->
        FromJson(fields[CHOOSE k \in DOMAIN fields : fields[k][1] = name][2], value, name)]
RowsToJson(fields, rows) == Array([k \in DOMAIN rows |-> RowToJson(fields, rows[k])])
RowsFromJson(fields, value, key) ==
    LET items == ArrayField(value, key) IN [k \in DOMAIN items |-> RowFromJson(fields, items[k])]

-----------------------------------------------------------------------------
\* Rows with more to them.

\* The line map is written when there is one; the version of the chunk and
\* how stale it is are read and never written.
ChunkToJson(chunk) ==
    Object(RowPairs(ChunkFields, chunk)
           \o (IF chunk.line_map = <<>> THEN <<>>
               ELSE << <<<<"line_map">>, Array(Each(LAMBDA pair : Array(<<IntOf(pair[1]), IntOf(pair[2])>>), chunk.line_map))>> >>))
ChunkFromJson(value) ==
    LET whole(item) == item.kind = "array" /\ Len(item.items) = 2 /\ \A n \in ToSet(item.items) : n.kind = "int"
    IN  RowFromJson(ChunkFields, value)
        @@ [version |-> IF IntField(value, "version") = 0 THEN 1 ELSE IntField(value, "version"),
            staleness |-> FloatField(value, "staleness"),
            line_map |-> Each(LAMBDA item : <<item.items[1].int, item.items[2].int>>,
                              SelectSeq(ArrayField(value, "line_map"), whole))]

LockToJson(lock) ==
    Object(RowPairs(LockFields, lock) \o (IF lock.auto THEN << <<<<"auto">>, Bool(TRUE)>> >> ELSE <<>>))
LockFromJson(value) == RowFromJson(LockFields, value) @@ [auto |-> Field(value, "auto") = {Bool(TRUE)}]

Filled(row, name, default) == IF row[name] = <<>> THEN [row EXCEPT ![name] = default] ELSE row
ConflictFromJson(value) == Filled(RowFromJson(ConflictFields, value), "kind", <<"lock_stolen">>)
DynamicFromJson(value) == Filled(RowFromJson(DynamicFields, value), "role", <<"definition">>)

KvFields == << <<"k", "text">>, <<"v", "text">> >>
KvStateFields == << <<"chunk_id", "text">>, <<"turn", "int">>, <<"data", "text">> >>
SessionToJson(session) ==
    Object(RowPairs(SessionFields, session) \o << <<<<"kv">>, RowsToJson(KvFields, session.kv)>>,
                                                  <<<<"kv_state">>, RowsToJson(KvStateFields, session.kv_state)>> >>)
\* What was attached is not written: it comes back from the payloads.
SessionFromJson(value) ==
    LET payloads == RowsFromJson(KvStateFields, value, "kv_state")
    IN  RowFromJson(SessionFields, value)
        @@ [kv |-> RowsFromJson(KvFields, value, "kv"), kv_state |-> payloads,
            attached |-> Each(LAMBDA row : [chunk_id |-> row.chunk_id, turn |-> row.turn], payloads)]

-----------------------------------------------------------------------------
\* The state.

Key(name) == <<name>>
StateToJson(state) ==
    LET all(F(_), rows) == Array(Each(F, rows))
    IN  Object(<< <<Key("version"), IntOf(1)>>, <<Key("seq"), IntOf(state.seq)>>,
                  <<Key("documents"), RowsToJson(Documents, state.documents)>>,
                  <<Key("chunks"), all(ChunkToJson, state.chunks)>>,
                  <<Key("symbols"), RowsToJson(SymbolFields, state.symbols)>>,
                  <<Key("annotations"), RowsToJson(AnnotationFields, state.annotations)>>,
                  <<Key("locks"), all(LockToJson, state.locks)>>,
                  <<Key("conflicts"), RowsToJson(ConflictFields, state.conflicts)>>,
                  <<Key("edges"), RowsToJson(EdgeFields, state.edges)>>,
                  <<Key("sessions"), all(SessionToJson, state.sessions)>>,
                  <<Key("dynamic"), RowsToJson(DynamicFields, state.dynamic)>>,
                  <<Key("change_log"), RowsToJson(ChangeFields, state.change_log)>>,
                  <<Key("next_annotation"), IntOf(state.next_annotation)>>,
                  <<Key("inserts"), IntOf(state.inserts)>>,
                  <<Key("next_symbol_id"), IntOf(state.next_symbol_id)>>,
                  <<Key("symbol_lines"), String(<<IF state.symbol_lines THEN "file" ELSE "chunk">>)>>,
                  <<Key("chunk_history"), RowsToJson(HistoryFields, state.chunk_history)>>,
                  <<Key("search_log"), RowsToJson(SearchFields, state.search_log)>> >>)

StateFromJson(value) ==
    LET all(F(_), key) == Each(F, ArrayField(value, key))
    IN  RowFromJson(StateFields, value)
        @@ [documents |-> RowsFromJson(Documents, value, "documents"),
            chunks |-> all(ChunkFromJson, "chunks"),
            symbols |-> RowsFromJson(SymbolFields, value, "symbols"),
            annotations |-> RowsFromJson(AnnotationFields, value, "annotations"),
            locks |-> all(LockFromJson, "locks"),
            conflicts |-> all(ConflictFromJson, "conflicts"),
            edges |-> RowsFromJson(EdgeFields, value, "edges"),
            sessions |-> all(SessionFromJson, "sessions"),
            dynamic |-> all(DynamicFromJson, "dynamic"),
            change_log |-> RowsFromJson(ChangeFields, value, "change_log"),
            symbol_lines |-> StringField(value, "symbol_lines") = <<"file">>,
            chunk_history |-> RowsFromJson(HistoryFields, value, "chunk_history"),
            search_log |-> RowsFromJson(SearchFields, value, "search_log")]

LoadSnapshot(text) == {StateFromJson(value) : value \in Parse(text)}

RECURSIVE Closing(_, _, _, _, _)

\* Mutant: brackets in strings count.
Closing_AnyBracket(text, k, depth, in, escape) ==
    LET now == depth + (IF At(text, k) = "[" THEN 1 ELSE IF At(text, k) = "]" THEN -1 ELSE 0)
    IN  IF k > Len(text) \/ (At(text, k) = "]" /\ now = 0) THEN k ELSE Closing(text, k + 1, now, FALSE, FALSE)

\* The bracket that closes the array that opens at k, strings and escapes skipped.
Closing(text, k, depth, in, escape) ==
    LET char == At(text, k)
        now == depth + (IF char = "[" THEN 1 ELSE IF char = "]" THEN -1 ELSE 0)
    IN  IF k > Len(text) THEN k
        ELSE IF in THEN Closing(text, k + 1, depth, escape \/ char # "\"", ~escape /\ char = "\\")
        ELSE IF char = "]" /\ now = 0 THEN k ELSE Closing(text, k + 1, now, char = "\"", FALSE)

\* The documents cut out of the text without parsing the rest.
DocumentsArray(text) ==
    LET keys == {k \in DOMAIN text : text[k] = "documents" /\ SubSeq(text, k - 1, k + 2) = <<"\"", "documents", "\"", ":">>}
        begin == Skip(text, Min(keys) + 3)
        end == Closing(text, begin, 0, FALSE, FALSE)
    IN  IF keys = {} \/ At(text, begin) # "[" \/ end > Len(text) THEN Nothing ELSE {SubSeq(text, begin, end)}

LoadDocumentsOnly(text) ==
    {[documents |-> [k \in DOMAIN rows.items |-> RowFromJson(Documents, rows.items[k])],
      memory_hint |-> \E k \in 1..Len(text) - 1 : text[k] = "\"" /\ text[k + 1] \in MemoryWords] :
        rows \in UNION {Parse(slice) : slice \in DocumentsArray(text)}}
=============================================================================
