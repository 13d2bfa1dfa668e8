---------------------------- MODULE SymbolGraph ----------------------------
(***************************************************************************)
(* The symbol graph: the edges made from the symbols that were extracted   *)
(* (src/src/symbols/edges.rs) and the tools that read it (find_definition, *)
(* find_references, impact_radius and coupling of engine/query.rs).        *)
(*                                                                         *)
(* A symbol is [name, kind, role, path, chunk, line]; a path is a sequence *)
(* of directories, a stem and an extension.  A stem that marks a test is   *)
(* <<"test_", name>> or <<name, "_test">>, any other <<name>>.  A module   *)
(* name is [relative, parts, ext], its parts split at "." or "/".          *)
(***************************************************************************)
EXTENDS Integers, Sequences, SequencesExt, FiniteSetsExt, Functions

CONSTANTS NOISE,        \* names too common to follow
          NoExt,        \* no extension, and no language
          LanguageOf(_), \* of an extension
          Above(_, _)    \* the order of two symbols: path, then line

ImportExts == {NoExt, ".js", ".jsx", ".ts", ".tsx", ".mjs", ".cjs"}
WebExts == {".js", ".jsx", ".ts", ".tsx", ".mjs", ".cjs", ".css", ".scss", ".less"}

Dirs(path) == Front(Front(path))
Stem(path) == path[Len(path) - 1]
Ext(path) == Last(path)

\* Does path name the file of module?  A dotted name needs a directory above
\* its file; a relative one may also name an index file.
ModuleMatches(module, path) ==
    LET names == Front(path)
        Plain(parts) == [i \in DOMAIN parts |-> IF i = Len(parts) THEN <<parts[i]>> ELSE parts[i]]
        Ends(parts) == IsSuffix(Plain(parts), names)
        Below(parts) == Ends(parts) /\ Len(names) > Len(parts)
    IN  IF module.parts = <<>> THEN FALSE
        ELSE IF module.relative
        THEN \/ Ends(module.parts) /\ (IF module.ext = NoExt THEN Ext(path) \in ImportExts
                                       ELSE Ext(path) = module.ext)
             \/ /\ module.ext = NoExt /\ Ext(path) \in {".js", ".ts"}
                /\ Ends(Append(module.parts, "index"))
        ELSE \/ module.ext = NoExt /\ Ext(path) = ".py" /\ Below(module.parts)
             \/ module.ext = NoExt /\ Ext(path) = ".py" /\ Below(Append(module.parts, "__init__"))
             \/ module.ext \in WebExts /\ Ext(path) = module.ext /\ Ends(module.parts)

IsTest(path) ==
    \/ Stem(path)[1] = "test_" \/ Last(Stem(path)) = "_test"
    \/ \E i \in DOMAIN Dirs(path) : Dirs(path)[i] \in {"test", "tests"}
    \/ Ext(path) = NoExt /\ Stem(path) \in {<<"test">>, <<"tests">>}

Edge(source, target, kind, name) ==
    [source |-> source, target |-> target, kind |-> kind, name |-> name]

Definitions(symbols) == SelectSeq(symbols, LAMBDA sym : sym.role = "definition")
References(symbols) == SelectSeq(symbols, LAMBDA sym : sym.role = "reference")

\* Short and noisy names are not followed.
Followed(sym) == sym.role = "reference" /\ sym.name \notin NOISE

\* The definitions a reference stands for: those of its name; for the name of
\* a module that none defines, the first file that it names; and of several,
\* those in the files of modules that its chunk refers to.
Targets(symbols, sym) ==
    LET defs == ToSet(Definitions(symbols))
        named == {def \in defs : def.name = sym.name}
        files == SelectSeq(Definitions(symbols), LAMBDA def : ModuleMatches(sym.name, def.path))
        hints == {s.name : s \in {t \in ToSet(References(symbols)) :
                                     t.kind = "module" /\ t.chunk = sym.chunk}}
        hinted == {def \in named : \E module \in hints : ModuleMatches(module, def.path)}
    IN  CASE named = {} /\ sym.kind = "module" /\ files # <<>> -> {Head(files)}
          [] Cardinality(named) > 1 /\ hinted # {}             -> hinted
          [] OTHER                                             -> named

Resolved(symbols) ==
    {Edge(pair[1].chunk, pair[2].chunk,
          IF pair[1].path = pair[2].path THEN "intra_file" ELSE "cross_file", pair[1].name) :
        pair \in {p \in UNION {{sym} \X Targets(symbols, sym) :
                                   sym \in {s \in ToSet(symbols) : Followed(s)}} :
                     p[1].chunk # p[2].chunk}}

\* A test is joined to the files whose name it bears or whose module it names,
\* by the chunks of their first symbols.  The stem of a file without extension
\* is its whole path.
TestEdges(symbols) ==
    LET paths == {sym.path : sym \in ToSet(symbols)}
        FirstChunk(path) == Head(SelectSeq(symbols, LAMBDA sym : sym.path = path)).chunk
        Whole(path) == IF Ext(path) = NoExt THEN Front(path) ELSE <<Stem(path)>>
        Bears(test, source) ==
            Whole(source) \in {Whole(test)} \cup
                (IF Stem(test)[1] = "test_" THEN {<<Tail(Stem(test))>>} ELSE {}) \cup
                (IF Last(Stem(test)) = "_test" THEN {Append(Front(Whole(test)), Front(Stem(test)))} ELSE {})
        Names(test, source) ==
            \E sym \in ToSet(References(symbols)) :
                /\ sym.path = test /\ sym.kind \in {"module", "import"}
                /\ ModuleMatches(sym.name, source)
    IN  {Edge(FirstChunk(pair[1]), FirstChunk(pair[2]), "test_of",
               [relative |-> FALSE, parts |-> <<"test">>, ext |-> NoExt]) :
            pair \in {p \in paths \X paths :
                         IsTest(p[1]) /\ ~IsTest(p[2]) /\ (Bears(p[1], p[2]) \/ Names(p[1], p[2]))}}

Build(symbols) == Resolved(symbols) \cup TestEdges(symbols)

-----------------------------------------------------------------------------
(* The tools.  chunks is the set of chunks in memory, [id, path].          *)

PathOf(chunks, id) == {chunk.path : chunk \in {c \in chunks : c.id = id}}

\* One step of the search: the oldest entry of the queue is looked at once,
\* and what refers to it is queued while the depth allows.
ImpactStep_Newest(edges, depth, acc) ==
    IF acc.queue = <<>> THEN acc
    ELSE LET at == Last(acc.queue)
             rest == Front(acc.queue)
             callers == SetToSeq({edge.source : edge \in {e \in edges : e.target = at.id}})
         IN  IF at.hop > depth \/ at.id \in DOMAIN acc.hops THEN [acc EXCEPT !.queue = rest]
             ELSE [queue |-> rest \o (IF at.hop < depth
                                      THEN [i \in DOMAIN callers |-> [id |-> callers[i], hop |-> at.hop + 1]]
                                      ELSE <<>>),
                   hops |-> [id \in DOMAIN acc.hops \cup {at.id} |->
                                IF id = at.id THEN at.hop ELSE acc.hops[id]]]

ImpactStep(edges, depth, acc) ==
    IF acc.queue = <<>> THEN acc
    ELSE LET at == Head(acc.queue)
             rest == Tail(acc.queue)
             callers == SetToSeq({edge.source : edge \in {e \in edges : e.target = at.id}})
         IN  IF at.hop > depth \/ at.id \in DOMAIN acc.hops THEN [acc EXCEPT !.queue = rest]
             ELSE [queue |-> rest \o (IF at.hop < depth
                                      THEN [i \in DOMAIN callers |-> [id |-> callers[i], hop |-> at.hop + 1]]
                                      ELSE <<>>),
                   hops |-> [id \in DOMAIN acc.hops \cup {at.id} |->
                                IF id = at.id THEN at.hop ELSE acc.hops[id]]]

\* What depends on the seeds, with its distance; the seeds themselves and
\* chunks that are gone are not shown.
Impact(edges, chunks, seeds, depth) ==
    LET start == [queue |-> [i \in DOMAIN seeds |-> [id |-> seeds[i], hop |-> 0]], hops |-> <<>>]
        steps == Len(seeds) + Cardinality(edges)
        hops == FoldLeft(LAMBDA acc, i : ImpactStep(edges, depth, acc), start,
                         [i \in 1..steps |-> i]).hops
        shown == {id \in DOMAIN hops : /\ ~(id \in ToSet(seeds) /\ hops[id] = 0)
                                       /\ PathOf(chunks, id) # {}}
    IN  [id \in shown |-> hops[id]]

\* The rows of impact_radius: files, with the chunks affected and how far off.
ImpactFiles(chunks, impact) ==
    LET In(path) == {id \in DOMAIN impact : path \in PathOf(chunks, id)}
    IN  [path \in UNION {PathOf(chunks, id) : id \in DOMAIN impact} |->
            [count |-> Cardinality(In(path)), near |-> Min({impact[id] : id \in In(path)}),
             far |-> Max({impact[id] : id \in In(path)})]]

\* The seeds of a symbol, a chunk or a document.
Seeds(symbols, chunks, by, what) ==
    CASE by = "chunk"    -> <<what>>
      [] by = "symbol"   -> LET defs == SelectSeq(Definitions(symbols), LAMBDA def : def.name = what)
                            IN  [i \in DOMAIN defs |-> defs[i].chunk]
      [] by = "document" -> SetToSeq({chunk.id : chunk \in {c \in chunks : c.path = what}})

\* The other files that path's chunks are joined to, by each edge.
CouplingEdges(edges, chunks, path, skipNoise) ==
    LET mine == {chunk.id : chunk \in {c \in chunks : c.path = path}}
        Other(edge) == IF edge.source \in mine THEN edge.target ELSE edge.source
        Joins(peer, edge) == /\ ~(skipNoise /\ edge.name \in NOISE)
                             /\ edge.source \in mine \/ edge.target \in mine
                             /\ PathOf(chunks, Other(edge)) = {peer} /\ peer # path
    IN  {[peer |-> pair[1], outgoing |-> pair[2].source \in mine, edge |-> pair[2]] :
            pair \in {p \in {c.path : c \in chunks} \X edges : Joins(p[1], p[2])}}

Coupling(edges, chunks, path, skipNoise) ==
    LET all == CouplingEdges(edges, chunks, path, skipNoise)
        Of(peer) == {row \in all : row.peer = peer}
        out(peer) == \E row \in Of(peer) : row.outgoing
        in(peer) == \E row \in Of(peer) : ~row.outgoing
    IN  [peer \in {row.peer : row \in all} |->
            [symbols |-> {row.edge.name : row \in Of(peer)},
             count |-> Cardinality(Of(peer)),
             direction |-> CASE out(peer) /\ in(peer)  -> "bidirectional"
                             [] out(peer) /\ ~in(peer) -> "depends_on"
                             [] OTHER                  -> "depended_on_by"]]

Narrow(defs) == {LanguageOf(Ext(def.path)) : def \in defs}

\* References of the languages that define the name; of all languages when
\* none is known to define it.
FindReferences(symbols, name, allLanguages) ==
    LET defs == {def \in ToSet(Definitions(symbols)) : def.name = name}
        refs == {ref \in ToSet(References(symbols)) : ref.name = name}
        shown == IF allLanguages \/ defs = {} \/ NoExt \in Narrow(defs) THEN refs
                 ELSE {ref \in refs : LanguageOf(Ext(ref.path)) \in Narrow(defs)}
    IN  [definitions |-> defs, references |-> shown,
         omitted |-> Cardinality(refs) - Cardinality(shown),
         verdict |-> CASE defs = {} /\ shown = {}  -> "not_found"
                       [] defs # {} /\ shown = {}  -> "unreferenced"
                       [] defs = {} /\ shown # {}  -> "external"
                       [] OTHER                    -> "referenced"]

\* The rows of find_definition: by path and line, and the number of each among
\* the definitions of its file that shadow one another.
FindDefinition(symbols, name) ==
    LET defs == {def \in ToSet(Definitions(symbols)) : def.name = name}
        rows == SetToSortSeq(defs, Above)
        Same(i) == {k \in DOMAIN rows : rows[k].path = rows[i].path}
    IN  [i \in DOMAIN rows |->
            [symbol |-> rows[i],
             shadows |-> IF Cardinality(Same(i)) > 1
                         THEN {<<Cardinality({k \in Same(i) : k <= i}), Cardinality(Same(i))>>}
                         ELSE {}]]
=============================================================================
