----------------------------- MODULE GraphTasks -----------------------------
(***************************************************************************)
(* The symbols of a few files become a graph, which tools follow.          *)
(***************************************************************************)
EXTENDS Tasks

CONSTANTS NOISE, NoExt, LanguageOf(_), Above(_, _),
          SymbolLists,        \* lists of symbols, in the order of the index
          ChunkPaths,         \* the chunks of the impact task: id -> path
          Referrals,          \* sets of pairs of them, who refers to whom
          Depths              \* how far to follow

ASSUME ReferralsAssumption ==
    /\ IsFiniteSet(DOMAIN ChunkPaths) /\ Depths \subseteq Nat
    /\ Referrals \subseteq SUBSET ((DOMAIN ChunkPaths) \X (DOMAIN ChunkPaths))

G == INSTANCE SymbolGraph

GraphInputs ==
    \/ Chosen("edges") /\ input \in SymbolLists
    \/ /\ Chosen("impact")
       /\ \E pairs \in Referrals, seed \in DOMAIN ChunkPaths, depth \in Depths :
             input = [edges |-> {G!Edge(pair[1], pair[2], "cross_file", "f") : pair \in pairs},
                      seed |-> seed, depth |-> depth]

\* Indexing a file again puts its symbols at the end of the list.
Reindexed(symbols, path) ==
    SelectSeq(symbols, LAMBDA sym : sym.path # path) \o SelectSeq(symbols, LAMBDA sym : sym.path = path)

BuildEdges ==
    /\ Runs("edges")
    /\ answer' = [edges |-> G!Build(input),
                  again |-> [path \in {sym.path : sym \in ToSet(input)} |-> G!Build(Reindexed(input, path))],
                  references |-> [name \in {sym.name : sym \in ToSet(input)} |->
                                     G!FindReferences(input, name, FALSE)],
                  rows |-> [name \in {sym.name : sym \in ToSet(input)} |-> G!FindDefinition(input, name)]]

Follow ==
    LET chunks == {[id |-> id, path |-> ChunkPaths[id]] : id \in DOMAIN ChunkPaths}
        seeds(by) == G!Seeds(<<>>, chunks, by, IF by = "chunk" THEN input.seed ELSE ChunkPaths[input.seed])
    IN  /\ Runs("impact")
        /\ answer' = [impact |-> [by \in {"chunk", "document"} |->
                                     G!Impact(input.edges, chunks, seeds(by), input.depth)],
                      files |-> [by \in {"chunk", "document"} |->
                                    G!ImpactFiles(chunks, G!Impact(input.edges, chunks, seeds(by), input.depth))],
                      seeds |-> [by \in {"chunk", "document"} |-> ToSet(seeds(by))],
                      coupling |-> [path \in {chunk.path : chunk \in chunks} |->
                                       G!Coupling(input.edges, chunks, path, FALSE)]]

-----------------------------------------------------------------------------
\* impact_radius gives each chunk that depends on the seeds its distance, not
\* the length of some way to it, leaves none out that is near enough, and counts each in one
\* file; and what coupling says of two files is the same from either of them.
ImpactIsDistance ==
    Answered("impact") =>
        /\ \A by \in {"chunk", "document"} :
            LET within[n \in Nat] ==
                    IF n = 0 THEN answer.seeds[by]
                    ELSE within[n - 1] \cup {e.source : e \in {f \in input.edges : f.target \in within[n - 1]}}
                impact == answer.impact[by]
            IN  /\ DOMAIN impact = within[input.depth] \ within[0]
                /\ \A id \in DOMAIN impact : id \in within[impact[id]] \ within[impact[id] - 1]
                /\ Cardinality(DOMAIN impact) =
                       FoldFunction(LAMBDA file, n : n + file.count, 0, answer.files[by])
        /\ \A p, q \in DOMAIN answer.coupling : q \in DOMAIN answer.coupling[p] =>
               /\ p \in DOMAIN answer.coupling[q]
               /\ answer.coupling[p][q].count = answer.coupling[q][p].count
               /\ (answer.coupling[p][q].direction = "depends_on")
                      = (answer.coupling[q][p].direction = "depended_on_by")

Ambiguous(symbols) ==
    \E sym \in ToSet(symbols) : sym.kind = "module" /\
        Cardinality({path \in {s.path : s \in ToSet(symbols)} : G!ModuleMatches(sym.name, path)}) > 1

\* Two tools agree on who uses a symbol: the source of every edge into its
\* definition is among the references of find_references, but for code of
\* other languages, which is counted; find_definition lists the same
\* definitions, those that shadow one another numbered; and indexing a file again keeps the
\* edges, but for a module name that fits two files.
EdgesAreListed ==
    Answered("edges") =>
        /\ \A edge \in answer.edges : edge.kind # "test_of" =>
            LET found == answer.references[edge.name]
                into == {def \in found.definitions : def.chunk = edge.target}
                from == {sym \in ToSet(input) : sym.chunk = edge.source /\ sym.name = edge.name /\ sym.role = "reference"}
            IN  \A def \in into : \A ref \in from :
                    \/ ref \in found.references
                    \/ /\ LanguageOf(G!Ext(def.path)) \notin {NoExt, LanguageOf(G!Ext(ref.path))}
                       /\ found.omitted > 0
        /\ \A name \in DOMAIN answer.rows :
            LET rows == answer.rows[name]
                shadowed(path) == {k \in DOMAIN rows : rows[k].symbol.path = path /\ rows[k].shadows # {}}
            IN  /\ {rows[k].symbol : k \in DOMAIN rows} = answer.references[name].definitions
                /\ \A path \in {rows[k].symbol.path : k \in DOMAIN rows} :
                       UNION {rows[k].shadows : k \in shadowed(path)}
                           = {<<n, Cardinality(shadowed(path))>> : n \in 1..Cardinality(shadowed(path))}
        /\ ~Ambiguous(input) => \A path \in DOMAIN answer.again : answer.again[path] = answer.edges
=============================================================================
