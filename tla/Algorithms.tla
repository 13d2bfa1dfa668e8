----------------------------- MODULE Algorithms -----------------------------
(***************************************************************************)
(* The pure parts of the program, each applied to every input of a bounded *)
(* set, and the vector graph under every short sequence of its calls.      *)
(***************************************************************************)
EXTENDS IndexTasks, GraphTasks, WalkTasks, SearchTasks, FormatTasks, CallTasks

Init ==
    \/ CallInputs \/ RegexInputs \/ JsonInputs \/ StoreInputs \/ LegacyInputs \/ InflateInputs
    \/ WalkInputs \/ RankInputs \/ TextInputs \/ QueryInputs \/ GraphInputs \/ HnswInputs

Next ==
    \/ ChunkDocument \/ BuildEdges \/ Follow \/ Grep \/ Query \/ Recent \/ NameScan \/ Diff \/ Context
    \/ Walk \/ Rank \/ KeepGraph \/ Search \/ ReadAndWrite \/ SaveAndOpen \/ CopyLegacy \/ Deflate
    \/ Call \/ Suggest \/ Unhide

Spec == Init /\ [][Next]_taskVars

-----------------------------------------------------------------------------
\* The properties of one subject together.

\* A chunk's text, lines and hits lead back to the document, and the edges are
\* those that the tools list (chunk_document, line_map, definition_rows,
\* build_edges, find_references, find_definition).
IndexKept == TextKept /\ LinesMapBack /\ HitsFindTheirChunk /\ EdgesAreListed

\* What a search leaves out is said to be left out, and each result is there
\* once, within its limits (grep, search, query).
QueryAccounts == GrepAccounts /\ QueryMerges /\ DefaultsFit

\* What ranks a chunk is what was said of it last (bm25, hnsw, hybrid_ranked).
RankingSound == RankingTrue /\ GraphSound

\* What is written is what is read (json, State::to_json, from_json,
\* compress, zlib_decode).
FormatsKeep == JsonTrue /\ StoreSurvives /\ InflatesBack

\* A call is refused just when it has to be, and the refusal leads on (bind,
\* unknown_tool, suggestion, Selection::refusal).
CallsBind == NearestIsProposed /\ RefusalsLead /\ RefusalsUnhide
=============================================================================
