# stele-context in TLA+

stele-context is a Rust program that indexes the source files of a project, keeps the
index in `.stele-context/`, and serves it to coding agents as MCP or HTTP tools. Several
servers and command-line runs share one store, and several git worktrees of a repository
share one lock file. This directory holds TLA+ models of the parts where that sharing is
hard to get right, the TLC configurations that check them, and TLAPS proofs of what
matters most. Paths such as `src/engine/mod.rs` are relative to the repository.

## 1. The system

| component | state | operations | talks to |
|---|---|---|---|
| document locks (`src/locks.rs`) | rows path, agent, expiry, auto; the conflict log | acquire, refresh, release, release_all, reap, status, conflicts; index-time locks | coordination file, snapshot |
| coordination file and agent registry (`src/locks.rs`, `src/mcp/mod.rs`, `src/engine/ops.rs`) | `coordination.json` in the git directory: locks, conflict log, notifications, agents | read whole file, change, write whole file | every worktree of one repository |
| snapshot store (`src/store/mod.rs`) | `State` in memory, its stamp, `snapshot.json`, `journal.jsonl`, the file lock | open, open_documents, relock, reload_full, save, unlock | every process of one worktree |
| signature rows (`src/store/mod.rs`) | `State.sigs`, `signatures.bin`, the hex of new chunks | ensure_sigs, load, save | chunks |
| derived caches (`src/engine/mod.rs`, `src/search`) | keyword index, vector graph, graph numbers, `bm25.bin`, `hnsw_stats.json` | rebuild, ensure, replace, drop | chunks, other processes through the files |
| indexing and change detection (`src/engine/mod.rs`, `src/walk.rs`) | document rows (mtime, size, hash), chunks | index, detect, remove | the project's files, store, caches, locks |
| sessions and kv state (`src/engine/query.rs`, `src/engine/ops.rs`) | sessions, turns, attached chunks, kv rows | save_kv_state, get_relevant_kv, rollback, prune_session_chunks | chunks, store |
| change history (`src/engine/ops.rs`, `src/store/mod.rs`) | `change_log`, `changes.jsonl` | remember_change, history, prune_history | store |
| annotations (`src/engine/query.rs`) | rows by file or chunk, the last id | create, update, delete, get, search | store |
| symbol index, runtime symbols (`src/symbols`, `src/engine`, `src/mcp/mod.rs`) | symbols, references, edges, rows of agents, the next id | rebuild_symbols, register_dynamic_symbols, remove_dynamic_symbols | chunks, store |
| MCP server (`src/mcp/mod.rs`), HTTP server (`src/http_serve.rs`) | handshake, background open, agent id; one engine behind a mutex | one request at a time | engine, store |
| tool groups and surface (`src/mcp/groups.rs`) | the tools exposed | refresh, announce | AGENTS.md, client |
| walk and configuration (`src/walk.rs`, `src/gitignore.rs`, `src/root.rs`, `src/config.rs`) | none of their own | find root, read settings, collect files, name documents | indexing |
| chunking and text diff (`src/chunk`, `src/engine/query.rs`) | none | cut a document, map its lines, show what changed | indexing, context |
| search (`src/search`, `src/engine/query.rs`) | the keyword index and the vector graph | add, remove, rank, grep, query | chunks, symbols |
| regular expressions (`src/pyre`) | none | compile, find | grep, symbol patterns |
| formats (`src/json.rs`, `src/store/mod.rs`, `src/store/zlib.rs`, `src/media/inflate.rs`) | none | parse, write, compress, inflate | snapshot, every file |
| migration (`src/engine/migrate.rs`, `src/store/sqlite.rs`) | none | read a Python database, fill an empty store | store |
| names and arguments of calls (`src/mcp/signature.rs`, `src/mcp/mod.rs`) | none | know a tool, bind its arguments, advise | servers |
| text to symbols, trees, media, hashing, output, command line | none | see section 5 | |

`PROJECT.json` lists each of them with its sources and whether it is modelled.

How they interact. A server opens the store once, keeps the parsed snapshot in memory and
lets the file lock go. For every tool call it takes the lock, reads the snapshot again if
its mtime or size is another one, runs the tool and lets go. A tool changes `State`, brings
the caches derived from it along or drops them, and saves. `index` and `document_lock` also
read, change and write the coordination file, which nothing locks. A command-line run opens
the store, does one thing and exits; `index` and `detect` start from the document rows only.

What is hard in it, and not reached by its tests:

* processes that hold an older copy of the rows than the snapshot, and the partly loaded
  store of a command-line run;
* read-modify-write of a file that other worktrees write too, under different locks;
* a call that fails or is killed between the steps of a save, or of an index;
* lists that belong together by position only (chunks and signatures);
* caches in memory and on disk that every one of a dozen tools must remember to update;
* an editor that writes files while they are being indexed;
* leases that expire while their owners, and index runs, are at work;
* a client whose list of tools goes stale between its requests, a thread that opens the
  store meanwhile, and a tool that panics with the store in hand;
* pure parts whose results must fit each other: the lines of a chunk and of its file, the
  rows of two tools, what a writer writes and a reader reads.

What makes each component correct:

* locks: an agent told that it holds a path holds it until it expires or the log names it
  as robbed; nobody is blocked for an agent that was refused or released;
* coordination: concurrent calls act as single steps; nothing written is lost; a kill
  leaves nothing held for ever;
* store: a call sees every write answered before it; no answered write is lost; the journal
  has it; the lock always comes free;
* signatures: a row is its own chunk's;
* caches: whatever is built covers every chunk it should;
* indexing: no edit is taken for indexed; answers are right; the snapshot follows memory;
* sessions, history, annotations, symbols: a turn that was answered is over everywhere;
  pruned entries stay out of the log; an id stands for one row; shown history is in order;
* servers: every request gets one answer, none keeps the store, the client's list is true;
* walk: what a call indexes is what its rules leave, under one name each;
* chunks and diffs: the text is kept, lines lead back to the file, a diff rebuilds it;
* search: nothing is left out unsaid, and what was added or removed last is what ranks;
* formats: what is written is what is read;
* migration: a store is filled once, with every row that was committed;
* calls: one is refused just when it has to be, and the refusal leads to one that is not.

## 2. Modules

| module | models | checked by | proved in |
|---|---|---|---|
| `LockTable` | the rows of a lock table and the retain/push operations on it | `DocLocks`, `Coordination` | |
| `DocLocks` | the document locks when each operation is one step: the abstract specification of `Coordination` | `doclocks` | `DocLocks_proofs` |
| `Coordination` | the same operations as servers run them on the shared file | `coord_serial`, `coord_crash`, `coord_worktrees` | `Coordination_proofs` |
| `ForwardStore` | what the store promises: rows only move forward | `store` (`Refines`) | |
| `SnapshotStore` | processes with their copies of the rows, the file lock, the stamp, the steps of a save | `store`, `store_force` | `SnapshotStore_proofs` |
| `Signatures` | signature rows beside chunks | `sigs` | `Signatures_proofs` |
| `EngineCaches` | keyword index, vector graph, numbers and their files | `caches` | `EngineCaches_proofs` |
| `FileIndex` | index and detect against an editor | `files` | `FileIndex_proofs` |
| `Records` | annotations, runtime symbols, sessions and history as they pass between memory, snapshot and `changes.jsonl` | `records` | `Records_proofs` |
| `ToolSurface` | groups of tools, the lists that choose among them, the block of AGENTS.md | `servers`, `algorithms` | `Servers_proofs` |
| `McpServer` | the loop over standard input, the background open, the client and the editor of AGENTS.md | `servers` | |
| `HttpServer` | one thread per connection, the mutex, panics | `servers` | |
| `Servers` | an MCP server, an HTTP server and command-line runs on one store: composes the two by `INSTANCE` | `servers` | `Servers_proofs` |
| `Chunking`, `TextDiff`, `Queries` | pure parts of indexing and querying | `algorithms` | |
| `SymbolGraph` | the edges between symbols and what follows them | `algorithms` | `FileIndex_proofs` (impact, coupling) |
| `ProjectWalk` | root, settings, ignore rules, the walk, document names | `algorithms` | `FileIndex_proofs` |
| `Ranking` | keyword and hybrid ranking | `algorithms` | `EngineCaches_proofs` (keyword index) |
| `Hnsw`, `Regex` | the vector graph, regular expressions | `algorithms` | |
| `Json`, `StoreRows`, `Compression`, `LegacyDb` | formats, and the Python store | `algorithms` | |
| `ToolCalls` | names and arguments of a call | `algorithms` | |
| `Tasks`, `IndexTasks`, `GraphTasks`, `WalkTasks`, `SearchTasks`, `FormatTasks`, `CallTasks`, `Algorithms` | the frame that applies the pure parts, and their properties | `algorithms` | `FileIndex_proofs` (`WalkTasks`, `GraphTasks`) |
| `MC*` | constants, symmetry and bounds of the runs; `doclocks`, `files` and `sigs` need only a cfg | | |

An operator named `X_Word`, after another operator `X`, is a wrong variant of `X`: a slip
that somebody could make in that code. No action uses it; `PROJECT.json` names for each
property the variant that breaks it, so that a reader sees what the property guards against.

### LockTable and DocLocks

A table is the set of its rows; the code keeps a vector, but finds a row by its path and
that there is one is proved (`UniqueRows`). `shared` is the table of `coordination.json`,
`local[w]` the copy in the snapshot of worktree `w`, and `Table(w)` is the one the code
consults. Every `document_lock` action has an action for its success and one for its
refusal, guarded by the code's conditions; `IndexLocks`, `DropDocument` and `Clear` are what
index, remove, detect and clear do to the table. `claim[p][a]` is history: until when agent
`a` was last told that it holds `p`. `ClaimBacked` and `HolderKnows` compare that belief
with the table from both sides. With `Coordinated = FALSE` (no git directory) the snapshot's
table is the only one; `CoordinationAssumption` then allows one worktree, as roots without
git share nothing. There `DropDocument` and `Clear` take the locks of every agent with them,
log nothing and tell nobody: the agents' claims stay, and `lost` is the history of the rows
that went so. `Bereft(p, a)` says that `a`'s claim is such a row; `ClaimBacked` and
`MutualExclusion` except it, and nothing else, so with a coordination file, where `lost`
stays empty, they promise the whole. The proofs cover both values; the run checks TRUE, and
with `Coordinated = FALSE` and one worktree in its cfg TLC finds the same properties to hold.

### Coordination

One action reads the file and computes what will be written and answered (`Prepare`), a
second truncates it and a third writes it (`fs::write`), so others can act in between.
`Load` reads a truncated file as empty, as the code does. A call takes the store lock of its
worktree (`TakeStore`) and gives it back (`ReleaseStore`); registration of a server's agent
(`Register`) is before that. `index` writes twice, its notification and then its locks.
`Crash` is a kill at any step; the kernel drops the store lock.

`Refines` maps the file to the table of `DocLocks` with a call taking effect when it has
read the file.

### SnapshotStore and ForwardStore

A row holds the number of the write that last set it. `snapshot`, `stamp`, `tmp` and
`journal` are the files, `mem[p]`, `partial[p]` and `seen[p]` the `State`, `documents_only`
and stamp of process `p`. `Open`, `OpenDocuments`, `Reacquire` and `LetGo` are the lock's
uses; `Ask`, `Remember`, `Put`, `Detect` and `Index` the kinds of tool, told apart by what
they load and save; `WriteTmp`, `Rename`, `AppendJournal` the steps of `Store::save`; `Fail`
an error returned by one of these; `Crash` a kill. `acked` is history: the writes answered Ok.
`Refines` says that the processes act as `ForwardStore`.

### Signatures

`chunks` and `sigs` are the two lists; a row is the signature of the text of one chunk, or
zeros. `Ensured` is `ensure_sigs`. `Reindex`, `Remove`, `IndexNothing` and `EmbedMemory` change
the chunks as the engine does, `WriteSigs` and `Rename` are a save, `Load` and `Kill` bring
the snapshot back. A save may give up at either file with the process going on: at
`signatures.bin`, which `fs::write` may leave cut short (`WriteSigsFails`, `CutShort`), or at
the snapshot (`RenameFails`). `torn` is history: a save has changed `signatures.bin` and none
has replaced the snapshot since; `RowForEach` speaks of the other states, so it says that one
save that ends well puts right what any number of failed and killed ones left. `appended` is
history: one process, and chunks were only added.

### EngineCaches

One chunk per document with one of two contents, and memory chunks that `llm_embed` makes.
Each tool that changes chunks is an action with all it does to the caches. `Reload` is
another process indexing a file, followed by this one reading the store again. `unbuilt` is
history: an index has changed chunks and ended without building the keyword index.

### FileIndex

`disk[f]` is the file, `docs[f]` the document row: the text it was made from and the mtime
and size stored with it. `index` is a first pass over mtime and size (`QuickStat`) and a
second that stats (`IndexStat`) and reads (`IndexRead`) file by file; `detect` is the aligned
pass (`AlignedStat`), then per file the test for existence (`Compare`), its stat
(`CompareStat`), the read for its hash (`Hash`) and the read that indexes it (`Reindex`). The
editor's `Write` and `Delete` come between any two. `Fail` is the `?` that ends a call when a
file is gone. `before` and `during` are history: the rows when the call began and what each
file has been since.

Assumed here: an edit changes the mtime or the size of a file (an edit within one clock tick
that keeps the size is invisible to the program by design); the walk finds the files that
are there (ignore rules are not modelled); `detect` scans for new files and the store has a
project root, the defaults. `index --force` from the command line is in `SnapshotStore`.

### Records

`mem[s]` is the part of server `s`'s `State` with these rows, `snapshot` and `file` are
`snapshot.json` and `changes.jsonl`, and `fresh` holds the servers whose stamp is the
snapshot's. Each tool is one action: it starts from `Reacquired(s)`, which is `mem[s]` or, if
another server has saved, the snapshot; it changes the state as the code does; it ends with
`Save`, whose outcome is a success, an error before the rename or one after it, or with
`NoSave`. That a call is one step is what `SnapshotStore` shows: the file lock admits one
call at a time. `Written` is what a state becomes when it is saved and read back: the
attached rows of a session are made again from its kv rows. `notes`, `symbols`, `turns` and
`gone` are history: what callers were told, and would rely on. A call that fails tells
nothing, and takes back what it may have undone (an update that fails may or may not have
rewritten the row, a rollback may have moved the turn).

`made` numbers the calls that write rows; the number in a row stands for its content. In
`Fitting` all rows have the same relevance, so the stable sort of the code is the identity.
Static symbols take ids (`Indexed`) but have no rows here. The searches and the files that
a session has read are left out.

### ToolSurface, McpServer, HttpServer and Servers

`ToolSurface` has the decisions of `src/mcp/groups.rs` as operators: `Select` lets the
operator's variable beat the agent's line per key, `Hidden` is what a selection hides,
`Refusal` the setting that a refusal names, `AgentToolsLines` and `Merged` read AGENTS.md.
`Follow` is somebody who does what a refusal says; a list that is left blank counts as unset
(`env_lists`), so emptying `STELE_DISABLE` puts the agent's list in force.

`McpServer` follows one line of standard input at a time: `ReadLine`, then the refresh of
the surface in the steps of the code (`Stat`, and for a changed file `ReloadStat` and
`ReloadText`), then the method. A call waits for the background thread (`CallStarts`,
`opened`), takes the store (`CallTakes`), runs and lets go (`CallEnds`). The editor's `Edit`
comes between any two steps, so the text may be newer than the stamp taken before it. The
client is part of the module: `Write` sends a line when an id is free, `Receive` reads one
message and keeps the list of tools and whether it was told of a change. `Ends` is the end
of the input or a panic, which ends this process and with it its locks.

`HttpServer` has a thread per connection: `Accept`, `ReadRequest` (or `ReadFails`), answers
that need no engine, then the mutex (`LockEngine`), the store inside it (`Take`), the tool
(`Run`). `Panic` unwinds the thread: the mutex is poisoned and the store stays taken.

`Servers` puts both and command-line runs (`CliTakes`, `CliEnds`) on one `store`; `behind`
is the set of servers whose copy another process has outdated. What a tool does to the store
is the matter of the modules above, and that a call sees the latest rows is what
`RunsOnWholeRows` shows for these loops.

### Tasks and Algorithms

The pure parts are operators. `Tasks` applies them: a task is chosen with an input from a
bounded set, one step computes `answer`, and the invariants compare it with a reference
definition that is not the algorithm: the text with its blanks taken out, sets of edges
within a distance, the language of a pattern as a relation, the grammar of JSON over whole
strings, the code words of a prefix code from their lengths, the tables that a database was
laid out from. `Algorithms` joins the six modules of tasks into one run. Only the vector
graph has a history: `KeepGraph` inserts and forgets, as `graph_replace` does.

* `Chunking`: a text is cut at definitions, paragraphs or rows, small and similar pieces are
  merged (`ChunkDocument`), and `LineMap`, `Absolute` and `Relative` lead from the lines of a
  chunk to those of its file and back. The characters are one or two of each class that the
  code tells apart. Whether two chunks look alike is an input, as it rests on floating-point
  signatures. Definitions of other languages than Python are lines that begin with a word
  that begins one.
* `TextDiff`: the difflib of `src/engine/query.rs` from matching blocks to hunks, and what
  `get_context` says of each file (`Context`).
* `SymbolGraph`: edges from symbols to definitions by module, language and name (`Build`),
  the impact radius in breadth (`Impact`), coupling, `find_references`, `find_definition`.
  `GraphTasks` gives it lists of symbols, and graphs (`Referrals`) to follow to some depth
  (`Depths`); `ReferralsAssumption` says that there are finitely many chunks and that each
  end of an edge is one.
* `Queries`: `agent_grep` with limits, duplicates, budget and the reindex of files that it
  found (`Grep`), `search` with the definitions that the ranking missed (`SearchRows`),
  `query` which merges three sources (`QueryFull`), the names in a query (`Identifiers`) and
  the prefix it makes up (`RecentPrefix`). Scores are thousandths.
* `ProjectWalk`: one `.gitignore` to rules and their match, the walk, the paths of a call
  and their keys, `drop_unseen` (`Unseen`), the early return of a call that read document rows
  only (`Unchanged`), the root, the settings, the place of the store. The task is two index
  calls with the tree or the rules changed between them; `brief` says that a call is a command
  line's without `--force`, `edited` which files have another stamp than the one stored.
  `ScenesAssumption` says what a file system gives and a user types (`Proper`): files have
  names, no file is below another, a "." stands only before the names of a path, and
  characters differ in their codes. `Given` are the places that a call names, `Named` those
  of them that the keys of documents are compared with as they stand.
* `Ranking`: the keyword index under any calls, its file, and the hybrid order; a weight is a
  small integer function of the counts that BM25 has. `Hnsw`: the vector graph with levels,
  caps, pruning and removal; distances are integers, levels are drawn.
* `Regex`: parser and backtracking matcher with captures, looks and fuel. `RegexTrue` has two
  halves: what is found is in the language (for patterns the code takes as regular), and
  where the matcher promises to backtrack nothing is missed (`Exact`).
* `Json`, `StoreRows`: the parser and both writers; every row of the snapshot by a table of
  its fields, with the defaults and renamings of the readers, and the scan for the documents.
* `Compression`: matches, lazy choice and fixed codes of the writer; stored, fixed and
  dynamic blocks of the reader.
* `LegacyDb`: pages, cells, overflow, the log, the tables of a Python 1.5 database, and
  when a store is filled from them (`Migrate`), with the save of the copy failing before or
  after it replaced the snapshot; the second open of the task is another process's.
* `ToolCalls`: the nearest name, what each mode knows, and the binding of arguments.
  `CallTasks` follows the advice of refusals until a call is accepted or there is none.

## 3. Runs

| run | instance and bounds | shows |
|---|---|---|
| `doclocks` | 1 path, 2 agents, 2 worktrees, TTL 2, clock to 4 | locks granted, stolen, expired twice over, taken at index time and removed keep table, log and beliefs consistent |
| `coord_serial` | 1 path, 2 agents, 2 registered servers of 1 worktree, TTL 2, clock to 3, 1 notification | the calls act as the single steps of `DocLocks`; nothing written is lost |
| `coord_crash` | 1 path, 1 agent, 2 servers of 2 worktrees, one yet to register, TTL 1, clock to 2, 1 kill | however writes overwrite each other and wherever the kill falls, the store locks come free and no lock outlives its TTL |
| `coord_worktrees` | 2 worktrees with a server each | violation: both agents are granted one path |
| `store` | 2 servers, 1 command, 1 document, 1 other row, 3 writes, 1 failing step, 1 kill | no answered write is lost, each call sees the latest rows, the processes implement `ForwardStore` |
| `store_force` | 1 server, 1 command that may say `--force` | violation: a forced command-line index drops the other rows |
| `sigs` | 2 files of up to 2 chunks, 3 versions, 1 load, 1 kill, any number of failing saves | a save that ends leaves a row per chunk, however those before it ended; a process that only adds chunks ranks each by its own signature |
| `caches` | 1 file, 1 memory chunk, 1 agent signature, 1 failed index, `GRAPH_CACHE_MIN` 2 | built index, built graph, reported numbers and `bm25.bin` leave out no chunk they should hold |
| `files` | 2 files, 3 edits | no edit is taken for indexed, every answer is right for the files left alone, the snapshot follows memory |
| `records` | 2 servers, 3 rows, 4 detect runs, ids to 3, 2 failing saves, 1 restart, history limit 2; calls on one kind of record in a behaviour | ids stand for what they stood for, turns go on, the history is in order, pruned entries stay out of every log |
| `servers` | four casts: an MCP server with 2 requests in flight and 1 edit; one under `STELE_DISABLE` with batch calls and 2 edits; one whose store may not open, with every kind of line; an MCP server, an HTTP server with 2 connections and command-line runs | the list in force is that of the file and the client's is true once read; every request is answered; each tool has the latest rows, and none what a panic left; the store comes free |
| `algorithms` | 12 subjects, inputs below | the pure parts agree with their reference definitions |

The properties of `algorithms`, each over its own inputs:

| property | inputs |
|---|---|
| `IndexKept` | documents of 4 lines of 4 kinds and longer ones with brackets, form feeds and carriage returns; 3 languages; 2 ways chunks may look alike; limits 4, 7 and 6 characters or tokens; lists of 4 symbols of a universe of 10 in 4 files and 2 languages |
| `DiffRebuilds` | texts of up to 5 lines against texts of up to 5 lines, context 1; documents cut in chunks against their edits |
| `ImpactIsDistance` | graphs of 4 edges over 4 chunks, each chunk as a seed and its file as one, depth to 3 |
| `QueryAccounts` | 3 chunks of 2 files, 5 bodies each, edited or not; budgets, limits 2 and 3; 3 rankings, 5 prefixes; texts of 3 to 5 characters |
| `WalkSettles` | a tree of 9 files with two calls, 12 ignore lines in pairs, 6 settings; from the root with 5 ways to name paths, from a subdirectory with absolute, dotted and no paths, with and without a project root; a second call that has the whole store, or document rows only with no file or one edited |
| `RankingSound` | 3 calls on 2 chunks of up to 3 terms; rankings of 4 chunks with 4 scores; 5 calls on a vector graph of 4 ids, 2 levels, caps 1 and 2 |
| `RegexTrue` | every pattern of up to 4 of 8 characters and forms of classes, braces, looks and escapes; 6 texts |
| `FormatsKeep` | texts of up to 3 of 13 marks, numbers, escapes and objects, values two deep; a state with a row in every table under 5 names; payloads and streams across the rows of lengths and distances |
| `LegacyCopied` | tables of 0 to 3 rows on pages of 39 bytes, a file cut short, a log committed or restarted; a save of the copy that fails before or after the rename |
| `CallsBind` | 5 tools in 3 modes with up to 3 of 6 argument names; names of up to 4 letters; AGENTS.md texts under 30 settings of the variables |

Why the bounds are enough. Lock rows of different paths interact only through release_all
and index, which are maps over rows, so one path shows every interleaving; two agents are
the holder and the other one; the clock passes two expiries, so a stale claim meets a new
lock that has itself expired. In `coord_serial` a second server at every step of the first is
the worst a third could add, because the store lock admits one. In `store` three writes by
three processes give a stale copy, a newer row and a reply in flight; one failure and one
kill fall on every step. `sigs` needs two files, so that a chunk is dropped from the middle,
and enough versions to index again after it; saves that fail are not counted. In `caches` one file and one memory chunk reach
both sides of the threshold `CacheMin = 2` (the code's constant is larger; only which side a
store is on matters). In `files` two files let one be read while the other changes; three
edits change one before, between and after its two reads. In `records` two servers are the
one that saves and the one that is behind; three rows allow one to be made, removed and
followed by another; a history limit of 2 is passed by three runs, and the fourth follows a
prune. `topic` picks the one kind of record whose own tools a behaviour calls, beside index,
clear, restarts and reads, which touch all: the kinds share only the moment of a save, which
each behaviour has. The proofs do without it: they hold for any choice of `Topics`.

In `servers` the casts divide what would be too much at once: the surface needs an editor and
a client with two requests in flight (a list and a call that crosses it), the store needs
three processes but only calls. A client has one line of those without an answer in flight.
In `algorithms` the limits of the code are scaled down (chunks of 4 tokens, 2 hits, 39 bytes
of a page, links 1 and 2) so that short inputs come to both sides of each; lengths and distances of
`Compression` are those of the code, as its tables decide on them.

Fairness. `coord_crash` assumes weak fairness of `Proceed`, the steps of a call that has the
store: this is code running on a thread, with no wait in it. Nothing is assumed of who gets
the lock next, so the run shows that the lock comes free, not that every server gets it. With
a killable process the fairness still holds, as a killed one has no step to take. `servers`
assumes weak fairness of the threads, of command-line runs and of the client's reading, and
strong fairness of the two waits, for the store's file lock (`File::lock`, which blocks in
the kernel) and for the mutex: others may take either in between, but whoever keeps waiting
while it comes free again and again gets it at last. `StoreComesFree` says that it does
come free; that no waiter is passed over for ever is the one thing asked of the system.
Nothing is assumed of clocks, editors, requests, kills, panics or failing steps.

Deadlock is checked in every run that is expected to pass but two: in `servers` the MCP
server may end, and in `algorithms` a task that is answered has no next step.

The types of the state are proved where a module of proofs is listed, and otherwise a
conjunct of a property that needs them anyway: `CrashSafe`, `RowForEach`, `RunsOnWholeRows`
(proved with it in `Coordination_proofs`, `Signatures_proofs` and `Servers_proofs`).

### Where the code and what it says of itself part

* `coord_worktrees`: two worktrees read `coordination.json`, both find the path free, both
  write. `src/locks.rs:4` and `docs/architecture.md:153` promise shared holders.
* `store_force`: `index --force` from the command line keeps the store documents-only and
  saves it. Annotations, sessions and locks are gone; `README.md:17` says they stay. The
  same line lets a plain `index` through when the store has no document yet.

Met while modelling, without a run of their own. The modules say what the code does in each
case; a property that a case would break says in its guard that it is left out.

Store and locks:

* `sigs` is "Parallel to `chunks`" (`src/store/mod.rs:223`), but replacing a chunk without
  changing the number of chunks leaves its row with the old signature. The hex that could
  repair it is not stored, so after a reload short lists are filled with zeros;
* a save that fails between `signatures.bin` and the snapshot (`src/store/mod.rs:360` to `371`)
  answers with an error and leaves rows of chunks that the snapshot has not, until the next
  save that ends well; a process that opens the store before gives them to the wrong chunks
  (`torn`);
* without a git directory `remove`, `detect` of a file that is gone and `clear` drop locks of
  any agent (`src/engine/mod.rs:691`, `561`, `1389`): the holder is neither told nor in the
  conflict log, and another agent may be granted the path (`lost`);
* after an index that ended in an error the next one finds the first one's files unchanged,
  answers, and saves nothing: its documents are in the snapshot after a later save only;
* `acquire_document_lock` goes by the server's agent when the call names none, the other lock
  tools by "default" (`src/mcp/mod.rs:1041`, `1047`): a lock taken without an agent id is
  released only by a call that names the server's;
* in a linked worktree `.git` is a file, and `list_agents` looks for `<root>/.git/...` only
  (`src/engine/ops.rs:935`), while the locks find the common directory;
* registration (`src/mcp/mod.rs:222`) rewrites the coordination file before the store lock is
  taken, so a lock granted meanwhile by a server of the same worktree is lost; in the model
  this is `Fresh # {}`, and `coord_serial`, whose servers are registered, excludes it;
* with a clock that gives two renames one mtime and a file of the same length, a server
  works on old rows (`CoarseClock = TRUE`);
* `clear` and an index that only drops files leave doctor's numbers as they were, which is
  why `NumbersCover` is one inclusion and not an equality;
* an index that fails leaves `bm25_ready` true with chunks that are not in it, and an index
  of the whole tree with nothing new drops memory chunks in memory only: `SearchesAll` is
  stated for `~unbuilt`;
* a summary given to an index that finds its file unchanged (`Summaries`) reaches neither a
  built graph nor the fingerprint of its numbers; `GraphCovers` and `NumbersCover` leave such
  summaries out of the comparison;
* `detect` creates or moves the default session without saving it (`Remember`);
* rows that a rollback or `prune_chunks` detached are attached again by the next reload, as
  only the kv rows are written (`Written`). A rollback to turn `t` keeps the rows of `t`, and
  the next save uses the number `t` again. The catalogue says "Roll a session back to an
  earlier turn". Without a reload a second `prune_chunks` drops the newest rows, as the first
  one left them in reverse order (`Fitting`);
* `prune_history` by age compares seconds with rows in microseconds
  (`src/engine/ops.rs:19`), so it keeps every row; prunes in the model are by number;
* `detect` remembers its run after the save, so the run is in the snapshot only after a later
  save of the same server, and another server does not show it. If the log is empty, all of
  `changes.jsonl` is shown, what was pruned or cleared included (`Shown`);
* the agent and role of a registered symbol are filled in after the save: on another server,
  or after a restart, `remove_dynamic_symbols` of that agent finds none. The removal itself
  is not saved, and `rebuild_symbols` drops all runtime symbols;
* ids of annotations and symbols start again after `clear`. One that failed has still emptied
  the server's memory, which its next save writes;
* `remove` reports `annotations_removed` and removes none (`src/engine/mod.rs:669`), while
  the catalogue says that it does.

Servers:

* a tool that panics in the HTTP server leaves the store's lock taken for as long as the
  process lives: every other server and command waits. The MCP server ends instead, and its
  lock with it. `StoreComesFree` and `Answered` leave a poisoned server out;
* `/health` answers with the state in memory, as of this server's last call;
* the HTTP server fills in no agent and knows no groups; `batch` runs the tools of every mode
  but asks the groups;
* a client that lists the tools before it sends `initialize` is told of no later change;
  `ClientInStep` counts lists from then on;
* the advice for an unknown tool may name one that the groups hide;
* taking the last name out of `STELE_DISABLE`, as a refusal says, leaves it blank, and then the
  `stele: disable` line of AGENTS.md counts: other tools may be hidden by it, and the tool that
  was asked for may be refused up to five times. `RefusalsUnhide` allows for this;
* two edits of AGENTS.md are told apart by mtime and size only.

Walk and names:

* document keys are relative to the working directory, not the project root
  (`src/engine/mod.rs:1950`; `docs/architecture.md:288` says root): an index of the whole
  project from a subdirectory drops every other document, and the root's `.gitignore` is not
  read for a subdirectory (`docs/architecture.md:303`). `WalkSettles` compares calls from one
  directory;
* without a project root all folders share `~/.stele-context`, and `index dir` never drops
  files that are gone; nor does `index ./dir` with one. `d/./f` and `..` spellings make second
  documents; a relative `storage_dir` starts at the working directory;
* from the command line `index d` answers "unchanged" without looking for what is gone when
  every file that it finds under `d` is known and as it was (`index_if_unchanged`,
  `src/engine/mod.rs:1427`): the documents of files under `d` that were deleted, or are ignored
  since, stay, where the same call to a server drops them. A call for the whole project asks
  for them. `WalkSettles` allows this and nothing beside it: such a call changes no document,
  and no file that it should take is new or edited. An index of `/` drops nothing either, as
  its prefix is trimmed to nothing;
* a threshold of a wrong type resets the setting, other settings of a wrong type are ignored.

Search and answers:

* `search` with a prefix cuts the list to `top_k` before the prefix is looked at if the query
  names something, and `query` looks at the first three names only;
* the two sources of `query` take a prefix differently (`UnderPrefix`, `StartsWith`), though
  `CHANGELOG.md:201` speaks of one; `recently_searched` of `get_context` is always false
  (`CHANGELOG.md:293`);
* `scope_for` of a grep hit compares a line of the chunk with lines of the file
  (`CHANGELOG.md:7`, `docs/architecture.md:328`); grep counts lines over trimmed chunks, and
  with a session it may index a file between finding hits and reading their lines;
* a diff ignores a change of the last newline, leaves leading blank lines out when chunks were
  trimmed, and its counts skip added lines that begin with `++` or `--`;
* a form feed ends a line of a chunk and not of a file, and lines after 512 blank ones lose
  their map; `LinesMapBack` is stated for texts without form feeds;
* an import of a top-level `utils.py` by its plain name finds no file; a module that fits two
  paths takes the first, so indexing one of them again may move its edges;
* pruning in the vector graph cuts links on both sides, so above `M0 + 1` nodes some may not
  be found: `GraphSound` asks for exactness up to there;
* the matcher backtracks over repetitions directly in a concatenation only: `(a|ab)c` misses
  "abc", a lazy repetition reads as a greedy one, and a match that needs more than 400,000
  steps is missed silently (`docs/architecture.md:327` says "perfect-recall").

Formats:

* `to_json` of a chunk has no version, staleness or signature (`docs/architecture.md:96`); an
  attached row without payload is lost by a reload; numbers that are not finite come back as
  0 or null; a surrogate pair is refused and a form feed taken as a blank;
* `src/store/zlib.rs:3` says that its bytes match CPython's: length 258, the chain limit and
  the choice of blocks differ; they inflate to the same text (`InflatesBack`). The sum at the
  end of a stream is not checked;
* the reader of a Python database applies every frame of the log with the current salts,
  committed or not, and reads no rollback journal; a record that cannot be read is left out
  silently; a store without documents and chunks is filled again on every open, and loses its
  sessions and annotations to the old ones. When the copy cannot be saved the server works
  with it all the same and saves it later; when only the journal failed the snapshot was
  replaced, though `src/engine/migrate.rs:4` says that a failure leaves it unchanged.

## 4. Proofs

`tlapm` checks every theorem below for every value of the constants that satisfies the named
assumptions of the modules, not only for the small instances of the runs.

`DocLocks_proofs`. The inductive invariant joins the types, one row per path, the claims
backed by rows or conflict-log entries, and the rows backed by claims. The last two need each
other: to show that a release by another agent does not drop a claim one must know that the
explicit row it removes is the row of its own claim. Where no coordination file keeps the
locks, a third set of rows, those that were dropped (`lost`), takes the place of the table: a
claim is in one or the other, or in the log. `MutualExclusion` follows from `ClaimBacked` and `UniqueRows` in any state. `TruthfulLog` is an action property: every step
that adds to the log is an acquire that takes over a live claim, and the requester has the
path after it; it needs that a live explicit row is a claim (`HolderKnows`). Nothing is assumed
but the TTL's being positive and the shape of `Worktree` without git.

`Coordination_proofs`. `WellFormed` (`CrashSafe`) holds with any worktrees, registrations and
kills: the file stays one row per path with no row past the TTL because every write in flight
carries such a table, and a call has its store until it ends. The other three theorems assume
`Serial`: servers of one worktree, registered before (`Fresh = {}`), and not killed. Each part
is needed: `coord_worktrees` shows what two worktrees lose, registration writes without the
store lock, and a server killed between truncating and writing leaves an empty file. Under it
at most one server is in a call, so what it has read is still in the file when it writes
(`SerialKeepsAll`), and the file, or what the one write in flight will make of it
(`Effective`), is the table of `DocLocks`: reading is the step of the abstract specification,
the truncation and the write are stutters (`SerialRefines`, one lemma per kind of call).
`SerialExclusion` is the theorem `Exclusion` of `DocLocks_proofs` carried over the refinement.

`SnapshotStore_proofs`. `TypeCorrect` and `JournalComplete` hold however the store is used.
`ViewIsFresh`, `NothingAckedIsLost` and `Implements` hold under `SafeUse`: a clock that tells
two renames apart, no `--force` from the command line, and a store that has a document. Each
part is needed: the first two by the divergences above, the third because `index` on a store
without documents does not read the rest. The invariant says that a process with the stamp
of the file has rows at least as new as the snapshot's, that no process has seen a stamp
ahead of the file's, and that the temporary file of the process about to rename has its
memory's rows. Under it each step is a step of `ForwardStore` or a stutter.

`FileIndex_proofs`. The invariant adds to the types that a call that can change chunks has the
whole store in memory, that no stored mtime is ahead of the editor's, and that rows the
snapshot lacks are in the lists of the call that made them. `NoMissedEdit` rests on the order
of two reads in the code: the stat that is stored comes before the text is read.
`SnapshotFollows` needs the third part, because whether a call saves is decided by its lists.
`DetectAnswers` and `IndexAnswers` need a second invariant, about the call that is under way:
which files it was asked about (`Asked`), which of them it still has to look at, and for those
it has dealt with, which list each is in and a moment of the call (`during`) at which that was
right (`DetectDone`), or that a file left alone has a row of its text (`IndexDone`).

The same module goes on to the walk of an index call (`WalkTasks`, `ProjectWalk`), for any
trees, rules, settings and spellings of paths. `WalkSettled` rests on three facts about the
code. The walk that goes directory by directory finds a file just when nothing bars one of the
steps down to it (`FoundIs`): an ignored directory is not entered, and what is not entered is
not found, so the two ways to say it agree. The order of a walk's result is a strict one, as
names are compared by codes that differ, so that each file has one place in it (`InOrderIs`).
And the key of a document is a function of its file's place that tells files apart
(`KeysDiffer`): what `drop_unseen` drops by its key is what lies under the places given, however
they were spelled. A call that does nothing is a case of its own (`SettlesIdle`): what it finds
it has in its documents, and if it is for the whole project each document is one that it found.
The assumption is `Proper`, of each call; a "." between names is what it
leaves out, and there the code does make second documents (above).

The last part is what follows the symbol graph (`GraphTasks`, `SymbolGraph`), for any finite
graph, cycles and all. The search keeps its queue in the order of the distances, which are no
two apart; every chunk it has looked at has its distance, not the length of some way; and
whoever refers to one of those is looked at already or in the queue. So whoever is nearer than
the next entry has been looked at (`Covered`), and an empty queue means that no one near enough
is left. Each step of the loop leaves less ahead, counted as entries of the queue and edges to
chunks not looked at yet, so the steps that `Impact` takes, one for each seed and each edge,
empty it (`ImpactExact`). `CouplingAgrees` matches the rows of coupling for two files one to
one: the edges from one into the other and those back, with the sides changed. `ImpactTold`
joins the two with the counts of the files, which come to the number of chunks.

`Records_proofs`. A state is live if a call may still start from it: the snapshot, and what
`Reacquired` gives each server. `Good` says of one state that it agrees with everything that
callers were told; the invariant is that every live state is good. A call starts from a live
state, so it is enough that each tool turns a good state into a good one (the `Good...`
lemmas, `GoodWritten` for a save and reload), and that a call which answers after a save
leaves no live state but its own (`AfterSave`): only then may what was told grow. For a call
that fails, the old states stay live, and good, since what was told did not grow. `Good`
adds what the properties need to be kept: counters above the ids in use and those told, and
runs numbered in the order of the log. Which rows `prune_chunks` keeps is open in it; that
their type is right (`TypeOK`) is induction over a fold and is model-checked.

`EngineCaches_proofs`. The invariant has a part for the chunks (a document has one, and a
memory chunk one content), for the keyword index and for the graph. The parts need each
other in one direction only: what is left out of an index stays a memory chunk because memory
chunks have one content, and putting a chunk into the graph drops no other's node because no
two chunks share an id. The file of numbers needs more than the properties say: its
fingerprint is of chunks that its graph has (`StatsCover`), or a later process would take
numbers that leave a chunk out.
`IndexStarts`, `IndexAdds` and `IndexForgets` are about the index itself (`Ranking`): after any
calls it is a function of the texts that are in it (`IndexOf`), counts, lengths and the
chunks of each term, whatever was added over and taken out before. A term that no text has
left is gone from it, so that its weight is that of a term never seen.

`Signatures_proofs`. A row is a chunk's by its position only, so most of the work is about what
the removal by position does to the lists (`Without`): the n-th position that is kept is well
defined. For `RowForEach` the file has a row for each chunk of the snapshot but between the two
writes of a save, and after one that did not come to its end (`RowsSaved`). For `OwnWhileAppending`, as long as
chunks were only added the process knows the signature of each, has never more rows than
chunks, and a full list of rows, like every row of the file, is the chunks' own (`OwnRows`);
a save that gives up keeps that too, as a file cut short has the first rows of a full list
(`CutShortStep`).

`Servers_proofs`. `CurrentSurface`: a stamp that the editor has still to give is on no file and
in no surface, so an equal stamp means an equal text, whatever the two stats and the read of
`refresh` saw. `WholeRows`: the store is the MCP server's just while it runs a tool, the mutex
is the connection's that is past it, and each request is in one place, the line, the tool or
the answer; that it is one place is counted over sequences (`CountAppend`, `CountTail`).
`InStep` and `CallsFit` are about messages that are still under way, so their invariant speaks
of every prefix of what the server has written: a client that would read that far and was told
of no change would have the list of then, and each answer to a call fits the list that the
client will have when it reads it (`Told`, `Fitting`). `RefusalsLeadOut` is about the operators
of `ToolSurface` alone: what hides a tool is at most five things, each refusal names one that
is in force, and doing what it says takes it away and adds none, but for the list that an
emptied variable gives way to. It is the general form of `RefusalsUnhide` in `algorithms`.

What is assumed of the constants, beside the bounds' being numbers: finitely many servers in
`Coordination`; markers (`Torn`, `None`, `Free`) that are no values of what they stand beside;
`MaxPieces` above zero, so that a document has a chunk; groups of tools that share no tool,
have a core, and cover the catalogue, as the code's own test says
(`every_catalogue_tool_has_one_group`); and `ScenesAssumption` and
`ReferralsAssumption`, of the inputs of the walk and of the graph.

Only model-checked: liveness under fairness (`StoreComesFree`, `Answered`), which these
provers cannot do; `TypeOK` of `Records` as far as it says which rows `prune_chunks` keeps,
which is induction over a fold; and the properties of `algorithms` but `WalkSettles` and
`ImpactIsDistance`. The others are about recursive operators, which take the SMT prover from
every module that reaches them, or about what a recursion computes for every input. In the
two that are proved the recursion is a fold over finitely many positions or a function on
numbers. Such a one is unfolded to its equation (`FoldExists`: a function that satisfies it
is written down, so the one that is chosen does), and what holds after each step is shown by
the least position at which it would not (`Least`, `Upto`), without an induction rule.

## 5. Not modelled, and why

* Program text to symbols (`src/symbols`, `src/lang`) and syntax trees (`src/syntax`): readers
  of characters without state between calls, of a dozen languages, which the repository's
  tests compare with goldens. The models take their results as inputs.
* Compact output and the catalogue (`src/mcp/compact.rs`): one JSON value to a shorter one.
* Text of images and PDF, except for the streams in them; stemming, text signatures, hashing:
  functions of one input to numbers. Weights and distances are small integers instead.
* The command line, `doctor` and environment checks: parsing and reports. How a one-shot
  command opens the store is in `SnapshotStore` and `Servers`.
* In modelled parts: the searches and files a session has read, chunk versions, most reports;
  in `Compression` the writer's dynamic blocks, which nothing calls, and streams on which the
  program ends (codes with too many words, distances 30 and 31); in `LegacyDb` the bytes of
  pages.
* Power loss: `save` does not sync the file before the rename, so what a disk holds after a
  power cut is outside the models, which kill processes only.
* Benchmarks.

## 6. Plan

1. Proofs about the operators of `Hnsw` that need no recursion (links stay between live nodes),
   in a module apart from its search; about the edges of `SymbolGraph` (`EdgesAreListed`),
   which are sets of rows and heads of lists; about `Merged`; and the part of `Records`' types
   that `Fitting` decides.
2. `compact` as far as it must not lose rows, and the sessions' searches and reads.

The runs stay few, so that all of them can be repeated after every change: a new one is for a
question that none of the present ones asks.
