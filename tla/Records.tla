-------------------------------- MODULE Records --------------------------------
(***************************************************************************)
(* What agents leave in the store: annotations, runtime symbols, the saved *)
(* turns of a session, and the history of detect runs.  Each server has    *)
(* them in memory and in the snapshot it shares with the others, as        *)
(* SnapshotStore has it; here a call is one step, from taking the store to *)
(* its reply, and the question is which rows a call leaves where: in       *)
(* memory only, in the snapshot, or, for the history, in changes.jsonl.    *)
(***************************************************************************)
EXTENDS Integers, Sequences, SequencesExt, FiniteSets

CONSTANTS Server,
          Session,     \* ids of sessions
          Default,     \* the session "default"
          Chunk, Tokens, \* stored chunks, and the tokens of each
          Path,        \* targets of annotations; none of them is a number
          Agent,       \* none of them "" or "default"
          Name,        \* names of runtime symbols
          None,
          MaxHistory,  \* max_history_entries
          Topics,      \* bound: the kinds of record one behaviour has calls of
          MaxMade,     \* bound: rows made
          MaxChanges,  \* bound: detect runs
          MaxIds,      \* bound: ids that index and rebuild_symbols use up
          MaxFailures, \* bound: calls whose save fails
          MaxRestarts  \* bound: servers killed and started again

ASSUME RecordsAssumption ==
    /\ Default \in Session
    /\ Tokens \in [Chunk -> Nat]
    /\ None \notin Agent
    /\ MaxHistory \in Nat
    /\ Topics \subseteq SUBSET {"notes", "symbols", "sessions", "history"}
    /\ MaxMade \in Nat /\ MaxChanges \in Nat /\ MaxIds \in Nat
    /\ MaxFailures \in Nat /\ MaxRestarts \in Nat

\* In rows, made is the number of the call that made or last rewrote the row:
\* it stands for what the row says.
Made == 1..MaxMade
Note == [id : Nat, path : Path, made : Made]
Symbol == [id : Nat, name : Name, agent : Agent \cup {None}, made : Made]

\* State, as far as these records go.  A session is [turn, kv, attached], the
\* last two sequences of rows [chunk, turn, made].
NoState == [sessions |-> [x \in {} |-> {}], log |-> <<>>,
            annotations |-> {}, next_annotation |-> 0,
            dynamic |-> {}, next_symbol_id |-> 0]

VARIABLES snapshot, \* snapshot.json
          file,     \* changes.jsonl
          mem,      \* each server's Store.state
          fresh,    \* the servers whose Store.stamp is that of snapshot.json
          topic,
          made, changes, failures, restarts,
          notes,    \* history: annotations that were answered, as they were
          symbols,  \* history: registered symbols, as they were listed
          turns,    \* history: the last turn a caller of save_kv_state was told
          gone      \* history: changes that an answered prune has dropped

vars == <<snapshot, file, mem, fresh, topic, made, changes, failures, restarts,
          notes, symbols, turns, gone>>
told == <<notes, symbols, turns, gone>>

Init == /\ snapshot = NoState
        /\ file = <<>>
        /\ mem = [s \in Server |-> NoState]
        /\ fresh = Server
        /\ topic \in Topics
        /\ made = 0 /\ changes = 0 /\ failures = 0 /\ restarts = 0
        /\ notes = {} /\ symbols = {} /\ gone = {}
        /\ turns = [x \in Session |-> -1]

-------------------------------------------------------------------------------
\* The store around a call.

\* Mutant: the rows in memory are not read again.
Reacquired_Kept(s) == mem[s]

\* reacquire_store: memory, or the snapshot when another process wrote it.
Reacquired(s) == IF s \in fresh THEN mem[s] ELSE snapshot

\* to_json and back: a session is written without its attached rows, and
\* read with one for each of its saved rows.
Written(state) ==
    [state EXCEPT !.sessions =
        [x \in DOMAIN @ |-> [turn |-> @[x].turn, kv |-> @[x].kv, attached |-> @[x].kv]]]

\* How a save ends: well, with an error before the rename, or with one after.
Outcome == {"ok", "lost", "written"}

Save(s, state, outcome) ==
    /\ outcome # "ok" => failures < MaxFailures
    /\ failures' = IF outcome = "ok" THEN failures ELSE failures + 1
    /\ snapshot' = IF outcome = "lost" THEN snapshot ELSE Written(state)
    /\ fresh' = IF outcome = "lost" THEN fresh \cup {s} ELSE {s}

NoSave(s) == fresh' = fresh \cup {s} /\ UNCHANGED <<failures, snapshot>>

\* The state in memory after the call, whether or not it was saved.
Holds(s, state) == mem' = [mem EXCEPT ![s] = state]

\* The call makes a row.
Makes == made < MaxMade /\ made' = made + 1

Quiet == UNCHANGED <<file, topic, changes, restarts>>

\* A tool that only reads, or finds nothing to do.
Ask(s) == /\ Holds(s, Reacquired(s))
          /\ NoSave(s)
          /\ UNCHANGED <<made, told>> /\ Quiet

\* The server is killed between calls, and started again.
Restart(s) == /\ restarts < MaxRestarts
              /\ restarts' = restarts + 1
              /\ mem' = [mem EXCEPT ![s] = snapshot]
              /\ fresh' = fresh \cup {s}
              /\ UNCHANGED <<snapshot, file, topic, made, changes, failures, told>>
-------------------------------------------------------------------------------
\* Annotations.  A call with several is several of these in a row.

\* Mutant: the new id is one more than the number of annotations.
Annotate_ById(s, path, outcome) ==
    LET cur == Reacquired(s)
        note == [id |-> Cardinality(cur.annotations) + 1, path |-> path, made |-> made + 1]
        state == [cur EXCEPT !.next_annotation = @ + 1, !.annotations = @ \cup {note}]
    IN  /\ Makes
        /\ Save(s, state, outcome) /\ Holds(s, state)
        /\ notes' = IF outcome = "ok" THEN notes \cup {note} ELSE notes
        /\ UNCHANGED <<symbols, turns, gone>> /\ Quiet

\* create: the reply has the id.
Annotate(s, path, outcome) ==
    LET cur == Reacquired(s)
        note == [id |-> cur.next_annotation + 1, path |-> path, made |-> made + 1]
        state == [cur EXCEPT !.next_annotation = @ + 1, !.annotations = @ \cup {note}]
    IN  /\ Makes
        /\ Save(s, state, outcome) /\ Holds(s, state)
        /\ notes' = IF outcome = "ok" THEN notes \cup {note} ELSE notes
        /\ UNCHANGED <<symbols, turns, gone>> /\ Quiet

\* The rows after an update of one.
Rewritten(rows, id, by) == {IF n.id = id THEN [n EXCEPT !.made = by] ELSE n : n \in rows}

\* update, which saves even if there is no such annotation.  What an update
\* that fails has done is not known to its caller.
UpdateAnnotation(s, id, outcome) ==
    LET cur == Reacquired(s)
        state == [cur EXCEPT !.annotations = Rewritten(@, id, made + 1)]
    IN  /\ Makes
        /\ Save(s, state, outcome) /\ Holds(s, state)
        /\ notes' = IF outcome = "ok" THEN Rewritten(notes, id, made + 1) ELSE {n \in notes : n.id # id}
        /\ UNCHANGED <<symbols, turns, gone>> /\ Quiet

\* The rows after a delete, by the id of one or by the target of several.
Others(rows, which) == {n \in rows : n.id # which /\ n.path # which}

\* delete.
DeleteAnnotation(s, which, outcome) ==
    LET cur == Reacquired(s)
        state == [cur EXCEPT !.annotations = Others(@, which)]
    IN  /\ Save(s, state, outcome) /\ Holds(s, state)
        /\ notes' = Others(notes, which)
        /\ UNCHANGED <<made, symbols, turns, gone>> /\ Quiet

-------------------------------------------------------------------------------
\* Runtime symbols.

Largest(ids) == CHOOSE n \in ids \cup {0} : \A m \in ids : m <= n

\* Mutant: the id follows the largest one in use.
TakeSymbolId_Reused(state) == Largest({d.id : d \in state.dynamic}) + 1

\* take_symbol_id.  The static symbols, which only raise a first id, are left
\* out.
TakeSymbolId(state) ==
    IF state.next_symbol_id = 0 THEN Largest({d.id : d \in state.dynamic}) + 1
                                ELSE state.next_symbol_id

\* Files with new text take ids for their symbols.
Indexed(state, ids) ==
    [state EXCEPT !.next_symbol_id = IF ids = 0 THEN @ ELSE TakeSymbolId(state) + ids]

\* register_dynamic_symbols, once for each symbol of the call.  The symbol is
\* saved without its agent, which is then filled in, in memory.
Register(s, name, agent, outcome) ==
    LET cur == Reacquired(s)
        symbol == [id |-> TakeSymbolId(cur), name |-> name, agent |-> None, made |-> made + 1]
        state == [cur EXCEPT !.dynamic = @ \cup {symbol},
                             !.next_symbol_id = TakeSymbolId(cur) + 1]
        owned == [symbol EXCEPT !.agent = agent]
    IN  /\ Makes
        /\ Save(s, state, outcome)
        /\ Holds(s, IF outcome = "ok"
                    THEN [state EXCEPT !.dynamic = (@ \ {symbol}) \cup {owned}] ELSE state)
        /\ symbols' = IF outcome = "ok" THEN symbols \cup {owned} ELSE symbols
        /\ UNCHANGED <<notes, turns, gone>> /\ Quiet

\* remove_dynamic_symbols, of one name or of one agent: in memory only.
RemoveDynamic(s, names, agents) ==
    LET cur == Reacquired(s)
        state == [cur EXCEPT !.dynamic = {d \in @ : d.name \notin names /\ d.agent \notin agents}]
    IN  /\ Holds(s, state) /\ NoSave(s)
        /\ UNCHANGED <<made, told>> /\ Quiet

\* rebuild_symbols: the runtime symbols are gone, and the static ones take
\* new ids.
RebuildSymbols(s, ids, outcome) ==
    LET cur == Reacquired(s)
        state == Indexed([cur EXCEPT !.dynamic = {}], ids)
    IN  /\ state.next_symbol_id <= MaxIds
        /\ Save(s, state, outcome) /\ Holds(s, state)
        /\ UNCHANGED <<made, told>> /\ Quiet
-------------------------------------------------------------------------------
\* Sessions.

\* session_mut, and the first lines of detect.
WithSession(state, x) ==
    [state EXCEPT !.sessions =
        [y \in DOMAIN @ \cup {x} |-> IF y \in DOMAIN @ THEN @[y]
                                     ELSE [turn |-> 0, kv |-> <<>>, attached |-> <<>>]]]

\* save_kv_state: a row for each chunk, all of the present turn; the reply has
\* the turn, and the session goes on to the next.
SaveKv(s, x, chunks, outcome) ==
    LET cur == WithSession(Reacquired(s), x)
        turn == cur.sessions[x].turn
        rows == [i \in DOMAIN chunks |-> [chunk |-> chunks[i], turn |-> turn, made |-> made + 1]]
        state == [cur EXCEPT !.sessions[x] =
                     [turn |-> turn + 1, kv |-> @.kv \o rows, attached |-> @.attached \o rows]]
    IN  /\ Makes
        /\ Save(s, state, outcome) /\ Holds(s, state)
        /\ turns' = IF outcome = "ok" THEN [turns EXCEPT ![x] = turn] ELSE turns
        /\ UNCHANGED <<notes, symbols, gone>> /\ Quiet

\* The rows of turns up to the target.
UpTo(rows, target) == SelectSeq(rows, LAMBDA row : row.turn <= target)

\* rollback: the attached rows of later turns are dropped, the saved ones stay.
Rollback(s, x, target, outcome) ==
    LET cur == Reacquired(s)
        state == [cur EXCEPT !.sessions[x] =
                     [turn |-> target, kv |-> @.kv, attached |-> UpTo(@.attached, target)]]
    IN  /\ x \in DOMAIN cur.sessions /\ 0 <= target /\ target < cur.sessions[x].turn
        /\ Save(s, state, outcome) /\ Holds(s, state)
        /\ turns' = [turns EXCEPT ![x] = IF @ < target THEN @ ELSE target - 1]
        /\ UNCHANGED <<made, notes, symbols, gone>> /\ Quiet

\* The rows that fit, the last ones tried first, in that order.  All have the
\* same relevance, so sort_by leaves them where they are.
Fitting(rows, max_tokens) ==
    LET Take(acc, row) == IF acc.used + Tokens[row.chunk] > max_tokens THEN acc
                          ELSE [used |-> acc.used + Tokens[row.chunk],
                                kept |-> Append(acc.kept, row)]
    IN  FoldLeft(Take, [used |-> 0, kept |-> <<>>], Reverse(rows)).kept

TokensOf(rows) == FoldLeft(LAMBDA n, row : n + Tokens[row.chunk], 0, rows)

\* prune_chunks of a session over its limit.
PruneChunks(s, x, max_tokens, outcome) ==
    LET cur == Reacquired(s)
        state == [cur EXCEPT !.sessions[x].attached = Fitting(@, max_tokens)]
    IN  /\ x \in DOMAIN cur.sessions /\ TokensOf(cur.sessions[x].attached) > max_tokens
        /\ Save(s, state, outcome) /\ Holds(s, state)
        /\ UNCHANGED <<made, told>> /\ Quiet

-------------------------------------------------------------------------------
\* The history.

\* remember_change: the row is added to the log in memory and, if the file
\* can be written, to changes.jsonl.
Remembered(s, state, appended) ==
    /\ changes < MaxChanges
    /\ changes' = changes + 1
    /\ Holds(s, [state EXCEPT !.log = Append(@, changes + 1)])
    /\ file' = IF appended THEN Append(file, changes + 1) ELSE file

\* detect that finds nothing to do.
DetectNothing(s, appended) ==
    /\ Remembered(s, WithSession(Reacquired(s), Default), appended)
    /\ NoSave(s)
    /\ UNCHANGED <<topic, restarts, made, told>>

\* detect that finds changes: it saves first and remembers then.
DetectChanges(s, ids, appended) ==
    LET state == WithSession(Indexed(Reacquired(s), ids), Default)
    IN  /\ state.next_symbol_id <= MaxIds
        /\ Remembered(s, state, appended)
        /\ Save(s, state, "ok")
        /\ UNCHANGED <<topic, restarts, made, told>>

\* detect whose save fails: its caller gets the error, the history no row.
DetectFails(s, ids, outcome) ==
    LET state == WithSession(Indexed(Reacquired(s), ids), Default)
    IN  /\ outcome # "ok"
        /\ state.next_symbol_id <= MaxIds
        /\ Holds(s, state)
        /\ Save(s, state, outcome)
        /\ UNCHANGED <<made, told>> /\ Quiet

\* The last entries of the log, and the others.
Newest(log, max) == SubSeq(log, IF Len(log) > max THEN Len(log) - max + 1 ELSE 1, Len(log))
Dropped(log, max) == ToSet(log) \ ToSet(Newest(log, max))

\* Mutant: what is pruned is not saved.
PruneHistory_Unsaved(s, max, outcome) ==
    LET cur == Reacquired(s)
    IN  /\ Len(cur.log) > max
        /\ Holds(s, [cur EXCEPT !.log = Newest(@, max)])
        /\ NoSave(s)
        /\ gone' = gone \cup Dropped(cur.log, max)
        /\ UNCHANGED <<made, notes, symbols, turns>> /\ Quiet

\* prune_history to a number of entries; nothing is saved if none is dropped.
PruneHistory(s, max, outcome) ==
    LET cur == Reacquired(s)
        state == [cur EXCEPT !.log = Newest(@, max)]
    IN  /\ Len(cur.log) > max
        /\ Save(s, state, outcome) /\ Holds(s, state)
        /\ gone' = IF outcome = "ok" THEN gone \cup Dropped(cur.log, max) ELSE gone
        /\ UNCHANGED <<made, notes, symbols, turns>> /\ Quiet

\* Mutant: history reads the file and then the log.
Shown_Both(state) == file \o state.log

\* history_rows, oldest first: the log, or the file if the log is empty.
Shown(state) == IF state.log = <<>> THEN file ELSE state.log

-------------------------------------------------------------------------------
\* Tools that touch all records.

TooLong(log) == MaxHistory > 0 /\ Len(log) > MaxHistory

Index(s, ids, outcome) ==
    LET state == Indexed(Reacquired(s), ids)
    IN  /\ state.next_symbol_id <= MaxIds
        /\ outcome = "ok" => ~TooLong(state.log)
        /\ Save(s, state, outcome) /\ Holds(s, state)
        /\ UNCHANGED <<made, told>> /\ Quiet

\* index that prunes the history and saves again.  An error of the second
\* save is dropped.
IndexAndPrune(s, ids, outcome) ==
    LET state == Indexed(Reacquired(s), ids)
        pruned == [state EXCEPT !.log = Newest(@, MaxHistory)]
    IN  /\ state.next_symbol_id <= MaxIds
        /\ TooLong(state.log)
        /\ outcome # "ok" => failures < MaxFailures
        /\ failures' = IF outcome = "ok" THEN failures ELSE failures + 1
        /\ snapshot' = Written(IF outcome = "lost" THEN state ELSE pruned)
        /\ fresh' = {s}
        /\ Holds(s, pruned)
        /\ gone' = IF outcome = "ok" THEN gone \cup Dropped(state.log, MaxHistory) ELSE gone
        /\ UNCHANGED <<made, notes, symbols, turns>> /\ Quiet

\* clear.  Its callers know that ids and turns start again, and after an error
\* that they may.
Clear(s, outcome) ==
    /\ Save(s, NoState, outcome) /\ Holds(s, NoState)
    /\ notes' = {} /\ symbols' = {} /\ turns' = [x \in Session |-> -1]
    /\ UNCHANGED <<made, gone>> /\ Quiet
-------------------------------------------------------------------------------
\* Ids are counted where there are runtime symbols to be told from.
Ids == IF "symbols" \in topic THEN 0..1 ELSE {0}

Notes(s) ==
    \E outcome \in Outcome :
        \/ \E path \in Path : Annotate(s, path, outcome)
        \/ \E id \in 1..MaxMade : UpdateAnnotation(s, id, outcome)
        \/ \E which \in Path \cup 1..MaxMade : DeleteAnnotation(s, which, outcome)

Symbols(s) ==
    \/ \E name \in Name, agent \in Agent, outcome \in Outcome : Register(s, name, agent, outcome)
    \/ \E name \in Name : RemoveDynamic(s, {name}, {})
    \/ \E agent \in Agent : RemoveDynamic(s, {}, {agent})
    \/ \E ids \in Ids, outcome \in Outcome : RebuildSymbols(s, ids, outcome)

Sessions(s) ==
    \E x \in Session, outcome \in Outcome :
        \/ \E chunks \in {<<>>} \cup {<<c>> : c \in Chunk} : SaveKv(s, x, chunks, outcome)
        \/ \E target \in 0..MaxMade : Rollback(s, x, target, outcome)
        \/ \E max_tokens \in 0..1 : PruneChunks(s, x, max_tokens, outcome)

History(s) ==
    \/ \E appended \in BOOLEAN : DetectNothing(s, appended)
    \/ \E ids \in Ids, appended \in BOOLEAN : DetectChanges(s, ids, appended)
    \/ \E ids \in Ids, outcome \in Outcome : DetectFails(s, ids, outcome)
    \/ \E max \in 0..1, outcome \in Outcome : PruneHistory(s, max, outcome)

General(s) ==
    \/ Ask(s) \/ Restart(s)
    \/ \E outcome \in Outcome : Clear(s, outcome)
    \/ \E ids \in Ids, outcome \in Outcome : Index(s, ids, outcome) \/ IndexAndPrune(s, ids, outcome)

Next == \E s \in Server :
           \/ General(s)
           \/ "notes" \in topic /\ Notes(s)
           \/ "symbols" \in topic /\ Symbols(s)
           \/ "sessions" \in topic /\ Sessions(s)
           \/ "history" \in topic /\ History(s)

Spec == Init /\ [][Next]_vars

-------------------------------------------------------------------------------
\* What the next call on each server works on.
View(s) == Reacquired(s)

\* "Notes on files or chunks that persist across sessions and agents": an id
\* that a create has answered stands for that annotation, as it was last
\* updated, on every server, until somebody deletes it or clears the store.
\* No failed call, restart or other server's save makes it stand for another
\* one, or for none.
IdsKeepNotes ==
    \A s \in Server, note \in notes :
        {n \in View(s).annotations : n.id = note.id} = {note}

\* "Stable id assigned at registration": no id of a runtime symbol stands for
\* two of them, at any time or on any server, even after the first was removed.
IdsKeepSymbols ==
    \A s \in Server, old \in symbols : \A new \in View(s).dynamic :
        new.id = old.id => new.made = old.made

\* A turn that save_kv_state has answered is over on every server: the next
\* rows saved get a later one, unless somebody rolled the session back.
TurnsGoOn ==
    \A s \in Server, x \in Session :
        turns[x] >= 0 => /\ x \in DOMAIN View(s).sessions
                         /\ View(s).sessions[x].turn > turns[x]

\* Each server shows the detect runs in the order they were made and none
\* twice, whether the log or the file is what it shows.
HistoryInOrder ==
    \A s \in Server :
        LET rows == Shown(View(s))
        IN  \A i, j \in DOMAIN rows : i < j => rows[i] < rows[j]

\* "Delete old change-history entries": no server has an entry in its log
\* again that an answered prune dropped.
PrunedStaysGone == \A s \in Server : ToSet(View(s).log) \cap gone = {}
===============================================================================
