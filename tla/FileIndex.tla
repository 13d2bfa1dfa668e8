------------------------------- MODULE FileIndex -------------------------------
(***************************************************************************)
(* The index of one project against files that change while it is made.    *)
(* index walks the tree, then for each file reads its mtime and size, and  *)
(* if they are new the file itself; detect does the same for the documents *)
(* it knows, after a first pass that only looks at mtime and size.  An     *)
(* editor may write or delete a file between any two of these steps, and a *)
(* file that is gone when it is to be read ends the whole call.            *)
(***************************************************************************)
EXTENDS Naturals

CONSTANTS File,
          None,
          MaxEdits  \* bound: files written or deleted by the editor

\* What a file holds, and its mtime and size in one number.  A document row
\* has the same two, maybe from two moments.
Version == [body : 0..1, stamp : 0..MaxEdits]

\* What a call is asked for: the whole tree, or a named file.
Asked == {[whole |-> TRUE, paths |-> File]} \cup {[whole |-> FALSE, paths |-> {f}] : f \in File}

\* A file as far as a call has read it.
Reading == [file : File, stamp : 0..MaxEdits, body : 0..1]

ASSUME FileIndexAssumption == MaxEdits \in Nat /\ None \notin Version \cup Reading

VARIABLES disk,     \* the files
          docs,     \* State.documents, and the chunks each row stands for
          memory,   \* whether a memory chunk is stored
          saved,    \* both as snapshot.json has them
          partial,  \* documents_only
          pc, todo, \* where the call is, and the files it has yet to look at
          opts,     \* what it was asked, and the files its walk found
          cur,      \* the file it is at, as far as it was read
          report,   \* its answer
          edits,
          failed,   \* history: a call ended in an error since the last save
          before,   \* history: docs when the call began
          during    \* history: what each file has been since then

call == <<pc, todo, opts, cur, report>>
vars == <<disk, docs, memory, saved, partial, call, edits, failed, before, during>>

NoReport == [unchanged |-> {}, modified |-> {}, new |-> {}, removed |-> {}]
Known(rows) == {f \in File : rows[f] # None}

Init == /\ disk \in [File -> {None, [body |-> 0, stamp |-> 0]}]
        /\ docs = [f \in File |-> None]
        /\ memory = FALSE
        /\ saved = [docs |-> docs, memory |-> FALSE]
        /\ partial = FALSE
        /\ pc = "idle" /\ todo = {} /\ cur = None /\ report = NoReport
        /\ opts = [whole |-> FALSE, paths |-> {}, force |-> FALSE, seen |-> {}]
        /\ edits = 0 /\ failed = FALSE
        /\ before = docs
        /\ during = [f \in File |-> {}]

Exists(f) == disk[f] # None

\* The row has the mtime and size of the file.
Same(f) == Exists(f) /\ docs[f] # None /\ docs[f].stamp = disk[f].stamp

-------------------------------------------------------------------------------
\* The editor.  Every write leaves another mtime or size.

Becomes(f, version) ==
    /\ edits < MaxEdits
    /\ edits' = edits + 1
    /\ disk' = [disk EXCEPT ![f] = version]
    /\ during' = IF pc = "idle" THEN during ELSE [during EXCEPT ![f] = @ \cup {version}]
    /\ UNCHANGED <<docs, memory, saved, partial, call, failed, before>>

Write(f, body) == Becomes(f, [body |-> body, stamp |-> edits + 1])
Delete(f) == Exists(f) /\ Becomes(f, None)

-------------------------------------------------------------------------------
\* Steps of a call.

Steady == UNCHANGED <<disk, edits, before, during>>
SameState == UNCHANGED <<docs, memory, saved, partial, failed>>

\* collect: the files there are under the paths.
Collected(paths) == {f \in paths : Exists(f)}

Begin(at, asked, force, walk, files) ==
    /\ pc = "idle"
    /\ pc' = at
    /\ opts' = [whole |-> asked.whole, paths |-> asked.paths,
                force |-> force, seen |-> Collected(walk)]
    /\ todo' = files
    /\ before' = docs
    /\ during' = [f \in File |-> {disk[f]}]
    /\ UNCHANGED <<disk, edits, cur, report>>

\* The call answers with an error.  What it did in memory stays.
Fail == /\ pc' = "idle"
        /\ todo' = {} /\ cur' = None /\ report' = NoReport
        /\ failed' = TRUE
        /\ during' = [f \in File |-> {}]
        /\ UNCHANGED <<disk, docs, memory, saved, partial, opts, edits, before>>

Filed(list, f) == report' = [report EXCEPT ![list] = @ \cup {f}]

\* f goes to one of the lists, and the call to the next file.
Next1(f, at, list) ==
    /\ Filed(list, f)
    /\ todo' = todo \ {f}
    /\ pc' = at
    /\ cur' = None
    /\ UNCHANGED opts
    /\ Steady

\* The mtime and size of f are read; its text comes next.
Open1(f, at) ==
    /\ cur' = [file |-> f, stamp |-> disk[f].stamp, body |-> 0]
    /\ pc' = at
    /\ UNCHANGED <<todo, opts, report>>
    /\ Steady /\ SameState

\* reindex_file: the text now, under the mtime and size read before.
ReindexFile(f) ==
    docs' = [docs EXCEPT ![f] = [body |-> disk[f].body, stamp |-> cur.stamp]]

Save == /\ saved' = [docs |-> docs', memory |-> memory']
        /\ failed' = FALSE

Done(at) == /\ todo = {}
            /\ pc' = at
            /\ UNCHANGED <<todo, opts, cur>>
            /\ Steady

-------------------------------------------------------------------------------
\* index.

\* A documents-only store is first compared as it is; --force from the
\* command line is left to SnapshotStore.
StartIndex(asked, force) ==
    LET quick == partial /\ Known(docs) # {}
    IN  /\ force => ~partial
        /\ Begin(IF quick THEN "quick" ELSE "index", asked, force,
                 asked.paths, Collected(asked.paths))
        /\ partial' = quick
        /\ UNCHANGED <<docs, memory, saved, failed>>

\* index_if_unchanged finds a difference: the store is read in full and the
\* tree walked again.
Restart == /\ pc' = "index"
           /\ opts' = [opts EXCEPT !.seen = Collected(opts.paths)]
           /\ todo' = Collected(opts.paths)
           /\ report' = NoReport
           /\ partial' = FALSE
           /\ UNCHANGED <<docs, memory, saved, failed, cur>>
           /\ Steady

QuickStat(f) ==
    /\ pc = "quick" /\ f \in todo
    /\ \/ Same(f) /\ Next1(f, "quick", "unchanged") /\ SameState
       \/ ~Same(f) /\ (IF docs[f] = None THEN TRUE ELSE Exists(f)) /\ Restart
       \/ docs[f] # None /\ ~Exists(f) /\ Fail

QuickEnd ==
    /\ pc = "quick" /\ todo = {}
    /\ IF opts.whole /\ ~(Known(docs) \subseteq opts.seen)
       THEN Restart
       ELSE Done("indexed") /\ SameState /\ UNCHANGED report

IndexStat(f) ==
    /\ pc = "index" /\ f \in todo
    /\ \/ ~Exists(f) /\ Fail
       \/ Exists(f) /\ (opts.force \/ ~Same(f)) /\ Open1(f, "read")
       \/ ~opts.force /\ Same(f) /\ Next1(f, "index", "unchanged") /\ SameState

IndexRead ==
    LET f == cur.file
    IN  /\ pc = "read"
        /\ \/ ~Exists(f) /\ Fail
           \/ /\ Exists(f)
              /\ ReindexFile(f)
              /\ Next1(f, "index", "modified")
              /\ UNCHANGED <<memory, saved, partial, failed>>

\* Mutant: documents of files that are gone stay when nothing was indexed.
IndexEnd_KeepsGone ==
    LET gone == IF opts.whole /\ report.modified # {} THEN Known(docs) \ opts.seen ELSE {}
    IN  /\ pc = "index"
        /\ Done("indexed")
        /\ docs' = [f \in File |-> IF f \in gone THEN None ELSE docs[f]]
        /\ memory' = (memory /\ ~opts.whole)
        /\ report' = [report EXCEPT !.removed = gone]
        /\ IF report.modified # {} \/ gone # {} \/ opts.force
           THEN Save ELSE UNCHANGED <<saved, failed>>
        /\ UNCHANGED partial

\* drop_unseen and the save.  The memory chunk has no file: an index of the
\* whole tree drops it, and that alone is not saved.
IndexEnd ==
    LET gone == IF opts.whole THEN Known(docs) \ opts.seen ELSE {}
    IN  /\ pc = "index"
        /\ Done("indexed")
        /\ docs' = [f \in File |-> IF f \in gone THEN None ELSE docs[f]]
        /\ memory' = (memory /\ ~opts.whole)
        /\ report' = [report EXCEPT !.removed = gone]
        /\ IF report.modified # {} \/ gone # {} \/ opts.force
           THEN Save ELSE UNCHANGED <<saved, failed>>
        /\ UNCHANGED partial

-------------------------------------------------------------------------------
\* detect.

\* All documents: with a memory chunk there is no first pass.
StartDetect ==
    /\ Begin(IF memory THEN "compare" ELSE "aligned",
             [whole |-> TRUE, paths |-> File], FALSE, File, Known(docs))
    /\ partial' = (partial /\ ~memory)
    /\ UNCHANGED <<docs, memory, saved, failed>>

\* Named paths only; the command line names none.
StartDetectOnly(f) ==
    /\ ~partial
    /\ Begin("compare", [whole |-> FALSE, paths |-> {f}], FALSE, File, {f})
    /\ SameState

\* Mutant: the second pass keeps the list of the first.
AlignedStat_KeepsList(f) ==
    /\ pc = "aligned" /\ f \in todo
    /\ \/ Same(f) /\ Next1(f, "aligned", "unchanged") /\ SameState
       \/ /\ ~Same(f)
          /\ pc' = "compare"
          /\ todo' = Known(docs)
          /\ partial' = FALSE
          /\ UNCHANGED <<docs, memory, saved, failed, opts, cur, report>>
          /\ Steady

\* The first pass; one difference starts the second.
AlignedStat(f) ==
    /\ pc = "aligned" /\ f \in todo
    /\ \/ Same(f) /\ Next1(f, "aligned", "unchanged") /\ SameState
       \/ /\ ~Same(f)
          /\ pc' = "compare"
          /\ todo' = Known(docs)
          /\ report' = NoReport
          /\ partial' = FALSE
          /\ UNCHANGED <<docs, memory, saved, failed, opts, cur>>
          /\ Steady

\* New are the files of the walk that had no row when the call began.
NewFiles == {f \in opts.seen : before[f] = None}

AlignedEnd ==
    /\ pc = "aligned"
    /\ Done("detected")
    /\ report' = [report EXCEPT !.new = NewFiles]
    /\ SameState

Compare(f) ==
    /\ pc = "compare" /\ f \in todo
    /\ \/ /\ ~Exists(f)
          /\ docs' = [docs EXCEPT ![f] = None]
          /\ Next1(f, "compare", "removed")
          /\ UNCHANGED <<memory, saved, partial, failed>>
       \/ /\ Exists(f)
          /\ cur' = [file |-> f, stamp |-> 0, body |-> 0]
          /\ pc' = "stat"
          /\ UNCHANGED <<todo, opts, report>>
          /\ Steady /\ SameState

\* The file is there, and its mtime and size are read next.
CompareStat ==
    LET f == cur.file
    IN  /\ pc = "stat"
        /\ \/ ~Exists(f) /\ Fail
           \/ Same(f) /\ Next1(f, "compare", "unchanged") /\ SameState
           \/ Exists(f) /\ ~Same(f) /\ Open1(f, "hash")

SameText(f) == docs[f] # None /\ docs[f].body = disk[f].body

\* The file is read and its hash compared: the row of a file with the same
\* text keeps its old mtime.
Hash ==
    LET f == cur.file
    IN  /\ pc = "hash"
        /\ \/ ~Exists(f) /\ Fail
           \/ /\ Exists(f) /\ SameText(f)
              /\ Next1(f, "compare", "unchanged")
              /\ SameState
           \/ /\ Exists(f) /\ ~SameText(f)
              /\ cur' = [cur EXCEPT !.body = disk[f].body]
              /\ pc' = "reindex"
              /\ UNCHANGED <<todo, opts, report>>
              /\ Steady /\ SameState

\* Mutant: the text that was hashed, under mtime and size read again.
Reindex_Restat ==
    LET f == cur.file
    IN  /\ pc = "reindex"
        /\ \/ ~Exists(f) /\ Fail
           \/ /\ Exists(f)
              /\ docs' = [docs EXCEPT ![f] = [body |-> cur.body, stamp |-> disk[f].stamp]]
              /\ Next1(f, "compare", "modified")
              /\ UNCHANGED <<memory, saved, partial, failed>>

\* reindex_file reads the file a second time.
Reindex ==
    LET f == cur.file
    IN  /\ pc = "reindex"
        /\ \/ ~Exists(f) /\ Fail
           \/ /\ Exists(f)
              /\ ReindexFile(f)
              /\ Next1(f, "compare", "modified")
              /\ UNCHANGED <<memory, saved, partial, failed>>

\* Mutant: a detect that only dropped documents does not save.
DetectEnd_ForgetsDrops ==
    /\ pc = "compare"
    /\ Done("detected")
    /\ report' = [report EXCEPT !.new = NewFiles]
    /\ UNCHANGED <<docs, memory, partial>>
    /\ IF report.modified # {} THEN Save ELSE UNCHANGED <<saved, failed>>

DetectEnd ==
    /\ pc = "compare"
    /\ Done("detected")
    /\ report' = [report EXCEPT !.new = NewFiles]
    /\ UNCHANGED <<docs, memory, partial>>
    /\ IF report.modified # {} \/ report.removed # {}
       THEN Save ELSE UNCHANGED <<saved, failed>>

Answer == /\ pc \in {"indexed", "detected"}
          /\ pc' = "idle"
          /\ report' = NoReport
          /\ during' = [f \in File |-> {}]
          /\ UNCHANGED <<disk, todo, opts, cur, edits, before>>
          /\ SameState

-------------------------------------------------------------------------------
\* Calls that read no file.

Quick1 == pc = "idle" /\ UNCHANGED <<disk, call, edits, before, during>>

\* remove.
RemoveDoc(f) == /\ Quick1 /\ docs[f] # None /\ ~partial
             /\ docs' = [docs EXCEPT ![f] = None]
             /\ UNCHANGED <<memory, partial>>
             /\ Save

\* llm_embed of an unknown id.
EmbedMemory == /\ Quick1 /\ ~partial /\ memory' = TRUE
               /\ UNCHANGED <<docs, partial>>
               /\ Save

\* Any other call that saves: an annotation, a lock, a session.
OtherSave == /\ Quick1 /\ ~partial
             /\ UNCHANGED <<docs, memory, partial>>
             /\ Save

Clear == /\ Quick1 /\ ~partial
         /\ docs' = [f \in File |-> None] /\ memory' = FALSE
         /\ UNCHANGED partial
         /\ Save

\* Another process opens the store, or this one reads it again.
Open(rowsOnly) ==
    /\ Quick1
    /\ docs' = saved.docs /\ memory' = saved.memory
    /\ partial' = rowsOnly
    /\ failed' = FALSE
    /\ UNCHANGED saved

Step == \/ \E f \in File : \/ QuickStat(f) \/ IndexStat(f)
                           \/ AlignedStat(f) \/ Compare(f)
        \/ QuickEnd \/ IndexRead \/ IndexEnd
        \/ AlignedEnd \/ CompareStat \/ Hash \/ Reindex \/ DetectEnd
        \/ Answer

Next == \/ \E f \in File, body \in 0..1 : Write(f, body)
        \/ \E f \in File : Delete(f) \/ StartDetectOnly(f) \/ RemoveDoc(f)
        \/ \E asked \in Asked, force \in BOOLEAN : StartIndex(asked, force)
        \/ StartDetect \/ EmbedMemory \/ OtherSave \/ Clear
        \/ \E rowsOnly \in BOOLEAN : Open(rowsOnly)
        \/ Step

Spec == Init /\ [][Next]_vars

-------------------------------------------------------------------------------
Lists == {"unchanged", "modified", "new", "removed"}

\* The types of the state, and a call lists a file once.
TypeOK ==
    /\ disk \in [File -> Version \cup {None}]
    /\ docs \in [File -> Version \cup {None}]
    /\ memory \in BOOLEAN /\ partial \in BOOLEAN /\ failed \in BOOLEAN
    /\ saved \in [docs : [File -> Version \cup {None}], memory : BOOLEAN]
    /\ pc \in {"idle", "quick", "index", "read", "indexed",
               "aligned", "compare", "stat", "hash", "reindex", "detected"}
    /\ todo \subseteq File /\ edits \in 0..MaxEdits
    /\ opts \in [whole : BOOLEAN, paths : SUBSET File, force : BOOLEAN, seen : SUBSET File]
    /\ IF pc \in {"read", "stat", "hash", "reindex"}
       THEN cur \in Reading /\ cur.file \in todo ELSE cur = None
    /\ report \in [Lists -> SUBSET File]
    /\ before \in [File -> Version \cup {None}]
    /\ during \in [File -> SUBSET (Version \cup {None})]
    /\ partial => saved = [docs |-> docs, memory |-> memory]

\* A document row that has the file's mtime and size has the file's text:
\* whatever the editor does during a call, an edit is never taken for indexed.
StampTells ==
    \A f \in File : \A row \in {docs[f], saved.docs[f]} :
        row # None /\ Exists(f) /\ row.stamp = disk[f].stamp => row = disk[f]

\* The files the editor left alone since the call began.
Quiet(f) == during[f] = {disk[f]}
SameBody(f) == Exists(f) /\ before[f] # None /\ before[f].body = disk[f].body
InScope(f) == IF opts.whole THEN before[f] # None ELSE f \in opts.paths

\* detect's answer on every file that was left alone is right, and each of
\* its lists is backed by what the file was at some moment of the call.
ReportExact ==
    pc = "detected" => \A f \in File :
        /\ Quiet(f) =>
            /\ f \in report.unchanged <=> InScope(f) /\ SameBody(f)
            /\ f \in report.modified <=> InScope(f) /\ Exists(f) /\ ~SameBody(f)
            /\ f \in report.removed <=> InScope(f) /\ ~Exists(f)
            /\ f \in report.new <=> Exists(f) /\ before[f] = None
        /\ f \in report.removed => None \in during[f]
        /\ f \in report.unchanged \cup report.modified =>
            /\ docs[f] # None
            /\ \E v \in during[f] : v # None /\ v.body = docs[f].body
        /\ \A k, l \in {"unchanged", "modified", "removed"} :
            f \in report[k] \cap report[l] => k = l

\* After an index every file that was left alone is indexed as it is, and the
\* document of one that is gone has gone with it.
IndexSettles ==
    pc = "indexed" => \A f \in opts.paths : Quiet(f) =>
        /\ Exists(f) => docs[f] # None /\ docs[f].body = disk[f].body
        /\ opts.whole /\ ~Exists(f) => docs[f] = None

\* Between calls the snapshot has the documents in memory, unless a call
\* failed since the last save.
Stored == pc = "idle" /\ ~failed => saved.docs = docs
===============================================================================
