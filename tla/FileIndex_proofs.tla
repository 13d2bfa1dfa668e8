---------------------------- MODULE FileIndex_proofs ----------------------------
(***************************************************************************)
(* Proofs about FileIndex, for any files and any number of edits, then     *)
(* about the walk that an index call makes (WalkTasks, ProjectWalk), and   *)
(* about what follows the symbol graph (GraphTasks, SymbolGraph).          *)
(*                                                                         *)
(* An edit is never taken for indexed because a row gets the mtime and     *)
(* size of a moment no later than that of its text: if the file still has  *)
(* them when its text is read, it has not changed between the two; if it   *)
(* has changed, the row's are older than any the file will have again.     *)
(* What a call answers is right for a moment of the call, which is all of  *)
(* it for a file that was left alone.                                      *)
(***************************************************************************)
EXTENDS FileIndex, WalkTasks, GraphTasks,
        FiniteSetTheorems, SequenceTheorems, WellFoundedInduction, TLAPS

\* A call that may change the chunks has the whole store in memory.
Full == pc \in {"index", "read", "compare", "stat", "hash", "reindex"} => ~partial

\* No mtime is ahead of the editor.
NotAhead(row) == row # None => row.stamp <= edits
Stamped == /\ \A f \in File : NotAhead(disk[f]) /\ NotAhead(docs[f]) /\ NotAhead(saved.docs[f])
           /\ cur # None => cur.stamp <= edits

\* Rows the snapshot does not have are in the call's lists.
Unsaved ==
    /\ ~failed /\ pc \in {"idle", "quick", "aligned", "indexed", "detected"} =>
        saved.docs = docs
    /\ ~failed /\ pc \in {"index", "read"} /\ report.modified = {} => saved.docs = docs
    /\ ~failed /\ pc \in {"compare", "stat", "hash", "reindex"}
        /\ report.modified = {} /\ report.removed = {} => saved.docs = docs

Inv == TypeOK /\ Full /\ Stamped /\ StampTells /\ Unsaved

LEMMA InitInv == Init => Inv
<1> SUFFICES ASSUME Init PROVE Inv
  OBVIOUS
<1> USE FileIndexAssumption DEF Init
<1>1. TypeOK
  <2>1. NoReport \in [Lists -> SUBSET File]
    BY DEF NoReport, Lists
  <2>2. disk \in [File -> Version \cup {None}]
    BY DEF Version
  <2>3. docs \in [File -> Version \cup {None}] /\ before = docs
    OBVIOUS
  <2>4. during \in [File -> SUBSET (Version \cup {None})]
    OBVIOUS
  <2>5. opts \in [whole : BOOLEAN, paths : SUBSET File, force : BOOLEAN, seen : SUBSET File]
    OBVIOUS
  <2>6. saved \in [docs : [File -> Version \cup {None}], memory : BOOLEAN]
    BY <2>3
  <2>7. todo \subseteq File /\ edits \in 0..MaxEdits
    OBVIOUS
  <2> QED BY <2>1, <2>2, <2>3, <2>4, <2>5, <2>6, <2>7 DEF TypeOK
<1>2. Full /\ Unsaved
  BY DEF Full, Unsaved
<1>3. Stamped
  BY DEF Stamped, NotAhead
<1>4. StampTells
  BY DEF StampTells
<1> QED BY <1>1, <1>2, <1>3, <1>4 DEF Inv

LEMMA EditorStep ==
    ASSUME Inv, NEW f \in File, (\E body \in 0..1 : Write(f, body)) \/ Delete(f)
    PROVE  Inv'
<1> USE FileIndexAssumption DEF Inv
<1>1. PICK version : /\ Becomes(f, version)
                     /\ version # None => version \in Version /\ version.stamp = edits + 1
  <2>1. CASE Delete(f)
    BY <2>1 DEF Delete
  <2>2. CASE \E body \in 0..1 : Write(f, body)
    <3>1. PICK body \in 0..1 : Write(f, body)
      BY <2>2
    <3>2. edits + 1 \in 0..MaxEdits
      BY <3>1 DEF Write, Becomes, TypeOK
    <3>3. [body |-> body, stamp |-> edits + 1] \in Version
      BY <3>2 DEF Version
    <3> QED BY <3>1, <3>3 DEF Write
  <2> QED BY <2>1, <2>2
<1>2. TypeOK'
  BY <1>1 DEF Becomes, TypeOK, call
<1>3. Full' /\ Unsaved'
  BY <1>1 DEF Becomes, Full, Unsaved, call
<1>4. Stamped'
  BY <1>1 DEF Becomes, Stamped, NotAhead, TypeOK, call, Version, Reading
<1>5. StampTells'
  BY <1>1 DEF Becomes, StampTells, Stamped, NotAhead, TypeOK, Exists, call, Version
<1> QED BY <1>2, <1>3, <1>4, <1>5

\* A call that ends in an error.
LEMMA FailStep == ASSUME Inv, Fail PROVE Inv'
<1> USE FileIndexAssumption DEF Inv, Fail
<1>1. TypeOK'
  BY DEF TypeOK, NoReport, Lists
<1>2. Full' /\ Unsaved'
  BY DEF Full, Unsaved
<1>3. Stamped' /\ StampTells'
  BY DEF Stamped, NotAhead, StampTells, Exists
<1> QED BY <1>1, <1>2, <1>3

\* A call that goes on without a change of the store, in the same pass.
LEMMA GoOn ==
    ASSUME Inv, SameState, Steady, UNCHANGED opts,
           todo' \subseteq File, report' \in [Lists -> SUBSET File],
           report'.modified = report.modified, report'.removed = report.removed,
           \/ pc' \in {"index", "quick", "aligned", "compare", "indexed", "detected", "idle"}
              /\ cur' = None
           \/ pc' \in {"read", "stat", "hash", "reindex"}
              /\ cur' \in Reading /\ cur'.file \in todo' /\ cur'.stamp <= edits,
           \/ pc' \in {"indexed", "detected", "quick", "aligned"} /\ pc \in {"quick", "aligned"}
           \/ pc' \in {"index", "read"} /\ pc \in {"index", "read"}
           \/ pc' \in {"compare", "stat", "hash", "reindex"} /\ pc \in {"compare", "stat", "hash", "reindex"}
    PROVE  Inv'
<1> USE FileIndexAssumption DEF Inv, SameState, Steady
<1>1. TypeOK'
  BY DEF TypeOK
<1>2. Full' /\ Unsaved'
  BY DEF Full, Unsaved
<1>3. Stamped' /\ StampTells'
  BY DEF Stamped, NotAhead, StampTells, Exists
<1> QED BY <1>1, <1>2, <1>3

\* A pass over the documents starts, with the whole store in memory if it is
\* one that may change it.
LEMMA PassStep ==
    ASSUME Inv, cur' = None, edits' = edits,
           UNCHANGED <<disk, docs, memory, saved, failed>>,
           pc' \in {"quick", "index", "aligned", "compare"},
           pc \in {"idle", "quick", "aligned"},
           partial' \in BOOLEAN, partial' => partial /\ pc' \in {"quick", "aligned"},
           todo' \subseteq File, opts' \in [whole : BOOLEAN, paths : SUBSET File, force : BOOLEAN, seen : SUBSET File],
           report' \in [Lists -> SUBSET File],
           before' \in [File -> Version \cup {None}],
           during' \in [File -> SUBSET (Version \cup {None})]
    PROVE  Inv'
<1> USE FileIndexAssumption DEF Inv
<1>1. TypeOK'
  BY DEF TypeOK
<1>2. Full' /\ Unsaved'
  BY DEF Full, Unsaved
<1>3. Stamped' /\ StampTells'
  BY DEF Stamped, NotAhead, StampTells, Exists
<1> QED BY <1>1, <1>2, <1>3

\* The text of a file gets the mtime and size read before it.
LEMMA RowStep ==
    ASSUME Inv, pc \in {"read", "reindex"}, Exists(cur.file), ReindexFile(cur.file),
           \/ pc = "read" /\ Next1(cur.file, "index", "modified")
           \/ pc = "reindex" /\ Next1(cur.file, "compare", "modified"),
           UNCHANGED <<memory, saved, partial, failed>>
    PROVE  Inv'
<1> DEFINE f == cur.file
           row == [body |-> disk[f].body, stamp |-> cur.stamp]
<1> USE FileIndexAssumption DEF Inv
<1>1. /\ f \in File /\ f \in todo /\ cur # None /\ cur \in Reading
      /\ disk[f] \in Version /\ disk[f] # None
  BY DEF TypeOK, Exists, Reading
<1>2. row \in Version /\ row # None /\ row.stamp <= edits
  BY <1>1 DEF Version, Stamped, Reading
<1>3. /\ docs' = [docs EXCEPT ![f] = row] /\ docs' \in [File -> Version \cup {None}]
      /\ UNCHANGED <<disk, saved, edits, before, during, opts>>
      /\ todo' = todo \ {f} /\ cur' = None
      /\ report' = [report EXCEPT !.modified = @ \cup {f}]
      /\ pc' \in {"index", "compare"} /\ ~partial'
  BY <1>1, <1>2 DEF ReindexFile, Next1, Filed, Steady, TypeOK, Full
<1>4. report' \in [Lists -> SUBSET File] /\ f \in report'.modified
  BY <1>1, <1>3 DEF TypeOK, Lists
<1>5. TypeOK'
  BY <1>1, <1>3, <1>4 DEF TypeOK
<1>6. Full' /\ Unsaved'
  BY <1>3, <1>4 DEF Full, Unsaved
<1>7. Stamped'
  BY <1>1, <1>2, <1>3 DEF Stamped, NotAhead, TypeOK
<1>8. StampTells'
  <2> SUFFICES ASSUME NEW g \in File, NEW old \in {docs'[g], saved'.docs[g]},
                      old # None, Exists(g)', old.stamp = disk'[g].stamp
               PROVE  old = disk'[g]
    BY DEF StampTells
  <2>1. CASE g = f /\ old = row
    BY <1>1, <1>3, <2>1 DEF Version
  <2>2. CASE old \in {docs[g], saved.docs[g]}
    BY <1>3, <2>2 DEF StampTells, Exists
  <2> QED BY <1>1, <1>3, <2>1, <2>2 DEF TypeOK
<1> QED BY <1>5, <1>6, <1>7, <1>8

LEMMA AskedType ==
    ASSUME NEW asked \in Asked
    PROVE  /\ asked.paths \subseteq File /\ asked.whole \in BOOLEAN
           /\ asked.whole => asked.paths = File
<1>1. \/ asked = [whole |-> TRUE, paths |-> File]
      \/ \E f \in File : asked = [whole |-> FALSE, paths |-> {f}]
  <2>1. CASE asked \in {[whole |-> TRUE, paths |-> File]}
    BY <2>1
  <2>2. CASE asked \in {[whole |-> FALSE, paths |-> {f}] : f \in File}
    BY <2>2
  <2> QED BY <2>1, <2>2 DEF Asked
<1>2. CASE asked = [whole |-> TRUE, paths |-> File]
  BY <1>2
<1>3. ASSUME NEW f \in File, asked = [whole |-> FALSE, paths |-> {f}]
      PROVE  asked.paths \subseteq File /\ ~asked.whole /\ asked.whole \in BOOLEAN
  BY <1>3
<1> QED BY <1>1, <1>2, <1>3

\* The calls begin.
LEMMA BeginStep ==
    ASSUME Inv,
           \/ \E asked \in Asked, force \in BOOLEAN : StartIndex(asked, force)
           \/ StartDetect
           \/ \E f \in File : StartDetectOnly(f)
    PROVE  Inv'
<1> USE FileIndexAssumption DEF Begin, SameState
<1>1. before' = docs /\ during' = [f \in File |-> {disk[f]}] /\ pc = "idle"
  BY DEF StartIndex, StartDetect, StartDetectOnly
<1>2. before' \in [File -> Version \cup {None}] /\ cur = None
      /\ during' \in [File -> SUBSET (Version \cup {None})]
  BY <1>1 DEF Inv, TypeOK
<1>3. ASSUME NEW asked \in Asked, NEW force \in BOOLEAN, StartIndex(asked, force)
      PROVE  Inv'
  <2>1. /\ asked.paths \subseteq File /\ asked.whole \in BOOLEAN
        /\ Collected(asked.paths) \subseteq asked.paths
    BY AskedType DEF Collected
  <2>2. partial' \in BOOLEAN /\ (partial' => partial /\ pc' = "quick")
    BY <1>3 DEF StartIndex, Inv, TypeOK
  <2> QED BY <1>1, <1>2, <1>3, <2>1, <2>2, PassStep DEF StartIndex, Inv, TypeOK
<1>4. CASE StartDetect
  <2>1. Collected(File) \subseteq File /\ Known(docs) \subseteq File
    BY DEF Collected, Known
  <2>2. partial' \in BOOLEAN /\ (partial' => partial /\ pc' = "aligned")
    BY <1>4 DEF StartDetect, Inv, TypeOK
  <2> QED BY <1>1, <1>2, <1>4, <2>1, <2>2, PassStep DEF StartDetect, Inv, TypeOK
<1>5. ASSUME NEW f \in File, StartDetectOnly(f) PROVE Inv'
  <2>1. Collected(File) \subseteq File
    BY DEF Collected
  <2> QED BY <1>1, <1>2, <1>5, <2>1, PassStep DEF StartDetectOnly, Inv, TypeOK
<1> QED BY <1>3, <1>4, <1>5

\* The documents-only comparison of index.
LEMMA QuickStep ==
    ASSUME Inv, QuickEnd \/ \E f \in File : QuickStat(f)
    PROVE  Inv'
<1> USE FileIndexAssumption
<1>1. ASSUME Restart, pc = "quick" PROVE Inv'
  <2>1. Collected(opts.paths) \subseteq File
    BY DEF Collected, Inv, TypeOK
  <2>2. NoReport \in [Lists -> SUBSET File]
    BY DEF NoReport, Lists
  <2>3. opts' \in [whole : BOOLEAN, paths : SUBSET File, force : BOOLEAN, seen : SUBSET File]
    BY <1>1, <2>1 DEF Restart, Inv, TypeOK
  <2> QED BY <1>1, <2>1, <2>2, <2>3, PassStep DEF Restart, Steady, Inv, TypeOK
<1>2. ASSUME NEW f \in File, QuickStat(f) PROVE Inv'
  <2>1. CASE Next1(f, "quick", "unchanged") /\ SameState
    <3>1. report' \in [Lists -> SUBSET File]
          /\ report'.modified = report.modified /\ report'.removed = report.removed
      BY <2>1 DEF Next1, Filed, Inv, TypeOK, Lists
    <3> QED BY <1>2, <2>1, <3>1, GoOn DEF QuickStat, Next1, Inv, TypeOK
  <2> QED BY <1>1, <1>2, <2>1, FailStep DEF QuickStat
<1>3. CASE QuickEnd
  <2>1. CASE Done("indexed") /\ SameState /\ UNCHANGED report
    BY <1>3, <2>1, GoOn DEF QuickEnd, Done, Inv, TypeOK
  <2> QED BY <1>1, <1>3, <2>1 DEF QuickEnd
<1> QED BY <1>2, <1>3

\* A file is looked at, or the pass ends, without a change of the store.
LEMMA LookStep ==
    ASSUME Inv,
           \/ \E f \in File : IndexStat(f)
           \/ CompareStat \/ Hash
           \/ AlignedEnd
    PROVE  Inv'
<1> USE FileIndexAssumption
<1>1. ASSUME NEW f \in File, NEW at \in {"index", "aligned", "compare"},
             Next1(f, at, "unchanged"), SameState,
             pc = at \/ (at = "compare" /\ pc \in {"stat", "hash"})
      PROVE  Inv'
  <2>1. report' \in [Lists -> SUBSET File]
        /\ report'.modified = report.modified /\ report'.removed = report.removed
    BY <1>1 DEF Next1, Filed, Inv, TypeOK, Lists
  <2> QED BY <1>1, <2>1, GoOn DEF Next1, Inv, TypeOK
<1>2. ASSUME NEW f \in File, f \in todo, Exists(f), NEW at \in {"read", "hash"}, Open1(f, at),
             (at = "read" /\ pc = "index") \/ (at = "hash" /\ pc = "stat")
      PROVE  Inv'
  <2>1. disk[f] \in Version /\ disk[f].stamp <= edits
    BY <1>2 DEF Exists, Inv, TypeOK, Stamped, NotAhead
  <2>2. cur' \in Reading /\ cur'.file = f /\ cur'.stamp <= edits
    BY <1>2, <2>1 DEF Open1, Version, Reading
  <2> QED BY <1>2, <2>2, GoOn DEF Open1, Inv, TypeOK
<1>3. ASSUME NEW f \in File, IndexStat(f) PROVE Inv'
  BY <1>1, <1>2, <1>3, FailStep DEF IndexStat
<1>4. ASSUME pc \in {"stat", "hash"} PROVE cur \in Reading /\ cur.file \in File /\ cur.file \in todo
  BY <1>4 DEF Inv, TypeOK
<1>5. CASE CompareStat
  BY <1>1, <1>2, <1>4, <1>5, FailStep DEF CompareStat, Same
<1>6. CASE Hash
  <2>1. CASE pc' = "reindex" /\ Exists(cur.file)
    <3>1. disk[cur.file] \in Version
      BY <1>4, <1>6, <2>1 DEF Hash, Exists, Inv, TypeOK
    <3>2. cur' = [cur EXCEPT !.body = disk[cur.file].body] /\ UNCHANGED <<todo, opts, report>>
          /\ Steady /\ SameState
      BY <1>6, <2>1 DEF Hash, Next1, Fail
    <3>3. cur' \in Reading /\ cur'.file = cur.file /\ cur'.stamp = cur.stamp
      BY <1>4, <1>6, <3>1, <3>2 DEF Hash, Version, Reading
    <3>4. cur.stamp <= edits /\ report \in [Lists -> SUBSET File] /\ pc = "hash" /\ todo \subseteq File
      BY <1>4, <1>6 DEF Hash, Inv, Stamped, TypeOK
    <3> QED BY <1>4, <2>1, <3>2, <3>3, <3>4, GoOn
  <2> QED BY <1>1, <1>4, <1>6, <2>1, FailStep DEF Hash
<1>7. CASE AlignedEnd
  <2>1. NewFiles \subseteq File
    BY DEF NewFiles, Inv, TypeOK
  <2>2. report' \in [Lists -> SUBSET File]
        /\ report'.modified = report.modified /\ report'.removed = report.removed
    BY <1>7, <2>1 DEF AlignedEnd, Inv, TypeOK, Lists
  <2> QED BY <1>7, <2>2, GoOn DEF AlignedEnd, Done, Inv, TypeOK
<1> QED BY <1>3, <1>5, <1>6, <1>7

\* The first pass of detect, and the first half of the second.
LEMMA CompareStep ==
    ASSUME Inv, NEW f \in File, AlignedStat(f) \/ Compare(f)
    PROVE  Inv'
<1> USE FileIndexAssumption
<1>1. CASE AlignedStat(f)
  <2>1. CASE Next1(f, "aligned", "unchanged") /\ SameState
    <3>1. report' \in [Lists -> SUBSET File]
          /\ report'.modified = report.modified /\ report'.removed = report.removed
      BY <2>1 DEF Next1, Filed, Inv, TypeOK, Lists
    <3> QED BY <1>1, <2>1, <3>1, GoOn DEF AlignedStat, Next1, Inv, TypeOK
  <2>2. CASE pc' = "compare"
    <3>1. Known(docs) \subseteq File /\ NoReport \in [Lists -> SUBSET File]
      BY DEF Known, NoReport, Lists
    <3> QED BY <1>1, <2>2, <3>1, PassStep DEF AlignedStat, Next1, Steady, Inv, TypeOK
  <2> QED BY <1>1, <2>1, <2>2 DEF AlignedStat
<1>2. CASE Compare(f)
  <2>1. CASE Exists(f)
    <3>1. cur' = [file |-> f, stamp |-> 0, body |-> 0] /\ cur' \in Reading
      BY <1>2, <2>1 DEF Compare, Reading
    <3>2. cur'.file = f /\ cur'.stamp <= edits
      BY <3>1 DEF Inv, TypeOK
    <3> QED BY <1>2, <2>1, <3>1, <3>2, GoOn DEF Compare, Inv, TypeOK
  <2>2. CASE ~Exists(f)
    <3>1. /\ docs' = [docs EXCEPT ![f] = None]
          /\ UNCHANGED <<disk, edits, before, during, memory, saved, partial, failed, opts>>
          /\ todo' = todo \ {f} /\ pc = "compare" /\ pc' = "compare" /\ cur' = None
          /\ report' = [report EXCEPT !.removed = @ \cup {f}]
      BY <1>2, <2>2 DEF Compare, Next1, Filed, Steady
    <3>2. report' \in [Lists -> SUBSET File] /\ f \in report'.removed
      BY <3>1 DEF Inv, TypeOK, Lists
    <3>3. TypeOK' /\ Full'
      BY <3>1, <3>2 DEF Inv, TypeOK, Full
    <3>4. Unsaved' /\ Stamped' /\ StampTells'
      BY <3>1, <3>2 DEF Inv, TypeOK, Unsaved, Stamped, NotAhead, StampTells, Exists
    <3> QED BY <3>3, <3>4 DEF Inv
  <2> QED BY <2>1, <2>2
<1> QED BY <1>1, <1>2

\* The call ends, or the store changes by more than one row.
LEMMA EndStep ==
    ASSUME Inv,
           \/ IndexEnd \/ DetectEnd \/ Answer
           \/ \E f \in File : RemoveDoc(f)
           \/ EmbedMemory \/ OtherSave \/ Clear
           \/ \E rowsOnly \in BOOLEAN : Open(rowsOnly)
    PROVE  Inv'
<1> USE FileIndexAssumption
\* Documents may only go, the memory chunk may come or go, and if they are
\* not saved then the documents stay.
<1>1. ASSUME NEW gone \in SUBSET File,
             UNCHANGED <<disk, todo, opts, cur, edits, before, partial>>,
             docs' = [g \in File |-> IF g \in gone THEN None ELSE docs[g]],
             memory' \in BOOLEAN,
             Save \/ (UNCHANGED <<saved, failed>> /\ docs' = docs
                       /\ (~failed => saved.docs = docs)),
             pc' \in {"idle", "indexed", "detected"}, ~partial, cur = None,
             report' \in [Lists -> SUBSET File],
             during' \in [File -> SUBSET (Version \cup {None})]
      PROVE  Inv'
  <2>1. docs' \in [File -> Version \cup {None}]
    BY <1>1 DEF Inv, TypeOK
  <2>2. /\ saved' \in [docs : [File -> Version \cup {None}], memory : BOOLEAN]
        /\ failed' \in BOOLEAN /\ (~failed' => saved'.docs = docs')
        /\ saved'.docs = docs' \/ saved' = saved
    <3>1. CASE Save
      BY <1>1, <2>1, <3>1 DEF Save
    <3>2. CASE UNCHANGED <<saved, failed>> /\ docs' = docs /\ (~failed => saved.docs = docs)
      BY <3>2 DEF Inv, TypeOK
    <3> QED BY <1>1, <3>1, <3>2
  <2>3. TypeOK'
    BY <1>1, <2>1, <2>2 DEF Inv, TypeOK
  <2>4. Full' /\ Unsaved'
    BY <1>1, <2>2 DEF Full, Unsaved
  <2>5. Stamped'
    BY <1>1, <2>2 DEF Inv, TypeOK, Stamped, NotAhead
  <2>6. StampTells'
    BY <1>1, <2>2 DEF Inv, TypeOK, StampTells, Exists
  <2> QED BY <2>3, <2>4, <2>5, <2>6 DEF Inv
<1>2. PICK none \in SUBSET File :
        none = {} /\ docs = [g \in File |-> IF g \in none THEN None ELSE docs[g]]
  <2> DEFINE none == {}
  <2>1. none \in SUBSET File /\ none = {}
    OBVIOUS
  <2> HIDE DEF none
  <2>2. docs = [g \in File |-> IF g \in none THEN None ELSE docs[g]]
    BY <2>1 DEF Inv, TypeOK
  <2> QED BY <2>1, <2>2, Zenon
<1>3. CASE IndexEnd
  <2> DEFINE gone == IF opts.whole THEN Known(docs) \ opts.seen ELSE {}
  <2>1. gone \in SUBSET File
    BY DEF Known
  <2>2. report' = [report EXCEPT !.removed = gone] /\ report' \in [Lists -> SUBSET File]
    BY <1>3, <2>1 DEF IndexEnd, Inv, TypeOK, Lists
  <2>3. /\ UNCHANGED <<disk, todo, opts, cur, edits, before, during, partial>>
        /\ docs' = [g \in File |-> IF g \in gone THEN None ELSE docs[g]]
        /\ memory' \in BOOLEAN /\ pc = "index" /\ pc' = "indexed"
        /\ ~partial /\ cur = None
    BY <1>3 DEF IndexEnd, Done, Steady, Inv, TypeOK, Full
  <2>4. Save \/ (UNCHANGED <<saved, failed>> /\ report.modified = {} /\ gone = {})
    BY <1>3 DEF IndexEnd
  <2>5. gone = {} => docs' = docs
    BY <2>3 DEF Inv, TypeOK
  <2> HIDE DEF gone
  <2>6. Save \/ (UNCHANGED <<saved, failed>> /\ docs' = docs /\ (~failed => saved.docs = docs))
    BY <2>3, <2>4, <2>5 DEF Inv, Unsaved
  <2> QED BY <1>1, <2>1, <2>2, <2>3, <2>6 DEF Inv, TypeOK
<1>4. CASE DetectEnd
  <2>1. NewFiles \subseteq File
    BY DEF NewFiles, Inv, TypeOK
  <2>2. report' \in [Lists -> SUBSET File]
    BY <1>4, <2>1 DEF DetectEnd, Inv, TypeOK, Lists
  <2>3. Save \/ (UNCHANGED <<saved, failed>> /\ docs' = docs /\ (~failed => saved.docs = docs))
    BY <1>4 DEF DetectEnd, Inv, Unsaved
  <2> QED BY <1>1, <1>2, <1>4, <2>2, <2>3 DEF DetectEnd, Done, Steady, Inv, TypeOK, Full
<1>5. CASE Answer
  <2>1. NoReport \in [Lists -> SUBSET File]
    BY DEF NoReport, Lists
  <2>2. TypeOK' /\ Full' /\ Unsaved'
    BY <1>5, <2>1 DEF Answer, SameState, Inv, TypeOK, Full, Unsaved
  <2>3. Stamped' /\ StampTells'
    BY <1>5 DEF Answer, SameState, Inv, Stamped, NotAhead, StampTells, Exists
  <2> QED BY <2>2, <2>3 DEF Inv
<1>6. CASE \E f \in File : RemoveDoc(f)
  <2>1. PICK f \in File : RemoveDoc(f)
    BY <1>6
  <2>2. docs' = [g \in File |-> IF g \in {f} THEN None ELSE docs[g]]
    BY <2>1 DEF RemoveDoc, Inv, TypeOK
  <2>3. {f} \in SUBSET File
    OBVIOUS
  <2>4. /\ UNCHANGED <<disk, pc, todo, opts, cur, report, edits, before, during, memory, partial>>
        /\ Save /\ ~partial /\ pc = "idle"
    BY <2>1 DEF RemoveDoc, Quick1, call
  <2>5. /\ cur = None /\ memory \in BOOLEAN /\ report \in [Lists -> SUBSET File]
        /\ during \in [File -> SUBSET (Version \cup {None})]
    BY <2>4 DEF Inv, TypeOK
  <2> QED BY <1>1, <2>2, <2>3, <2>4, <2>5
<1>7. CASE EmbedMemory \/ OtherSave
  <2>1. /\ UNCHANGED <<disk, docs, pc, todo, opts, cur, report, edits, before, during, partial>>
        /\ Save /\ ~partial /\ pc = "idle" /\ memory' \in {memory, TRUE}
    BY <1>7 DEF EmbedMemory, OtherSave, Quick1, call
  <2>2. /\ cur = None /\ memory' \in BOOLEAN /\ report \in [Lists -> SUBSET File]
        /\ during \in [File -> SUBSET (Version \cup {None})]
    BY <2>1 DEF Inv, TypeOK
  <2> QED BY <1>1, <1>2, <2>1, <2>2
<1>8. CASE Clear
  <2>1. docs' = [g \in File |-> IF g \in File THEN None ELSE docs[g]]
    BY <1>8 DEF Clear
  <2> QED BY <1>1, <1>8, <2>1 DEF Clear, Quick1, call, Inv, TypeOK
<1>9. CASE \E rowsOnly \in BOOLEAN : Open(rowsOnly)
  <2>1. TypeOK' /\ Full' /\ Unsaved'
    BY <1>9 DEF Open, Quick1, call, Inv, TypeOK, Full, Unsaved
  <2>2. Stamped' /\ StampTells'
    BY <1>9 DEF Open, Quick1, call, Inv, TypeOK, Stamped, NotAhead, StampTells, Exists
  <2> QED BY <2>1, <2>2 DEF Inv
<1> QED BY <1>3, <1>4, <1>5, <1>6, <1>7, <1>8, <1>9

LEMMA NextInv == Inv /\ [Next]_vars => Inv'
<1> SUFFICES ASSUME Inv, [Next]_vars PROVE Inv'
  OBVIOUS
<1>1. CASE UNCHANGED vars
  <2>1. TypeOK' /\ Full' /\ Unsaved'
    BY <1>1 DEF vars, call, Inv, TypeOK, Full, Unsaved
  <2>2. Stamped' /\ StampTells'
    BY <1>1 DEF vars, call, Inv, Stamped, NotAhead, StampTells, Exists
  <2> QED BY <2>1, <2>2 DEF Inv
<1>2. CASE IndexRead \/ Reindex
  <2>1. CASE Exists(cur.file)
    BY <1>2, <2>1, RowStep DEF IndexRead, Reindex
  <2>2. CASE ~Exists(cur.file)
    BY <1>2, <2>2, FailStep DEF IndexRead, Reindex
  <2> QED BY <2>1, <2>2
<1>3. CASE Next /\ ~(IndexRead \/ Reindex)
  BY <1>3, EditorStep, BeginStep, QuickStep, LookStep, CompareStep, EndStep DEF Next, Step
<1> QED BY <1>1, <1>2, <1>3

LEMMA Invariance == Spec => []Inv
BY InitInv, NextInv, PTL DEF Spec

\* The state keeps its types, a call lists a file once, and document rows alone
\* are never in memory when they differ from the snapshot's.
THEOREM TypeCorrect == Spec => []TypeOK
BY Invariance, PTL DEF Inv

\* Whatever the editor does during index and detect (Engine::index,
\* Engine::detect_with), a row with the mtime and size of its file has the
\* text of its file: the next call cannot take an edit for indexed.
THEOREM NoMissedEdit == Spec => []StampTells
BY Invariance, PTL DEF Inv

\* Between calls the snapshot has the documents in memory, unless a call
\* ended in an error since the last save.
THEOREM SnapshotFollows == Spec => []Stored
<1>1. Inv => Stored
  BY DEF Inv, Unsaved, Stored
<1> QED BY <1>1, Invariance, PTL
-------------------------------------------------------------------------------
(* What the calls answer.  The editor's writes of a call are in during, so a   *)
(* file it left alone is the same at every step of the call: what the call     *)
(* saw of it still holds when the call answers.                                *)

Watched == pc # "idle" => \A f \in File : disk[f] \in during[f]

Indexing == pc \in {"quick", "index", "read", "indexed"}
Detecting == pc \in {"aligned", "compare", "stat", "hash", "reindex", "detected"}

\* The walk saw f if it is there.
Seen(f) == Quiet(f) => (f \in opts.seen <=> Exists(f))

\* f was there during the call, with this text, or with another than its row's.
Had(f, body) == \E v \in during[f] : v # None /\ v.body = body
HadOther(f) == \E v \in during[f] : v # None /\ (before[f] = None \/ v.body # before[f].body)

\* What an index has done with f.
IndexDone(f) ==
    /\ Seen(f)
    /\ f \in opts.seen \ todo /\ Quiet(f) => docs[f] # None /\ docs[f].body = disk[f].body
    /\ opts.whole /\ pc = "indexed" /\ Quiet(f) /\ ~Exists(f) => docs[f] = None

\* What detect has done with f: it is still to be looked at, and has its row
\* from the beginning, or it is in one list for what it was when looked at.
DetectDone(f) ==
    /\ Seen(f)
    /\ InScope(f) <=> f \in todo \cup report.unchanged \cup report.modified \cup report.removed
    /\ f \in todo => f \notin report.unchanged \cup report.modified \cup report.removed
    /\ f \in report.unchanged => f \notin report.modified \cup report.removed
    /\ f \in report.modified => f \notin report.removed
    /\ f \in todo \cup report.unchanged => docs[f] = before[f]
    /\ f \in report.unchanged \cup report.modified => docs[f] # None /\ Had(f, docs[f].body)
    /\ f \in report.modified => HadOther(f)
    /\ f \in report.removed => None \in during[f]

CallInv ==
    /\ Watched
    /\ opts.whole => opts.paths = File
    /\ Indexing => \A f \in opts.paths : IndexDone(f)
    /\ Detecting => \A f \in File : DetectDone(f)
    /\ pc = "aligned" => docs = before /\ opts.whole
    /\ pc = "reindex" => HadOther(cur.file)
    /\ pc \in {"aligned", "compare", "stat", "hash", "reindex"} => report.new = {}
    /\ pc = "detected" => report.new = NewFiles
    /\ pc \in {"indexed", "detected"} => todo = {}
    /\ pc = "idle" => report = NoReport

LEMMA InitCall == Init => CallInv
BY DEF Init, CallInv, Watched, Indexing, Detecting

\* Between calls there is nothing to say.
LEMMA IdleCall ==
    ASSUME CallInv, pc' = "idle", UNCHANGED opts, report' = NoReport
    PROVE  CallInv'
BY DEF CallInv, Watched, Indexing, Detecting

\* A write shows: the file is no longer one that was left alone.
LEMMA EditorCall ==
    ASSUME Inv, CallInv, NEW f \in File, NEW version, Becomes(f, version)
    PROVE  CallInv'
<1> USE DEF Becomes, call
<1>1. CASE pc = "idle"
  BY <1>1, IdleCall DEF CallInv
<1>2. CASE pc # "idle"
  <2>1. ASSUME NEW g \in File
        PROVE  /\ during[g] \subseteq during'[g] /\ disk'[g] \in during'[g]
               /\ Quiet(g)' => Quiet(g) /\ disk'[g] = disk[g]
    <3>1. disk[g] \in during[g]
      BY <1>2 DEF CallInv, Watched
    <3>2. CASE g = f
      <4>1. disk'[g] = version /\ during'[g] = during[g] \cup {version}
        BY <1>2, <3>2 DEF Inv, TypeOK
      <4> QED BY <3>1, <4>1 DEF Quiet
    <3>3. CASE g # f
      <4>1. disk'[g] = disk[g] /\ during'[g] = during[g]
        BY <1>2, <3>3 DEF Inv, TypeOK
      <4> QED BY <3>1, <4>1 DEF Quiet
    <3> QED BY <3>2, <3>3
  <2>2. Watched'
    BY <2>1 DEF Watched
  <2>3. ASSUME Indexing PROVE \A g \in opts.paths : IndexDone(g)'
    <3>1. opts.paths \subseteq File
      BY DEF Inv, TypeOK
    <3> QED BY <2>1, <2>3, <3>1 DEF CallInv, IndexDone, Seen, Exists
  <2>4. ASSUME Detecting, NEW g \in File PROVE DetectDone(g)'
    <3>1. DetectDone(g)
      BY <2>4 DEF CallInv
    <3>2. Seen(g)'
      BY <2>1, <3>1 DEF DetectDone, Seen, Exists
    <3>3. /\ Had(g, docs[g].body) => Had(g, docs[g].body)'
          /\ HadOther(g) => HadOther(g)'
      BY <2>1 DEF Had, HadOther
    <3> QED BY <2>1, <3>1, <3>2, <3>3 DEF DetectDone, InScope
  <2>5. pc = "reindex" => HadOther(cur.file)'
    <3>1. pc = "reindex" => cur.file \in File
      BY DEF Inv, TypeOK
    <3> QED BY <2>1, <3>1 DEF CallInv, HadOther
  <2> QED BY <2>2, <2>3, <2>4, <2>5 DEF CallInv, Indexing, Detecting, NewFiles
<1> QED BY <1>1, <1>2

\* A call begins: every file is as it was when the call began.
LEMMA BeginCall ==
    ASSUME Inv, CallInv,
           \/ \E asked \in Asked, force \in BOOLEAN : StartIndex(asked, force)
           \/ StartDetect
           \/ \E f \in File : StartDetectOnly(f)
    PROVE  CallInv'
<1> USE DEF Begin
<1>1. /\ before' = docs /\ docs' = docs /\ during' = [f \in File |-> {disk[f]}]
      /\ disk' = disk /\ report' = NoReport
  BY DEF StartIndex, StartDetect, StartDetectOnly, SameState, CallInv
<1>2. Watched'
  BY <1>1 DEF Watched
<1>3. ASSUME NEW asked \in Asked, NEW force \in BOOLEAN, StartIndex(asked, force)
      PROVE  CallInv'
  <2>1. /\ opts'.paths = asked.paths /\ asked.paths \subseteq File
        /\ opts'.seen = Collected(asked.paths) /\ todo' = Collected(asked.paths)
        /\ opts'.whole => opts'.paths = File
        /\ pc' \in {"quick", "index"}
    BY <1>3, AskedType DEF StartIndex
  <2>2. \A f \in opts'.paths : IndexDone(f)'
    BY <1>1, <2>1 DEF IndexDone, Seen, Collected, Exists
  <2> QED BY <1>2, <2>1, <2>2 DEF CallInv, Indexing, Detecting
<1>4. CASE StartDetect \/ \E f \in File : StartDetectOnly(f)
  <2>1. /\ opts'.seen = Collected(File)
        /\ \/ opts'.whole /\ opts'.paths = File /\ todo' = Known(docs)
              /\ pc' \in {"aligned", "compare"}
           \/ ~opts'.whole /\ opts'.paths = todo' /\ pc' = "compare"
    <3>1. CASE StartDetect
      BY <3>1 DEF StartDetect
    <3>2. ASSUME NEW f \in File, StartDetectOnly(f)
          PROVE  opts'.seen = Collected(File) /\ ~opts'.whole /\ opts'.paths = todo'
                 /\ pc' = "compare"
      BY <3>2 DEF StartDetectOnly
    <3> QED BY <1>4, <3>1, <3>2
  <2>2. ASSUME NEW f \in File PROVE DetectDone(f)'
    <3>1. Seen(f)'
      BY <1>1, <2>1 DEF Seen, Collected, Exists
    <3>2. InScope(f)' <=> f \in todo'
      BY <1>1, <2>1 DEF InScope, Known
    <3> QED BY <1>1, <3>1, <3>2 DEF DetectDone, NoReport
  <2> QED BY <1>1, <1>2, <2>1, <2>2 DEF CallInv, Indexing, Detecting, NoReport
<1> QED BY <1>3, <1>4
\* A step that is not about f, of a detect or of an index.
LEMMA DetectKept ==
    ASSUME NEW f \in File, DetectDone(f), Steady, UNCHANGED <<docs[f], opts>>,
           f \in todo' <=> f \in todo,
           f \in report'.unchanged <=> f \in report.unchanged,
           f \in report'.modified <=> f \in report.modified,
           f \in report'.removed <=> f \in report.removed
    PROVE  DetectDone(f)'
BY DEF DetectDone, Seen, Quiet, Exists, InScope, Had, HadOther, Steady

LEMMA IndexKept ==
    ASSUME NEW f \in File, IndexDone(f), Steady, UNCHANGED <<docs[f], opts>>,
           f \in todo' <=> f \in todo, pc' # "indexed"
    PROVE  IndexDone(f)'
BY DEF IndexDone, Seen, Quiet, Exists, Steady

\* An index is done with one file, and goes on to the next.
LEMMA IndexNext ==
    ASSUME Inv, CallInv, NEW f \in File, Indexing, pc' \in {"quick", "index"},
           NEW list \in {"unchanged", "modified"}, Next1(f, pc', list),
           pc' = "quick" => docs' = docs /\ pc = "quick",
           \A g \in File \ {f} : docs'[g] = docs[g],
           docs'[f] # None, Exists(f), docs'[f].body = disk[f].body
    PROVE  CallInv'
<1> USE DEF Next1
<1>1. ASSUME NEW g \in opts.paths PROVE IndexDone(g)'
  <2>1. g \in File /\ IndexDone(g)
    BY DEF CallInv, Inv, TypeOK
  <2>2. CASE g = f
    BY <2>1, <2>2 DEF IndexDone, Seen, Quiet, Exists, Steady
  <2>3. CASE g # f
    BY <2>1, <2>3, IndexKept
  <2> QED BY <2>2, <2>3
<1>2. Watched'
  BY DEF CallInv, Watched, Steady, Indexing
<1> QED BY <1>1, <1>2 DEF CallInv, Indexing, Detecting, Steady

\* An index looks at a file without a change of anything else.
LEMMA IndexLook ==
    ASSUME Inv, CallInv, pc = "index", pc' = "read", Steady, SameState,
           UNCHANGED <<todo, opts, report>>
    PROVE  CallInv'
<1>1. \A g \in opts.paths : IndexDone(g)'
  BY IndexKept DEF CallInv, Indexing, SameState, Inv, TypeOK
<1>2. Watched'
  BY DEF CallInv, Watched, Steady
<1> QED BY <1>1, <1>2 DEF CallInv, Indexing, Detecting, Steady

LEMMA IndexCall ==
    ASSUME Inv, CallInv,
           \/ \E f \in File : QuickStat(f) \/ IndexStat(f)
           \/ QuickEnd \/ IndexRead \/ IndexEnd
    PROVE  CallInv'
<1>1. \A f \in File : Same(f) => docs[f] = disk[f] /\ Exists(f) /\ docs[f] # None
  BY DEF Same, Inv, StampTells
<1>2. ASSUME Restart, pc = "quick" PROVE CallInv'
  <2>1. \A f \in opts'.paths : IndexDone(f)'
    BY <1>2 DEF Restart, Steady, IndexDone, Seen, Quiet, Exists, Collected, Inv, TypeOK
  <2>2. Watched' /\ opts'.whole = opts.whole /\ opts'.paths = opts.paths
    BY <1>2 DEF Restart, CallInv, Watched, Steady, Inv, TypeOK
  <2> QED BY <1>2, <2>1, <2>2 DEF Restart, CallInv, Indexing, Detecting
<1>3. ASSUME Fail PROVE CallInv'
  BY <1>3, IdleCall DEF Fail
<1>4. ASSUME NEW f \in File, QuickStat(f) PROVE CallInv'
  <2>1. CASE Same(f) /\ Next1(f, "quick", "unchanged") /\ SameState
    BY <1>1, <1>4, <2>1, IndexNext DEF QuickStat, SameState, Indexing, Next1
  <2> QED BY <1>2, <1>3, <1>4, <2>1 DEF QuickStat
<1>5. ASSUME NEW f \in File, IndexStat(f) PROVE CallInv'
  <2>1. CASE Same(f) /\ Next1(f, "index", "unchanged") /\ SameState
    BY <1>1, <1>5, <2>1, IndexNext DEF IndexStat, SameState, Indexing, Next1
  <2>2. CASE Open1(f, "read")
    BY <1>5, <2>2, IndexLook DEF IndexStat, Open1
  <2> QED BY <1>3, <1>5, <2>1, <2>2 DEF IndexStat
<1>6. CASE IndexRead
  <2>1. cur.file \in File
    BY <1>6 DEF IndexRead, Inv, TypeOK
  <2>2. CASE Exists(cur.file)
    <3>1. ReindexFile(cur.file) /\ Next1(cur.file, "index", "modified") /\ pc = "read"
      BY <1>6, <2>2 DEF IndexRead, Fail
    <3>2. /\ docs'[cur.file] = [body |-> disk[cur.file].body, stamp |-> cur.stamp]
          /\ \A g \in File \ {cur.file} : docs'[g] = docs[g]
      BY <2>1, <3>1 DEF ReindexFile, Inv, TypeOK
    <3>3. docs'[cur.file] \in Version
      BY <1>6, <2>1, <2>2, <3>2 DEF IndexRead, Exists, Inv, TypeOK, Version, Reading
    <3>4. docs'[cur.file] # None
      BY <3>3, FileIndexAssumption
    <3> QED BY <2>1, <2>2, <3>1, <3>2, <3>4, IndexNext DEF Indexing, Next1
  <2> QED BY <1>3, <1>6, <2>2 DEF IndexRead
<1>7. ASSUME pc \in {"quick", "index"}, pc' = "indexed", todo = {}, UNCHANGED <<todo, opts>>, Steady,
             NEW gone \in SUBSET File,
             docs' = [f \in File |-> IF f \in gone THEN None ELSE docs[f]],
             gone \cap opts.seen = {},
             opts.whole => \A f \in File \ opts.seen : docs'[f] = None
      PROVE  CallInv'
  <2>1. ASSUME NEW f \in opts.paths PROVE IndexDone(f)'
    <3>1. f \in File /\ IndexDone(f)
      BY <1>7 DEF CallInv, Indexing, Inv, TypeOK
    <3>2. f \in opts.seen => docs'[f] = docs[f]
      BY <1>7, <3>1
    <3> QED BY <1>7, <3>1, <3>2 DEF IndexDone, Seen, Quiet, Exists, Steady
  <2>2. Watched'
    BY <1>7 DEF CallInv, Watched, Steady
  <2> QED BY <1>7, <2>1, <2>2 DEF CallInv, Indexing, Detecting
<1>8. CASE QuickEnd
  <2>1. CASE Done("indexed") /\ SameState /\ ~(opts.whole /\ ~(Known(docs) \subseteq opts.seen))
    <3>1. docs' = [f \in File |-> IF f \in {} THEN None ELSE docs[f]]
      BY <2>1 DEF SameState, Inv, TypeOK
    <3>2. opts.whole => \A f \in File \ opts.seen : docs'[f] = None
      BY <2>1 DEF SameState, Known
    <3> QED BY <1>7, <1>8, <2>1, <3>1, <3>2 DEF QuickEnd, Done
  <2> QED BY <1>2, <1>8, <2>1 DEF QuickEnd
<1>9. CASE IndexEnd
  <2> DEFINE gone == IF opts.whole THEN Known(docs) \ opts.seen ELSE {}
  <2>1. gone \in SUBSET File /\ gone \cap opts.seen = {}
    BY DEF Known
  <2>2. docs' = [f \in File |-> IF f \in gone THEN None ELSE docs[f]]
    BY <1>9 DEF IndexEnd
  <2>3. opts.whole => \A f \in File \ opts.seen : docs'[f] = None
    BY <2>2 DEF Known
  <2> HIDE DEF gone
  <2> QED BY <1>7, <1>9, <2>1, <2>2, <2>3 DEF IndexEnd, Done
<1> QED BY <1>4, <1>5, <1>6, <1>8, <1>9
\* Detect is done with f, and puts it in a list.
LEMMA DetectNext ==
    ASSUME Inv, CallInv, NEW f \in File, f \in todo, NEW list \in {"unchanged", "modified", "removed"},
           pc \in {"aligned", "compare", "stat", "hash", "reindex"},
           pc' = IF pc = "aligned" THEN "aligned" ELSE "compare",
           pc = "aligned" => docs' = docs,
           Next1(f, pc', list),
           \A g \in File \ {f} : docs'[g] = docs[g],
           list = "removed" => ~Exists(f),
           list # "removed" => docs'[f] # None /\ Had(f, docs'[f].body),
           list = "unchanged" => docs'[f] = docs[f],
           list = "modified" => HadOther(f)
    PROVE  CallInv'
<1> USE DEF Next1
<1>1. /\ report \in [Lists -> SUBSET File]
      /\ report' = [report EXCEPT ![list] = @ \cup {f}]
  BY DEF Filed, Inv, TypeOK
<1>2. \/ /\ list = "unchanged" /\ report'.unchanged = report.unchanged \cup {f}
         /\ UNCHANGED <<report.modified, report.removed, report.new>>
      \/ /\ list = "modified" /\ report'.modified = report.modified \cup {f}
         /\ UNCHANGED <<report.unchanged, report.removed, report.new>>
      \/ /\ list = "removed" /\ report'.removed = report.removed \cup {f}
         /\ UNCHANGED <<report.unchanged, report.modified, report.new>>
  BY <1>1 DEF Lists
<1>3. DetectDone(f) /\ disk[f] \in during[f]
  BY DEF CallInv, Detecting, Watched
<1>4. /\ f \notin report.unchanged \cup report.modified \cup report.removed
      /\ f \notin todo' /\ InScope(f) /\ Seen(f) /\ docs[f] = before[f]
  BY <1>3 DEF DetectDone
<1>5. Had(f, docs'[f].body) <=> Had(f, docs[f].body)'
  BY DEF Had, Steady
<1>6. UNCHANGED <<disk, before, during, opts>>
  BY DEF Steady
<1>7. InScope(f)' /\ Seen(f)' /\ (HadOther(f) => HadOther(f)')
  BY <1>4, <1>6 DEF InScope, Seen, Quiet, Exists, HadOther
<1>8. DetectDone(f)'
  <2>1. CASE list = "unchanged"
    BY <1>2, <1>4, <1>5, <1>6, <1>7, <2>1 DEF DetectDone
  <2>2. CASE list = "modified"
    BY <1>2, <1>4, <1>5, <1>6, <1>7, <2>2 DEF DetectDone
  <2>3. CASE list = "removed"
    BY <1>2, <1>3, <1>4, <1>6, <1>7, <2>3 DEF DetectDone, Exists
  <2> QED BY <2>1, <2>2, <2>3
<1>9. ASSUME NEW g \in File \ {f} PROVE DetectDone(g)'
  <2>1. DetectDone(g)
    BY DEF CallInv, Detecting
  <2> QED BY <1>2, <1>6, <2>1, DetectKept
<1>10. Watched'
  BY <1>6 DEF CallInv, Watched
<1> QED BY <1>2, <1>6, <1>8, <1>9, <1>10 DEF CallInv, Indexing, Detecting

\* Detect looks at a file, or closes its lists, without a change of anything else.
LEMMA DetectLook ==
    ASSUME Inv, CallInv, Steady, UNCHANGED <<docs, todo, opts>>,
           pc \in {"aligned", "compare", "stat", "hash"},
           \/ pc' \in {"stat", "hash"} /\ pc # "aligned" /\ report' = report
           \/ pc' = "reindex" /\ pc # "aligned" /\ report' = report /\ HadOther(cur.file)'
           \/ pc' = "detected" /\ todo = {} /\ report' = [report EXCEPT !.new = NewFiles]
    PROVE  CallInv'
<1>1. /\ report'.unchanged = report.unchanged /\ report'.modified = report.modified
      /\ report'.removed = report.removed
      /\ report'.new = IF pc' = "detected" THEN NewFiles ELSE report.new
  BY DEF Inv, TypeOK, Lists
<1>2. NewFiles' = NewFiles
  BY DEF NewFiles, Steady
<1>3. \A f \in File : DetectDone(f)'
  BY <1>1, DetectKept DEF CallInv, Detecting
<1>4. Watched'
  BY DEF CallInv, Watched, Steady
<1> QED BY <1>1, <1>2, <1>3, <1>4 DEF CallInv, Indexing, Detecting

LEMMA DetectCall ==
    ASSUME Inv, CallInv,
           \/ \E f \in File : AlignedStat(f) \/ Compare(f)
           \/ AlignedEnd \/ CompareStat \/ Hash \/ Reindex \/ DetectEnd
    PROVE  CallInv'
<1>1. ASSUME NEW f \in File, Same(f), pc # "idle"
      PROVE  Exists(f) /\ docs[f] # None /\ Had(f, docs[f].body)
  BY <1>1 DEF Same, Exists, Had, Inv, StampTells, CallInv, Watched
<1>2. ASSUME Fail PROVE CallInv'
  BY <1>2, IdleCall DEF Fail
<1>3. ASSUME pc \in {"stat", "hash", "reindex"}
      PROVE  cur.file \in File /\ cur.file \in todo /\ disk[cur.file] \in during[cur.file]
             /\ docs[cur.file] = before[cur.file]
  BY <1>3 DEF Inv, TypeOK, CallInv, Watched, Detecting, DetectDone
<1>4. ASSUME NEW f \in File, AlignedStat(f) PROVE CallInv'
  <2>1. CASE Same(f) /\ Next1(f, "aligned", "unchanged") /\ SameState
    BY <1>1, <1>4, <2>1, DetectNext DEF AlignedStat, SameState, Next1
  <2>2. CASE ~Same(f)
    <3>1. /\ todo' = Known(docs) /\ report' = NoReport /\ pc' = "compare" /\ pc = "aligned"
          /\ UNCHANGED <<docs, opts>> /\ Steady
      BY <1>4, <2>2 DEF AlignedStat
    <3>2. docs = before /\ opts.whole
      BY <3>1 DEF CallInv
    <3>3. ASSUME NEW g \in File PROVE DetectDone(g)'
      <4>1. Seen(g)'
        BY <3>1 DEF CallInv, Detecting, DetectDone, Seen, Quiet, Exists, Steady
      <4>2. InScope(g)' <=> g \in todo'
        BY <3>1, <3>2 DEF InScope, Known, Steady
      <4> QED BY <3>1, <3>2, <4>1, <4>2 DEF DetectDone, NoReport, Steady
    <3>4. Watched'
      BY <3>1 DEF CallInv, Watched, Steady
    <3> QED BY <3>1, <3>3, <3>4 DEF CallInv, Indexing, Detecting, NoReport
  <2> QED BY <1>4, <2>1, <2>2 DEF AlignedStat
<1>5. ASSUME NEW f \in File, Compare(f) PROVE CallInv'
  <2>1. CASE Exists(f)
    BY <1>5, <2>1, DetectLook DEF Compare, SameState
  <2>2. CASE ~Exists(f)
    <3>1. \A g \in File \ {f} : docs'[g] = docs[g]
      BY <1>5, <2>2 DEF Compare, Inv, TypeOK
    <3> QED BY <1>5, <2>2, <3>1, DetectNext DEF Compare, Next1
  <2> QED BY <2>1, <2>2
<1>6. CASE AlignedEnd
  BY <1>6, DetectLook DEF AlignedEnd, Done, SameState
<1>7. CASE CompareStat
  <2>1. CASE Same(cur.file) /\ Next1(cur.file, "compare", "unchanged") /\ SameState
    BY <1>1, <1>3, <1>7, <2>1, DetectNext DEF CompareStat, SameState, Next1
  <2>2. CASE Open1(cur.file, "hash")
    BY <1>7, <2>2, DetectLook DEF CompareStat, Open1, SameState
  <2> QED BY <1>2, <1>7, <2>1, <2>2 DEF CompareStat
<1>8. CASE Hash
  <2>1. CASE Exists(cur.file) /\ SameText(cur.file)
    <3>1. Had(cur.file, docs[cur.file].body) /\ docs[cur.file] # None
      BY <1>3, <1>8, <2>1 DEF Hash, SameText, Had, Exists
    <3>2. Next1(cur.file, "compare", "unchanged") /\ SameState /\ pc = "hash"
      BY <1>8, <2>1 DEF Hash
    <3> QED BY <1>3, <2>1, <3>1, <3>2, DetectNext DEF SameState, Next1
  <2>2. CASE Exists(cur.file) /\ ~SameText(cur.file)
    <3>1. HadOther(cur.file)
      BY <1>3, <1>8, <2>2 DEF Hash, SameText, HadOther, Exists
    <3>2. /\ cur' = [cur EXCEPT !.body = disk[cur.file].body] /\ pc' = "reindex"
          /\ UNCHANGED <<todo, opts, report>> /\ Steady /\ SameState /\ pc = "hash"
      BY <1>8, <2>2 DEF Hash
    <3>3. cur'.file = cur.file
      BY <3>2 DEF Inv, TypeOK, Reading
    <3>4. HadOther(cur.file)'
      BY <3>1, <3>2, <3>3 DEF HadOther, Steady
    <3> QED BY <3>2, <3>4, DetectLook DEF SameState
  <2> QED BY <1>2, <1>8, <2>1, <2>2 DEF Hash
<1>9. CASE Reindex
  <2>1. CASE Exists(cur.file)
    <3>1. ReindexFile(cur.file) /\ Next1(cur.file, "compare", "modified") /\ pc = "reindex"
      BY <1>9, <2>1 DEF Reindex, Fail
    <3>2. /\ docs'[cur.file] = [body |-> disk[cur.file].body, stamp |-> cur.stamp]
          /\ \A g \in File \ {cur.file} : docs'[g] = docs[g]
      BY <1>3, <3>1 DEF ReindexFile, Inv, TypeOK
    <3>3. docs'[cur.file] \in Version /\ Had(cur.file, docs'[cur.file].body)
      BY <1>3, <2>1, <3>1, <3>2 DEF Exists, Inv, TypeOK, Version, Reading, Had
    <3>4. docs'[cur.file] # None
      BY <3>3, FileIndexAssumption
    <3>5. HadOther(cur.file)
      BY <3>1 DEF CallInv
    <3> QED BY <1>3, <2>1, <3>1, <3>2, <3>3, <3>4, <3>5, DetectNext DEF Next1
  <2> QED BY <1>2, <1>9, <2>1 DEF Reindex
<1>10. CASE DetectEnd
  BY <1>10, DetectLook DEF DetectEnd, Done
<1> QED BY <1>4, <1>5, <1>6, <1>7, <1>8, <1>9, <1>10

LEMMA NextCall == Inv /\ CallInv /\ [Next]_vars => CallInv'
<1> SUFFICES ASSUME Inv, CallInv, [Next]_vars PROVE CallInv'
  OBVIOUS
<1>1. CASE UNCHANGED vars
  BY <1>1 DEF vars, call, CallInv, Watched, Indexing, Detecting, IndexDone, DetectDone, Seen,
              Quiet, Exists, InScope, Had, HadOther, NewFiles
<1>2. CASE \E f \in File : Delete(f) \/ \E body \in 0..1 : Write(f, body)
  BY <1>2, EditorCall DEF Delete, Write
<1>3. CASE \/ Answer \/ \E f \in File : RemoveDoc(f)
           \/ EmbedMemory \/ OtherSave \/ Clear
           \/ \E rowsOnly \in BOOLEAN : Open(rowsOnly)
  <2>1. pc' = "idle" /\ UNCHANGED opts
    BY <1>3 DEF Answer, RemoveDoc, EmbedMemory, OtherSave, Clear, Open, Quick1, call
  <2>2. report' = NoReport
    BY <1>3 DEF Answer, RemoveDoc, EmbedMemory, OtherSave, Clear, Open, Quick1, call, CallInv
  <2> QED BY <2>1, <2>2, IdleCall
<1> QED BY <1>1, <1>2, <1>3, BeginCall, IndexCall, DetectCall DEF Next, Step

LEMMA CallInvariance == Spec => []CallInv
BY InitCall, Invariance, NextCall, PTL DEF Spec

\* Whatever the editor does during a detect (Engine::detect_with), its answer
\* is right on every file that was left alone, backed by a moment of the call
\* on the others, and names a file in one list.
THEOREM DetectAnswers == Spec => []ReportExact
<1>1. Inv /\ CallInv => ReportExact
  <2> SUFFICES ASSUME Inv, CallInv, pc = "detected", NEW f \in File
               PROVE  /\ Quiet(f) =>
                          /\ f \in report.unchanged <=> InScope(f) /\ SameBody(f)
                          /\ f \in report.modified <=> InScope(f) /\ Exists(f) /\ ~SameBody(f)
                          /\ f \in report.removed <=> InScope(f) /\ ~Exists(f)
                          /\ f \in report.new <=> Exists(f) /\ before[f] = None
                      /\ f \in report.removed => None \in during[f]
                      /\ f \in report.unchanged \cup report.modified =>
                          docs[f] # None /\ Had(f, docs[f].body)
                      /\ \A k, l \in {"unchanged", "modified", "removed"} :
                          f \in report[k] \cap report[l] => k = l
    BY DEF ReportExact, Had
  <2>1. /\ DetectDone(f) /\ disk[f] \in during[f] /\ report.new = NewFiles /\ todo = {}
    BY DEF CallInv, Detecting, Watched
  <2>2. ASSUME Quiet(f)
        PROVE  /\ f \in report.unchanged => SameBody(f)
               /\ f \in report.modified => Exists(f) /\ ~SameBody(f)
               /\ f \in report.removed => ~Exists(f)
    BY <2>1, <2>2 DEF DetectDone, Had, HadOther, Quiet, SameBody, Exists
  <2>3. Quiet(f) => (f \in report.new <=> Exists(f) /\ before[f] = None)
    BY <2>1 DEF NewFiles, DetectDone, Seen
  <2>4. /\ InScope(f) <=> f \in report.unchanged \cup report.modified \cup report.removed
        /\ f \in report.removed => None \in during[f]
        /\ f \in report.unchanged \cup report.modified => docs[f] # None /\ Had(f, docs[f].body)
    BY <2>1 DEF DetectDone
  <2>5. \A k, l \in {"unchanged", "modified", "removed"} :
            f \in report[k] \cap report[l] => k = l
    BY <2>1 DEF DetectDone
  <2>6. SameBody(f) => Exists(f)
    BY DEF SameBody
  <2> QED BY <2>2, <2>3, <2>4, <2>5, <2>6
<1> QED BY <1>1, Invariance, CallInvariance, PTL

\* After an index (Engine::index) every file asked for that was left alone is
\* indexed as it is, and an index of the whole tree has dropped those that
\* are gone.
THEOREM IndexAnswers == Spec => []IndexSettles
<1>1. Inv /\ CallInv => IndexSettles
  <2> SUFFICES ASSUME Inv, CallInv, pc = "indexed", NEW f \in opts.paths, Quiet(f)
               PROVE  /\ Exists(f) => docs[f] # None /\ docs[f].body = disk[f].body
                      /\ opts.whole /\ ~Exists(f) => docs[f] = None
    BY DEF IndexSettles
  <2>1. IndexDone(f) /\ todo = {}
    BY DEF CallInv, Indexing
  <2> QED BY <2>1 DEF IndexDone, Seen
<1> QED BY <1>1, Invariance, CallInvariance, PTL

-----------------------------------------------------------------------------
(***************************************************************************)
(* The files that an index call takes, for any trees, rules and paths.     *)
(*                                                                         *)
(* A walk is said once as the code does it, directory by directory, and    *)
(* once file by file: a file is reached when nothing bars one of the steps *)
(* down to it.  The order of the result is a strict one, so that every     *)
(* file has a place in it.  A document's name is a function of the place   *)
(* of its file that gives two files two names: what a call drops by the    *)
(* names is what lies under the places, however they were spelled.         *)
(***************************************************************************)

\* A non-empty set of numbers has a least element.
LEMMA Least ==
    ASSUME NEW S \in SUBSET Nat, S # {}
    PROVE  \E m \in S : \A n \in S : m <= n
<1>1. PICK m \in S : \A n \in S : ~ (<<n, m>> \in OpToRel(<, Nat))
  BY WFMin, NatLessThanWellFounded, Zenon
<1>2. \A n \in S : ~ (n < m)
  BY <1>1, Zenon DEF OpToRel
<1> QED BY <1>2

\* What holds of 0, and of k + 1 when it holds of k, holds up to any number.
LEMMA Upto ==
    ASSUME NEW n \in Nat, NEW S, 0 \in S, \A k \in 0..n - 1 : k \in S => k + 1 \in S
    PROVE  \A k \in 0..n : k \in S
<1> DEFINE bad == {k \in 0..n : k \notin S}
<1> SUFFICES ASSUME bad # {} PROVE FALSE OBVIOUS
<1>1. bad \in SUBSET Nat OBVIOUS
<1>2. PICK m \in bad : \A k \in bad : m <= k BY <1>1, Least
<1>3. m # 0 /\ m \in 0..n BY <1>2
<1>4. m - 1 \in 0..n - 1 /\ m - 1 \notin bad BY <1>2, <1>3
<1>5. m - 1 \in S BY <1>4
<1>6. (m - 1) + 1 \in S BY <1>4, <1>5
<1> QED BY <1>2, <1>3, <1>6

\* Numbers given to the elements of a finite set have a bound.
LEMMA Bounded ==
    ASSUME NEW S, IsFiniteSet(S), NEW h \in [S -> Nat]
    PROVE  \E most \in Nat : \A x \in S : h[x] <= most
<1>1. Cardinality(S) \in Nat /\ ExistsBijection(1..Cardinality(S), S) BY FS_CardinalityType
<1>2. PICK b \in Bijection(1..Cardinality(S), S) : TRUE BY <1>1 DEF ExistsBijection
<1> DEFINE good == {k \in Nat : \E most \in Nat : \A i \in 1..Cardinality(S) : i <= k => h[b[i]] <= most}
<1>3. /\ b \in [1..Cardinality(S) -> S]
      /\ \A x \in S : \E i \in 1..Cardinality(S) : b[i] = x
  BY <1>2 DEF Bijection, Injection, Surjection
<1>4. 0 \in good BY <1>1
<1>5. ASSUME NEW k \in 0..Cardinality(S) - 1, k \in good PROVE k + 1 \in good
  <2>1. k + 1 \in 1..Cardinality(S) /\ k + 1 \in Nat BY <1>1
  <2>2. PICK most \in Nat : \A i \in 1..Cardinality(S) : i <= k => h[b[i]] <= most BY <1>5
  <2>3. h[b[k + 1]] \in Nat BY <1>3, <2>1
  <2> DEFINE top == IF most < h[b[k + 1]] THEN h[b[k + 1]] ELSE most
  <2>4. top \in Nat BY <2>3
  <2>5. ASSUME NEW i \in 1..Cardinality(S), i <= k + 1 PROVE h[b[i]] <= top
    <3>1. CASE i = k + 1 BY <3>1, <2>3
    <3>2. CASE i # k + 1
      <4>1. i <= k BY <3>2, <2>5, <2>1
      <4>2. h[b[i]] <= most /\ h[b[i]] \in Nat BY <4>1, <2>2, <1>3
      <4> QED BY <4>2, <2>3
    <3> QED BY <3>1, <3>2
  <2> HIDE DEF top
  <2> QED BY <2>1, <2>4, <2>5
<1> HIDE DEF good
<1>8. \A k \in 0..Cardinality(S) - 1 : k \in good => k + 1 \in good BY <1>5
<1> DEFINE n == Cardinality(S)
<1>9. n \in Nat BY <1>1
<1>10. \A k \in 0..n - 1 : k \in good => k + 1 \in good BY <1>8
<1> HIDE DEF n
<1>11. \A k \in 0..n : k \in good BY <1>4, <1>9, <1>10, Upto
<1>12. n \in 0..n BY <1>9
<1>6. Cardinality(S) \in good BY <1>11, <1>12 DEF n
<1>7. PICK most \in Nat : \A i \in 1..Cardinality(S) : i <= Cardinality(S) => h[b[i]] <= most
  BY <1>6 DEF good
<1>13. \A x \in S : h[x] <= most BY <1>7, <1>3, <1>1
<1> QED BY <1>13

-------------------------------------------------------------------------------
\* Paths.

\* The names that the scenes hold: of the trees, the directories and the paths.

PathsOf(asked) == {asked.cwd} \cup asked.tree \cup ToSet(asked.paths)
Names == {W!Dot, W!Root} \cup
             UNION {UNION {UNION {ToSet(path) : path \in PathsOf(asked)} : asked \in CallsOf(scene)} : scene \in Scenes}

Under(dir, file) == Len(dir) <= Len(file) /\ \A i \in 1..Len(dir) : file[i] = dir[i]
Below(dir, file) == Under(dir, file) /\ Len(dir) < Len(file)

\* Paths with the same names at the same places are the same.
LEMMA SameSeq ==
    ASSUME NEW s \in Seq(Names), NEW t \in Seq(Names), Len(s) = Len(t), \A i \in 1..Len(s) : s[i] = t[i]
    PROVE  s = t
BY SeqEqual

LEMMA Starts ==
    ASSUME NEW s \in Seq(Names), NEW m \in 0..Len(s)
    PROVE  /\ SubSeq(s, 1, m) \in Seq(Names) /\ Len(SubSeq(s, 1, m)) = m
           /\ \A i \in 1..m : SubSeq(s, 1, m)[i] = s[i]
OBVIOUS

\* The prefixes of the model, as comparisons name by name.
LEMMA PrefixIs ==
    ASSUME NEW s \in Seq(Names), NEW t \in Seq(Names)
    PROVE  /\ W!IsPrefix(s, t) <=> Under(s, t)
           /\ IsPrefix(s, t) <=> Under(s, t)
           /\ W!IsStrictPrefix(s, t) <=> Below(s, t)
           /\ IsStrictPrefix(s, t) <=> Below(s, t)
<1>1. SubSeq(s, 1, Len(s)) = s BY SubSeqFull
<1>2. Len(s) <= Len(t) => (s = SubSeq(t, 1, Len(s)) <=> \A i \in 1..Len(s) : t[i] = s[i])
  <2> SUFFICES ASSUME Len(s) <= Len(t) PROVE s = SubSeq(t, 1, Len(s)) <=> \A i \in 1..Len(s) : t[i] = s[i] OBVIOUS
  <2> DEFINE u == SubSeq(t, 1, Len(s))
  <2>1. u \in Seq(Names) /\ Len(u) = Len(s) /\ \A i \in 1..Len(s) : u[i] = t[i] BY Starts
  <2> HIDE DEF u
  <2>2. (\A i \in 1..Len(s) : t[i] = s[i]) => s = u BY <2>1, SameSeq
  <2>3. s = u => \A i \in 1..Len(s) : t[i] = s[i] BY <2>1
  <2> QED BY <2>2, <2>3 DEF u
<1>3. W!IsPrefix(s, t) <=> Under(s, t) BY <1>1, <1>2 DEF W!IsPrefix, Under
<1>4. IsPrefix(s, t) <=> Under(s, t) BY <1>1, <1>2 DEF IsPrefix, Under
<1>5. Under(s, t) => (s # t <=> Len(s) < Len(t))
  <2>1. Under(s, t) /\ Len(s) = Len(t) => s = t BY SameSeq DEF Under
  <2> QED BY <2>1 DEF Under
<1>6. W!IsStrictPrefix(s, t) <=> Below(s, t) BY <1>3, <1>5 DEF W!IsStrictPrefix, Below
<1>7. IsStrictPrefix(s, t) <=> Below(s, t) BY <1>4, <1>5 DEF IsStrictPrefix, Below
<1> QED BY <1>3, <1>4, <1>6, <1>7

\* The part of a path after a directory.
LEMMA Rest ==
    ASSUME NEW s \in Seq(Names), NEW k \in 0..Len(s)
    PROVE  /\ W!From(s, k + 1) \in Seq(Names) /\ Len(W!From(s, k + 1)) = Len(s) - k
           /\ \A i \in 1..Len(s) - k : W!From(s, k + 1)[i] = s[k + i]
BY DEF W!From

LEMMA RestOfStart ==
    ASSUME NEW s \in Seq(Names), NEW m \in 0..Len(s), NEW k \in 0..m
    PROVE  W!From(SubSeq(s, 1, m), k + 1) = SubSeq(s, k + 1, m)
<1> DEFINE u == SubSeq(s, 1, m)
<1>1. u \in Seq(Names) /\ Len(u) = m /\ \A i \in 1..m : u[i] = s[i] BY Starts
<1>2. /\ W!From(u, k + 1) \in Seq(Names) /\ Len(W!From(u, k + 1)) = m - k
      /\ \A i \in 1..m - k : W!From(u, k + 1)[i] = u[k + i]
  <2>1. k \in 0..Len(u) BY <1>1
  <2> QED BY <1>1, <2>1, Rest
<1>3. /\ SubSeq(s, k + 1, m) \in Seq(Names) /\ Len(SubSeq(s, k + 1, m)) = m - k
      /\ \A i \in 1..m - k : SubSeq(s, k + 1, m)[i] = s[k + i]
  OBVIOUS
<1> HIDE DEF u
<1>4. \A i \in 1..m - k : u[k + i] = s[k + i] BY <1>1
<1>5. W!From(u, k + 1) = SubSeq(s, k + 1, m) BY <1>2, <1>3, <1>4, SameSeq
<1> QED BY <1>5 DEF u

-------------------------------------------------------------------------------
\* The walk: what it finds below a directory is decided on the way to each
\* file, by the name and the rules at every step.

Passes(rules, root, extra, file, n) ==
    /\ ~W!PassedOver(file[n], extra)
    /\ ~W!IsIgnored(rules, SubSeq(file, Len(root) + 1, n), n < Len(file))
Reached(rules, root, extra, dir, file) ==
    /\ Below(dir, file) /\ W!Extension(file[Len(file)]) \in Supported
    /\ \A n \in Len(dir) + 1..Len(file) : Passes(rules, root, extra, file, n)
Reachable(tree, rules, root, extra, dir) == {file \in tree : Reached(rules, root, extra, dir, file)}

\* The two parts of one call of walk_dir: the files of dir, and the
\* directories it goes down into.
Here(tree, root, rules, extra, dir) ==
    {f \in tree : /\ W!Front(f) = dir
                  /\ ~W!PassedOver(W!Last(f), extra)
                  /\ W!Extension(W!Last(f)) \in Supported
                  /\ ~W!IsIgnored(rules, W!From(f, Len(root) + 1), FALSE)}
Deeper(tree, root, rules, extra, dir) ==
    {d \in W!Subdirs(tree, dir) :
        ~W!PassedOver(W!Last(d), extra) /\ ~W!IsIgnored(rules, W!From(d, Len(root) + 1), TRUE)}

LEMMA WayDown ==
    ASSUME NEW dir \in Seq(Names), NEW f \in Seq(Names), Below(dir, f), Len(f) > Len(dir) + 1
    PROVE  /\ SubSeq(f, 1, Len(dir) + 1) \in Seq(Names) /\ Len(SubSeq(f, 1, Len(dir) + 1)) = Len(dir) + 1
           /\ Under(dir, SubSeq(f, 1, Len(dir) + 1)) /\ Below(SubSeq(f, 1, Len(dir) + 1), f)
<1>1. Len(dir) + 1 \in 0..Len(f) OBVIOUS
<1> DEFINE sub == SubSeq(f, 1, Len(dir) + 1)
<1>2. sub \in Seq(Names) /\ Len(sub) = Len(dir) + 1 /\ \A i \in 1..Len(dir) + 1 : sub[i] = f[i] BY <1>1, Starts
<1> HIDE DEF sub
<1>3. Under(dir, sub) /\ Below(sub, f) BY <1>2 DEF Under, Below
<1> QED BY <1>2, <1>3 DEF sub

\* The directories that a walk goes down into from dir.
LEMMA SubdirsAre ==
    ASSUME NEW tree \in SUBSET Seq(Names), NEW dir \in Seq(Names)
    PROVE  W!Subdirs(tree, dir) = {SubSeq(f, 1, Len(dir) + 1) : f \in {g \in tree : Below(dir, g) /\ Len(g) > Len(dir) + 1}}
<1>1. \A f \in tree : W!IsStrictPrefix(dir, f) <=> Below(dir, f) BY PrefixIs
<1> QED BY <1>1, Zenon DEF W!Subdirs

LEMMA SubdirIs ==
    ASSUME NEW tree \in SUBSET Seq(Names), NEW dir \in Seq(Names), NEW sub \in W!Subdirs(tree, dir)
    PROVE  /\ sub \in Seq(Names) /\ Len(sub) = Len(dir) + 1 /\ Under(dir, sub)
           /\ \E f \in tree : Below(sub, f)
<1>1. PICK f \in tree : Below(dir, f) /\ Len(f) > Len(dir) + 1 /\ sub = SubSeq(f, 1, Len(dir) + 1) BY SubdirsAre
<1> QED BY <1>1, WayDown

\* One call of walk_dir finds what is reached, if the calls below it do.
LEMMA FoundStep ==
    ASSUME NEW tree \in SUBSET Seq(Names), <<>> \notin tree, NEW root \in Seq(Names), NEW rules, NEW extra,
           NEW dir \in Seq(Names), Under(root, dir), NEW found,
           \A sub \in W!Subdirs(tree, dir) : found[sub] = Reachable(tree, rules, root, extra, sub)
    PROVE  Here(tree, root, rules, extra, dir) \cup UNION {found[sub] : sub \in Deeper(tree, root, rules, extra, dir)}
               = Reachable(tree, rules, root, extra, dir)
<1>1. ASSUME NEW f \in Here(tree, root, rules, extra, dir) PROVE f \in Reachable(tree, rules, root, extra, dir)
  <2>1. f \in Seq(Names) /\ f \in tree /\ Len(f) \in Nat /\ Len(f) # 0 BY <1>1, EmptySeq DEF Here
  <2>2. dir = SubSeq(f, 1, Len(f) - 1) BY <1>1 DEF Here, W!Front
  <2>3. Len(f) - 1 \in 0..Len(f) BY <2>1
  <2>4. Len(dir) = Len(f) - 1 /\ \A i \in 1..Len(f) - 1 : dir[i] = f[i] BY <2>1, <2>2, <2>3, Starts
  <2>5. Below(dir, f) BY <2>1, <2>4 DEF Below, Under
  <2>6. Len(dir) + 1 = Len(f) BY <2>4, <2>1
  <2>7. W!Last(f) = f[Len(f)] /\ W!From(f, Len(root) + 1) = SubSeq(f, Len(root) + 1, Len(f))
    BY DEF W!Last, W!From
  <2>10. (Len(f) < Len(f)) = FALSE BY <2>1
  <2>8. Passes(rules, root, extra, f, Len(f)) BY <1>1, <2>7, <2>10 DEF Here, Passes
  <2>9. \A n \in Len(dir) + 1..Len(f) : n = Len(f) BY <2>6, <2>1
  <2> QED BY <1>1, <2>1, <2>5, <2>7, <2>8, <2>9 DEF Here, Reachable, Reached
<1>2. ASSUME NEW sub \in Deeper(tree, root, rules, extra, dir), NEW f \in Reachable(tree, rules, root, extra, sub)
      PROVE  f \in Reachable(tree, rules, root, extra, dir)
  <2>1. sub \in W!Subdirs(tree, dir) BY <1>2 DEF Deeper
  <2>2. sub \in Seq(Names) /\ Len(sub) = Len(dir) + 1 /\ Under(dir, sub) BY <2>1, SubdirIs
  <2>3. f \in tree /\ f \in Seq(Names) /\ Below(sub, f) BY <1>2 DEF Reachable, Reached
  <2>4. Below(dir, f) BY <2>2, <2>3 DEF Below, Under
  <2>5. sub = SubSeq(f, 1, Len(sub))
    <3>1. Len(sub) \in 0..Len(f) BY <2>2, <2>3 DEF Below
    <3>2. SubSeq(f, 1, Len(sub)) \in Seq(Names) /\ Len(SubSeq(f, 1, Len(sub))) = Len(sub)
          /\ \A i \in 1..Len(sub) : SubSeq(f, 1, Len(sub))[i] = f[i]
      BY <3>1, <2>3, Starts
    <3> QED BY <3>2, <2>2, <2>3, SameSeq DEF Below, Under
  <2>6. W!Last(sub) = f[Len(dir) + 1] BY <2>2, <2>3 DEF W!Last, Below, Under
  <2>7. W!From(sub, Len(root) + 1) = SubSeq(f, Len(root) + 1, Len(dir) + 1)
    <3>1. Len(sub) \in 0..Len(f) /\ Len(root) \in 0..Len(sub) BY <2>2, <2>3 DEF Below, Under
    <3> QED BY <3>1, <2>2, <2>3, <2>5, RestOfStart
  <2>8. Len(dir) + 1 < Len(f) /\ Len(dir) \in Nat /\ Len(f) \in Nat BY <2>2, <2>3 DEF Below
  <2>9. Passes(rules, root, extra, f, Len(dir) + 1) BY <1>2, <2>6, <2>7, <2>8 DEF Deeper, Passes
  <2>10. \A n \in Len(sub) + 1..Len(f) : Passes(rules, root, extra, f, n) BY <1>2 DEF Reachable, Reached
  <2>11. \A n \in Len(dir) + 1..Len(f) : n = Len(dir) + 1 \/ n \in Len(sub) + 1..Len(f) BY <2>2, <2>8
  <2>12. W!Extension(f[Len(f)]) \in Supported BY <1>2 DEF Reachable, Reached
  <2> QED BY <2>3, <2>4, <2>9, <2>10, <2>11, <2>12 DEF Reachable, Reached
<1>3. ASSUME NEW f \in Reachable(tree, rules, root, extra, dir), Len(f) = Len(dir) + 1
      PROVE  f \in Here(tree, root, rules, extra, dir)
  <2>1. f \in tree /\ f \in Seq(Names) /\ Below(dir, f) BY <1>3 DEF Reachable, Reached
  <2>2. W!Front(f) = dir
    <3>1. Len(f) - 1 \in 0..Len(f) /\ Len(f) - 1 = Len(dir) BY <1>3, <2>1 DEF Below
    <3>2. SubSeq(f, 1, Len(f) - 1) \in Seq(Names) /\ Len(SubSeq(f, 1, Len(f) - 1)) = Len(dir)
          /\ \A i \in 1..Len(f) - 1 : SubSeq(f, 1, Len(f) - 1)[i] = f[i]
      BY <3>1, <2>1, Starts
    <3> QED BY <3>1, <3>2, <2>1, SameSeq DEF Below, Under, W!Front
  <2>3. Len(f) \in Len(dir) + 1..Len(f) /\ (Len(f) < Len(f)) = FALSE BY <1>3, <2>1 DEF Below
  <2>4. Passes(rules, root, extra, f, Len(f)) BY <1>3, <2>3 DEF Reachable, Reached
  <2>5. W!Last(f) = f[Len(f)] /\ W!From(f, Len(root) + 1) = SubSeq(f, Len(root) + 1, Len(f))
    BY DEF W!Last, W!From
  <2>6. ~W!PassedOver(f[Len(f)], extra) /\ ~W!IsIgnored(rules, SubSeq(f, Len(root) + 1, Len(f)), FALSE) BY <2>3, <2>4 DEF Passes
  <2>7. W!Extension(f[Len(f)]) \in Supported BY <1>3 DEF Reachable, Reached
  <2> QED BY <2>1, <2>2, <2>5, <2>6, <2>7 DEF Here
<1>4. ASSUME NEW f \in Reachable(tree, rules, root, extra, dir), Len(f) # Len(dir) + 1
      PROVE  \E sub \in Deeper(tree, root, rules, extra, dir) : f \in Reachable(tree, rules, root, extra, sub)
  <2>1. f \in tree /\ f \in Seq(Names) /\ Below(dir, f) /\ Len(f) > Len(dir) + 1 BY <1>4 DEF Reachable, Reached, Below
  <2> DEFINE sub == SubSeq(f, 1, Len(dir) + 1)
  <2>14. W!Subdirs(tree, dir) = {SubSeq(g, 1, Len(dir) + 1) : g \in {e \in tree : Below(dir, e) /\ Len(e) > Len(dir) + 1}} BY SubdirsAre
  <2>2. sub \in W!Subdirs(tree, dir) BY <2>1, <2>14
  <2>3. Len(dir) + 1 \in 0..Len(f) /\ Len(dir) + 1 \in 1..Len(f) BY <2>1
  <2>4. sub \in Seq(Names) /\ Len(sub) = Len(dir) + 1 /\ \A i \in 1..Len(dir) + 1 : sub[i] = f[i] BY <2>1, <2>3, Starts
  <2>5. Len(root) \in 0..Len(dir) + 1 BY DEF Under
  <2>6. W!From(sub, Len(root) + 1) = SubSeq(f, Len(root) + 1, Len(dir) + 1) BY <2>1, <2>3, <2>5, RestOfStart
  <2> HIDE DEF sub
  <2>7. Len(dir) + 1 \in Len(dir) + 1..Len(f) /\ Len(dir) + 1 < Len(f) BY <2>1
  <2>8. Passes(rules, root, extra, f, Len(dir) + 1) BY <1>4, <2>7 DEF Reachable, Reached
  <2>9. W!Last(sub) = f[Len(dir) + 1] BY <2>4 DEF W!Last
  <2>10. sub \in Deeper(tree, root, rules, extra, dir) BY <2>2, <2>6, <2>7, <2>8, <2>9 DEF Deeper, Passes
  <2>11. Below(sub, f) BY <2>1, <2>4 DEF Below, Under
  <2>12. \A n \in Len(sub) + 1..Len(f) : Passes(rules, root, extra, f, n)
    <3>1. \A n \in Len(sub) + 1..Len(f) : n \in Len(dir) + 1..Len(f) BY <2>4, <2>1
    <3> QED BY <3>1, <1>4 DEF Reachable, Reached
  <2>13. f \in Reachable(tree, rules, root, extra, sub) BY <2>1, <2>11, <2>12, <1>4 DEF Reachable, Reached
  <2> QED BY <2>10, <2>13
<1>5. \A sub \in Deeper(tree, root, rules, extra, dir) : found[sub] = Reachable(tree, rules, root, extra, sub) BY DEF Deeper
<1> QED BY <1>1, <1>2, <1>3, <1>4, <1>5

\* A walk of root finds the files that it reaches: those with a supported
\* extension to which no name and no rule bars the way (walk_dir, is_ignored).
THEOREM FoundIs ==
    ASSUME NEW tree \in SUBSET Seq(Names), IsFiniteSet(tree), <<>> \notin tree,
           NEW root \in Seq(Names), NEW rules, NEW extra
    PROVE  W!Found(tree, root, rules, extra) = Reachable(tree, rules, root, extra, root)
<1> DEFINE dirs == {root} \cup UNION {{SubSeq(f, 1, n) : n \in Len(root)..Len(f) - 1} :
                                        f \in {g \in tree : W!IsStrictPrefix(root, g)}}
           step(found, dir) == Here(tree, root, rules, extra, dir)
                                   \cup UNION {found[sub] : sub \in Deeper(tree, root, rules, extra, dir)}
           reach(dir) == Reachable(tree, rules, root, extra, dir)
           found == CHOOSE f : f = [dir \in dirs |-> step(f, dir)]
<1>1. W!Found(tree, root, rules, extra) = found[root] BY DEF W!Found, Here, Deeper
<1>2. /\ root \in dirs /\ \A dir \in dirs : dir \in Seq(Names) /\ Under(root, dir)
      /\ \A dir \in dirs : \A sub \in W!Subdirs(tree, dir) : sub \in dirs
  <2>1. Under(root, root) BY DEF Under
  <2>2. ASSUME NEW f \in tree, W!IsStrictPrefix(root, f), NEW n \in Len(root)..Len(f) - 1
        PROVE  SubSeq(f, 1, n) \in Seq(Names) /\ Under(root, SubSeq(f, 1, n))
    <3>1. Below(root, f) /\ n \in 0..Len(f) BY <2>2, PrefixIs
    <3>2. SubSeq(f, 1, n) \in Seq(Names) /\ Len(SubSeq(f, 1, n)) = n /\ \A i \in 1..n : SubSeq(f, 1, n)[i] = f[i] BY <3>1, Starts
    <3> QED BY <3>1, <3>2 DEF Below, Under
  <2>3. \A dir \in dirs : dir \in Seq(Names) /\ Under(root, dir)
    <3> SUFFICES ASSUME NEW dir \in dirs, dir # root PROVE dir \in Seq(Names) /\ Under(root, dir) BY <2>1
    <3>1. PICK f \in tree : W!IsStrictPrefix(root, f) /\ dir \in {SubSeq(f, 1, n) : n \in Len(root)..Len(f) - 1} OBVIOUS
    <3>2. PICK n \in Len(root)..Len(f) - 1 : dir = SubSeq(f, 1, n) BY <3>1
    <3> QED BY <3>1, <3>2, <2>2
  <2>4. ASSUME NEW dir \in dirs, NEW sub \in W!Subdirs(tree, dir) PROVE sub \in dirs
    <3>1. dir \in Seq(Names) /\ Under(root, dir) BY <2>3
    <3> HIDE DEF dirs
    <3>7. W!Subdirs(tree, dir) = {SubSeq(f, 1, Len(dir) + 1) : f \in {g \in tree : Below(dir, g) /\ Len(g) > Len(dir) + 1}}
      BY <3>1, SubdirsAre
    <3>2. PICK f \in tree : Below(dir, f) /\ Len(f) > Len(dir) + 1 /\ sub = SubSeq(f, 1, Len(dir) + 1) BY <3>7
    <3>3. sub \in Seq(Names) /\ Len(sub) = Len(dir) + 1 /\ Under(dir, sub) BY <3>1, SubdirIs
    <3>4. Below(root, f) BY <3>1, <3>2 DEF Below, Under
    <3>5. W!IsStrictPrefix(root, f) BY <3>4, PrefixIs
    <3>6. Len(dir) + 1 \in Len(root)..Len(f) - 1 BY <3>1, <3>2 DEF Under
    <3> QED BY <3>2, <3>5, <3>6 DEF dirs
  <2> QED BY <2>3, <2>4
<1> HIDE DEF dirs
<1>3. ASSUME NEW dir \in dirs, NEW f, \A sub \in W!Subdirs(tree, dir) : f[sub] = reach(sub) PROVE step(f, dir) = reach(dir)
  BY <1>2, <1>3, FoundStep
<1>4. found = [dir \in dirs |-> step(found, dir)]
  <2> DEFINE f == [dir \in dirs |-> reach(dir)]
  <2>1. \A dir \in dirs : \A sub \in W!Subdirs(tree, dir) : f[sub] = reach(sub) BY <1>2
  <2> HIDE DEF f
  <2>2. \A dir \in dirs : step(f, dir) = reach(dir) BY <2>1, <1>3
  <2> HIDE DEF step
  <2>3. f = [dir \in dirs |-> step(f, dir)] BY <2>2 DEF f
  <2> QED BY <2>3
<1> HIDE DEF found, step
<1>5. PICK most \in Nat : \A dir \in dirs : W!Subdirs(tree, dir) # {} => Len(dir) < most
  <2>1. [f \in tree |-> Len(f)] \in [tree -> Nat] OBVIOUS
  <2>2. PICK m \in Nat : \A f \in tree : [g \in tree |-> Len(g)][f] <= m BY <2>1, Bounded
  <2>3. ASSUME NEW dir \in dirs, W!Subdirs(tree, dir) # {} PROVE Len(dir) < m
    <3>1. PICK sub \in W!Subdirs(tree, dir) : TRUE BY <2>3
    <3>5. dir \in Seq(Names) BY <1>2
    <3>2. PICK f \in tree : Below(sub, f) BY <3>5, SubdirIs
    <3>3. Len(sub) = Len(dir) + 1 /\ sub \in Seq(Names) /\ dir \in Seq(Names) /\ f \in Seq(Names) BY <3>5, SubdirIs
    <3>4. Len(f) <= m BY <2>2
    <3> QED BY <3>2, <3>3, <3>4 DEF Below
  <2> QED BY <2>3
<1> DEFINE good == {k \in Nat : \A dir \in dirs : Len(dir) + k >= most => found[dir] = reach(dir)}
<1>6. 0 \in good
  <2>1. ASSUME NEW dir \in dirs, Len(dir) >= most PROVE found[dir] = reach(dir)
    <3>1. W!Subdirs(tree, dir) = {} BY <1>5, <1>2, <2>1
    <3>2. step(found, dir) = reach(dir) BY <3>1, <1>3
    <3> QED BY <1>4, <3>2
  <2> QED BY <2>1, <1>2
<1>7. \A k \in 0..most - 1 : k \in good => k + 1 \in good
  <2> TAKE k \in 0..most - 1
  <2> HAVE k \in good
  <2>1. ASSUME NEW dir \in dirs, Len(dir) + (k + 1) >= most PROVE found[dir] = reach(dir)
    <3>0. dir \in Seq(Names) BY <1>2
    <3>5. \A sub \in W!Subdirs(tree, dir) : Len(sub) = Len(dir) + 1 BY <3>0, SubdirIs
    <3>1. \A sub \in W!Subdirs(tree, dir) : sub \in dirs /\ Len(sub) = Len(dir) + 1 BY <1>2, <3>5
    <3>2. \A sub \in W!Subdirs(tree, dir) : Len(sub) + k >= most BY <3>1, <2>1, <3>0
    <3>3. \A sub \in W!Subdirs(tree, dir) : found[sub] = reach(sub) BY <3>1, <3>2
    <3>4. step(found, dir) = reach(dir) BY <3>3, <1>3
    <3> QED BY <1>4, <3>4
  <2> QED BY <2>1
<1> HIDE DEF good
<1>8. most \in good
  <2>1. \A k \in 0..most : k \in good BY <1>6, <1>7, Upto
  <2> QED BY <2>1
<1>9. Len(root) + most >= most OBVIOUS
<1> QED BY <1>1, <1>2, <1>8, <1>9 DEF good

\* The rules speak of every start of the path below root, so what is_ignored
\* asks at each step on the way comes to one question for each step.
LEMMA StartOfPart ==
    ASSUME NEW s \in Seq(Names), NEW l \in 0..Len(s), NEW n \in l..Len(s), NEW k \in 0..n - l
    PROVE  SubSeq(SubSeq(s, l + 1, n), 1, k) = SubSeq(s, l + 1, l + k)
<1> DEFINE part == SubSeq(s, l + 1, n)
<1>1. part \in Seq(Names) /\ Len(part) = n - l /\ \A i \in 1..n - l : part[i] = s[l + i] OBVIOUS
<1> HIDE DEF part
<1>2. SubSeq(part, 1, k) \in Seq(Names) /\ Len(SubSeq(part, 1, k)) = k /\ \A i \in 1..k : SubSeq(part, 1, k)[i] = part[i]
  <2>1. k \in 0..Len(part) BY <1>1
  <2> QED BY <1>1, <2>1, Starts
<1>3. SubSeq(s, l + 1, l + k) \in Seq(Names) /\ Len(SubSeq(s, l + 1, l + k)) = k
      /\ \A i \in 1..k : SubSeq(s, l + 1, l + k)[i] = s[l + i]
  <2>1. l + 1 \in 1..Len(s) + 1 /\ l + k \in 0..Len(s) /\ (l + k) - (l + 1) + 1 = k /\ k \in Nat /\ l \in Nat OBVIOUS
  <2> DEFINE m == l + 1
             t == l + k
             u == SubSeq(s, m, t)
  <2>2. u \in Seq(Names) /\ Len(u) = IF m <= t THEN t - m + 1 ELSE 0 BY <2>1, SubSeqProperties
  <2>3. \A i \in 1..t - m + 1 : u[i] = s[m + i - 1] BY <2>1, SubSeqProperties
  <2> HIDE DEF u
  <2>4. Len(u) = k BY <2>1, <2>2
  <2>5. \A i \in 1..k : i \in 1..t - m + 1 /\ m + i - 1 = l + i BY <2>1
  <2>6. \A i \in 1..k : u[i] = s[l + i]
    <3> HIDE DEF m, t
    <3> QED BY <2>3, <2>5
  <2> QED BY <2>2, <2>4, <2>6 DEF u
<1>4. \A i \in 1..k : part[i] = s[l + i] BY <1>1
<1>5. SubSeq(part, 1, k) = SubSeq(s, l + 1, l + k) BY <1>2, <1>3, <1>4, SameSeq
<1> QED BY <1>5 DEF part

LEMMA IgnoredOnTheWay ==
    ASSUME NEW s \in Seq(Names), NEW l \in 0..Len(s), NEW rules
    PROVE  (\A n \in l + 1..Len(s) : ~W!IsIgnored(rules, SubSeq(s, l + 1, n), n < Len(s)))
               <=> \A n \in l + 1..Len(s) : ~W!LastMatch(rules, SubSeq(s, l + 1, n), n < Len(s))
<1> DEFINE last(n) == W!LastMatch(rules, SubSeq(s, l + 1, n), n < Len(s))
<1>1. ASSUME NEW n \in l + 1..Len(s)
      PROVE  W!IsIgnored(rules, SubSeq(s, l + 1, n), n < Len(s)) <=> \E k \in 1..n - l : last(l + k)
  <2> DEFINE part == SubSeq(s, l + 1, n)
  <2>1. Len(part) = n - l OBVIOUS
  <2>2. ASSUME NEW k \in 1..n - l
        PROVE  W!LastMatch(rules, SubSeq(part, 1, k), k < Len(part) \/ n < Len(s)) = last(l + k)
    <3>1. SubSeq(part, 1, k) = SubSeq(s, l + 1, l + k) BY StartOfPart
    <3>2. (k < Len(part) \/ n < Len(s)) = (l + k < Len(s)) BY <2>1
    <3> QED BY <3>1, <3>2
  <2>3. W!IsIgnored(rules, part, n < Len(s))
            <=> \E k \in 1..Len(part) : W!LastMatch(rules, SubSeq(part, 1, k), k < Len(part) \/ n < Len(s))
    BY DEF W!IsIgnored
  <2> HIDE DEF part, last
  <2> QED BY <2>1, <2>2, <2>3 DEF part
<1> HIDE DEF last
<1>2. ASSUME NEW n \in l + 1..Len(s), last(n) PROVE \E m \in l + 1..Len(s) : W!IsIgnored(rules, SubSeq(s, l + 1, m), m < Len(s))
  <2>1. n - l \in 1..n - l /\ l + (n - l) = n OBVIOUS
  <2> QED BY <1>1, <1>2, <2>1
<1>3. ASSUME NEW n \in l + 1..Len(s), W!IsIgnored(rules, SubSeq(s, l + 1, n), n < Len(s))
      PROVE  \E m \in l + 1..Len(s) : last(m)
  <2>1. PICK k \in 1..n - l : last(l + k) BY <1>1, <1>3
  <2>2. l + k \in l + 1..Len(s) OBVIOUS
  <2> QED BY <2>1, <2>2
<1> QED BY <1>2, <1>3 DEF last

RulesOf(asked, engine, dir) == IF engine.respect THEN W!Rules(asked.ignores[dir]) ELSE <<>>

\* What a walk is to find, as the properties say it, is what it reaches.
LEMMA WantedIs ==
    ASSUME NEW asked, asked.tree \in SUBSET Seq(Names), NEW engine, NEW dir \in Seq(Names)
    PROVE  Wanted(asked, engine, dir)
               = Reachable(asked.tree, RulesOf(asked, engine, dir), dir, engine.skip, dir)
<1> DEFINE rules == RulesOf(asked, engine, dir)
           wanted(file) ==
               /\ IsStrictPrefix(dir, file)
               /\ W!Extension(Last(file)) \in Supported
               /\ \A n \in Len(dir) + 1..Len(file) :
                     /\ ~W!PassedOver(file[n], engine.skip)
                     /\ ~W!LastMatch(rules, SubSeq(SubSeq(file, 1, n), Len(dir) + 1, Len(SubSeq(file, 1, n))), n < Len(file))
<1>1. Wanted(asked, engine, dir) = {file \in asked.tree : wanted(file)} BY DEF Wanted, RulesOf
<1>2. ASSUME NEW file \in asked.tree PROVE wanted(file) <=> Reached(rules, dir, engine.skip, dir, file)
  <2>1. IsStrictPrefix(dir, file) <=> Below(dir, file) BY PrefixIs
  <2> SUFFICES ASSUME Below(dir, file) PROVE wanted(file) <=> Reached(rules, dir, engine.skip, dir, file)
    <3> HIDE DEF rules
    <3> QED BY <2>1 DEF Reached
  <2>2. Len(dir) \in 0..Len(file) BY DEF Below
  <2> HIDE DEF rules
  <2>3. (\A n \in Len(dir) + 1..Len(file) : ~W!IsIgnored(rules, SubSeq(file, Len(dir) + 1, n), n < Len(file)))
            <=> \A n \in Len(dir) + 1..Len(file) : ~W!LastMatch(rules, SubSeq(file, Len(dir) + 1, n), n < Len(file))
    BY <2>2, IgnoredOnTheWay
  <2>4. \A n \in Len(dir) + 1..Len(file) :
            SubSeq(SubSeq(file, 1, n), Len(dir) + 1, Len(SubSeq(file, 1, n))) = SubSeq(file, Len(dir) + 1, n)
    <3> TAKE n \in Len(dir) + 1..Len(file)
    <3>1. n \in 0..Len(file) /\ Len(dir) \in 0..n BY <2>2
    <3>2. W!From(SubSeq(file, 1, n), Len(dir) + 1) = SubSeq(file, Len(dir) + 1, n) BY <3>1, RestOfStart
    <3> QED BY <3>2 DEF W!From
  <2>5. Last(file) = file[Len(file)] BY DEF Last
  <2> QED BY <2>1, <2>3, <2>4, <2>5 DEF Reached, Passes
<1> HIDE DEF wanted
<1> QED BY <1>1, <1>2 DEF Reachable

\* The order of the files.

Strict(A, R) ==
    /\ \A a \in A : <<a, a>> \notin R
    /\ \A a, b, c \in A : <<a, b>> \in R /\ <<b, c>> \in R => <<a, c>> \in R
    /\ \A a, b \in A : a = b \/ <<a, b>> \in R \/ <<b, a>> \in R

\* The order of sequences that an order of their elements makes.
Splits(R, l, r, i) ==
    i \in 1..Len(l) /\ i \in 1..Len(r) /\ (\A j \in 1..i - 1 : l[j] = r[j]) /\ <<l[i], r[i]>> \in R
Lex(R, l, r) == Below(l, r) \/ \E i \in Nat : Splits(R, l, r, i)

\* A lexicographic order of sequences is strict when that of their elements is.
LEMMA LexNotSelf ==
    ASSUME NEW A, NEW R, Strict(A, R), NEW l \in Seq(A)
    PROVE  ~Lex(R, l, l)
<1>1. ~Below(l, l) BY DEF Below
<1>2. ASSUME NEW i \in Nat, Splits(R, l, l, i) PROVE FALSE
  <2>1. l[i] \in A BY <1>2 DEF Splits
  <2> QED BY <2>1, <1>2 DEF Splits, Strict
<1> QED BY <1>1, <1>2 DEF Lex

LEMMA LexEither ==
    ASSUME NEW A, NEW R, Strict(A, R), NEW l \in Seq(A), NEW r \in Seq(A), l # r
    PROVE  Lex(R, l, r) \/ Lex(R, r, l)
<1> DEFINE apart == {i \in 1..Len(l) : i <= Len(r) /\ l[i] # r[i]}
<1>1. CASE apart = {}
  <2>1. \A i \in 1..Len(l) : i <= Len(r) => l[i] = r[i] BY <1>1
  <2>2. CASE Len(l) = Len(r)
    <3>1. \A i \in 1..Len(l) : l[i] = r[i] BY <2>1, <2>2
    <3> QED BY <3>1, <2>2, SeqEqual
  <2>3. CASE Len(l) < Len(r)
    <3>1. Below(l, r) BY <2>1, <2>3 DEF Below, Under
    <3> QED BY <3>1 DEF Lex
  <2>4. CASE Len(r) < Len(l)
    <3>1. Below(r, l) BY <2>1, <2>4 DEF Below, Under
    <3> QED BY <3>1 DEF Lex
  <2> QED BY <2>2, <2>3, <2>4
<1>2. CASE apart # {}
  <2>1. apart \in SUBSET Nat OBVIOUS
  <2>2. PICK i \in apart : \A j \in apart : i <= j BY <1>2, <2>1, Least
  <2>3. i \in 1..Len(l) /\ i \in 1..Len(r) /\ l[i] # r[i] BY <2>2
  <2>4. \A j \in 1..i - 1 : l[j] = r[j] BY <2>2, <2>3
  <2>5. l[i] \in A /\ r[i] \in A BY <2>3
  <2>6. <<l[i], r[i]>> \in R \/ <<r[i], l[i]>> \in R BY <2>3, <2>5 DEF Strict
  <2>7. Splits(R, l, r, i) \/ Splits(R, r, l, i) BY <2>3, <2>4, <2>6 DEF Splits
  <2>8. i \in Nat BY <2>3
  <2> QED BY <2>7, <2>8 DEF Lex
<1> QED BY <1>1, <1>2

LEMMA LexThrough ==
    ASSUME NEW A, NEW R, Strict(A, R), NEW l \in Seq(A), NEW m \in Seq(A), NEW r \in Seq(A),
           Lex(R, l, m), Lex(R, m, r)
    PROVE  Lex(R, l, r)
<1>1. CASE Below(l, m) /\ Below(m, r)
  <2>1. Below(l, r) BY <1>1 DEF Below, Under
  <2> QED BY <2>1 DEF Lex
<1>2. ASSUME Below(l, m), NEW i \in Nat, Splits(R, m, r, i) PROVE Lex(R, l, r)
  <2>1. CASE i <= Len(l)
    <3>1. l[i] = m[i] /\ \A j \in 1..i - 1 : l[j] = m[j] BY <1>2, <2>1 DEF Below, Under, Splits
    <3>2. Splits(R, l, r, i) BY <3>1, <2>1, <1>2 DEF Splits
    <3> QED BY <3>2 DEF Lex
  <2>2. CASE i > Len(l)
    <3>1. \A j \in 1..Len(l) : r[j] = l[j] BY <1>2, <2>2 DEF Below, Under, Splits
    <3>2. Below(l, r) BY <3>1, <2>2, <1>2 DEF Below, Under, Splits
    <3> QED BY <3>2 DEF Lex
  <2> QED BY <2>1, <2>2
<1>3. ASSUME NEW i \in Nat, Splits(R, l, m, i), Below(m, r) PROVE Lex(R, l, r)
  <2>1. r[i] = m[i] /\ i \in 1..Len(r) /\ \A j \in 1..i - 1 : r[j] = m[j] BY <1>3 DEF Below, Under, Splits
  <2>2. Splits(R, l, r, i) BY <2>1, <1>3 DEF Splits
  <2> QED BY <2>2 DEF Lex
<1>4. ASSUME NEW i \in Nat, NEW k \in Nat, Splits(R, l, m, i), Splits(R, m, r, k) PROVE Lex(R, l, r)
  <2>1. CASE i < k
    <3>1. m[i] = r[i] /\ i \in 1..Len(r) /\ \A j \in 1..i - 1 : m[j] = r[j] BY <1>4, <2>1 DEF Splits
    <3>2. Splits(R, l, r, i) BY <3>1, <1>4 DEF Splits
    <3> QED BY <3>2 DEF Lex
  <2>2. CASE k < i
    <3>1. l[k] = m[k] /\ k \in 1..Len(l) /\ \A j \in 1..k - 1 : l[j] = m[j] BY <1>4, <2>2 DEF Splits
    <3>2. Splits(R, l, r, k) BY <3>1, <1>4 DEF Splits
    <3> QED BY <3>2 DEF Lex
  <2>3. CASE i = k
    <3>1. l[i] \in A /\ m[i] \in A /\ r[i] \in A BY <1>4, <2>3 DEF Splits
    <3>2. <<l[i], r[i]>> \in R BY <3>1, <1>4, <2>3 DEF Splits, Strict
    <3>3. Splits(R, l, r, i) BY <3>2, <1>4, <2>3 DEF Splits
    <3> QED BY <3>3 DEF Lex
  <2> QED BY <2>1, <2>2, <2>3
<1> QED BY <1>1, <1>2, <1>3, <1>4 DEF Lex

LEMMA LexStrict ==
    ASSUME NEW A, NEW R, Strict(A, R), NEW S \in SUBSET Seq(A), NEW Q,
           \A l, r \in S : <<l, r>> \in Q <=> Lex(R, l, r)
    PROVE  Strict(S, Q)
<1>1. \A l \in S : ~Lex(R, l, l) BY LexNotSelf
<1>2. \A l, r \in S : l = r \/ Lex(R, l, r) \/ Lex(R, r, l) BY LexEither
<1>3. \A l, m, r \in S : Lex(R, l, m) /\ Lex(R, m, r) => Lex(R, l, r)
  <2> TAKE l, m, r \in S
  <2> HAVE Lex(R, l, m) /\ Lex(R, m, r)
  <2> QED BY LexThrough
<1> QED BY <1>1, <1>2, <1>3 DEF Strict

\* In a strict order of a finite set every place is taken, by one element.
Rank(S, R, x) == Cardinality({y \in S : <<y, x>> \in R})

\* The ranks are the numbers from 0, one for each element.
LEMMA RankIs ==
    ASSUME NEW S, IsFiniteSet(S), NEW R, Strict(S, R)
    PROVE  /\ Cardinality(S) \in Nat
           /\ \A x \in S : Rank(S, R, x) \in 0..Cardinality(S) - 1
           /\ \A x, y \in S : Rank(S, R, x) = Rank(S, R, y) => x = y
           /\ \A n \in 0..Cardinality(S) - 1 : \E x \in S : Rank(S, R, x) = n
<1> DEFINE n == Cardinality(S)
           earlier(x) == {y \in S : <<y, x>> \in R}
           rank(x) == Cardinality(earlier(x))
           place == [x \in S |-> rank(x)]
<1>1. n \in Nat BY FS_CardinalityType
<1>2. ASSUME NEW x \in S PROVE IsFiniteSet(earlier(x)) /\ rank(x) \in 0..n - 1
  <2>1. earlier(x) \in SUBSET S OBVIOUS
  <2>2. x \notin earlier(x) BY DEF Strict
  <2> HIDE DEF earlier
  <2>3. IsFiniteSet(earlier(x)) /\ Cardinality(earlier(x)) <= n /\ (n = Cardinality(earlier(x)) => S = earlier(x)) BY <2>1, FS_Subset
  <2>4. Cardinality(earlier(x)) \in Nat BY <2>3, FS_CardinalityType
  <2>5. Cardinality(earlier(x)) # n BY <2>2, <2>3
  <2> QED BY <2>3, <2>4, <2>5, <1>1
<1>3. ASSUME NEW x \in S, NEW y \in S, <<x, y>> \in R PROVE rank(x) < rank(y)
  <2>1. earlier(x) \in SUBSET earlier(y) BY <1>3 DEF Strict
  <2>2. x \in earlier(y) BY <1>3
  <2>3. x \notin earlier(x) BY DEF Strict
  <2>4. rank(x) \in Nat /\ rank(y) \in Nat /\ IsFiniteSet(earlier(y)) BY <1>2
  <2> HIDE DEF earlier
  <2>5. Cardinality(earlier(x)) <= Cardinality(earlier(y))
        /\ (Cardinality(earlier(y)) = Cardinality(earlier(x)) => earlier(y) = earlier(x))
    BY <2>1, <2>4, FS_Subset
  <2> QED BY <2>2, <2>3, <2>4, <2>5
<1>6. \A x \in S : rank(x) \in 0..n - 1 BY <1>2
<1>4. \A x, y \in S : rank(x) = rank(y) => x = y
  <2> TAKE x, y \in S
  <2>1. rank(x) \in Int /\ rank(y) \in Int
    <3> HIDE DEF rank, n
    <3> QED BY <1>6
  <2>2. x = y \/ <<x, y>> \in R \/ <<y, x>> \in R BY DEF Strict
  <2> HIDE DEF rank
  <2> QED BY <1>3, <2>1, <2>2
<1>5. \A m \in 0..n - 1 : \E x \in S : rank(x) = m
  <2> HIDE DEF rank
  <2>1. place \in [S -> 0..n - 1] BY <1>2
  <2>2. place \in Injection(S, 0..n - 1) BY <2>1, <1>4 DEF Injection, IsInjective
  <2>3. IsFiniteSet(0..n - 1) /\ Cardinality(0..n - 1) = n BY <1>1, FS_Interval
  <2> HIDE DEF place
  <2>4. place \in Surjection(S, 0..n - 1) BY <2>2, <2>3, FS_Injection
  <2>5. \A m \in 0..n - 1 : \E x \in S : place[x] = m BY <2>4 DEF Surjection
  <2> QED BY <2>5 DEF place
<1>7. \A x \in S : rank(x) = Rank(S, R, x) BY DEF Rank
<1> HIDE DEF rank
<1> QED BY <1>1, <1>6, <1>4, <1>5, <1>7

\* The orders of the walk, of characters, of names and of paths.
LEMMA AnyPrefix ==
    ASSUME NEW N, NEW s \in Seq(N), NEW t \in Seq(N)
    PROVE  /\ W!IsStrictPrefix(s, t) <=> Below(s, t)
           /\ \A i \in Nat : i \in 1..Len(s) /\ i \in 1..Len(t) =>
                 (SubSeq(s, 1, i - 1) = SubSeq(t, 1, i - 1) <=> \A j \in 1..i - 1 : s[j] = t[j])
<1>1. ASSUME NEW m \in Nat, m <= Len(s), m <= Len(t)
      PROVE  SubSeq(s, 1, m) = SubSeq(t, 1, m) <=> \A j \in 1..m : s[j] = t[j]
  <2> DEFINE u == SubSeq(s, 1, m)
             v == SubSeq(t, 1, m)
  <2>1. u \in Seq(N) /\ Len(u) = m /\ \A j \in 1..m : u[j] = s[j] BY <1>1
  <2>2. v \in Seq(N) /\ Len(v) = m /\ \A j \in 1..m : v[j] = t[j] BY <1>1
  <2> HIDE DEF u, v
  <2>3. (\A j \in 1..m : s[j] = t[j]) => u = v BY <2>1, <2>2, SeqEqual
  <2>4. u = v => \A j \in 1..m : s[j] = t[j] BY <2>1, <2>2
  <2> QED BY <2>3, <2>4 DEF u, v
<1>2. W!IsPrefix(s, t) <=> Under(s, t)
  <2>1. SubSeq(s, 1, Len(s)) = s BY SubSeqFull
  <2>2. Len(s) <= Len(t) => (s = SubSeq(t, 1, Len(s)) <=> \A j \in 1..Len(s) : s[j] = t[j]) BY <1>1, <2>1
  <2> QED BY <2>1, <2>2 DEF W!IsPrefix, Under
<1>3. Under(s, t) => (s # t <=> Len(s) < Len(t))
  <2>1. Under(s, t) /\ Len(s) = Len(t) => s = t BY SeqEqual DEF Under
  <2> QED BY <2>1 DEF Under
<1>4. W!IsStrictPrefix(s, t) <=> Below(s, t) BY <1>2, <1>3 DEF W!IsStrictPrefix, Below
<1>5. ASSUME NEW i \in Nat, i \in 1..Len(s), i \in 1..Len(t)
      PROVE  SubSeq(s, 1, i - 1) = SubSeq(t, 1, i - 1) <=> \A j \in 1..i - 1 : s[j] = t[j]
  <2>1. i - 1 \in Nat /\ i - 1 <= Len(s) /\ i - 1 <= Len(t) BY <1>5
  <2> QED BY <2>1, <1>1
<1> QED BY <1>4, <1>5

Ordered(letters) == \A c, d \in letters : Ordinal(c) \in Int /\ (Ordinal(c) = Ordinal(d) => c = d)
CharOrder(letters) == {pair \in letters \X letters : Ordinal(pair[1]) < Ordinal(pair[2])}
NameOrder(names) == {pair \in names \X names : W!NameBelow(pair[1], pair[2])}
FileOrder(files) == {pair \in files \X files : W!PathOrder(pair[1], pair[2])}

\* Characters, names and paths are each put in a strict order.
LEMMA CharStrict ==
    ASSUME NEW letters, Ordered(letters)
    PROVE  Strict(letters, CharOrder(letters))
BY DEF Ordered, Strict, CharOrder

LEMMA NameStrict ==
    ASSUME NEW letters, Ordered(letters), NEW names \in SUBSET Seq(letters)
    PROVE  Strict(names, NameOrder(names))
<1> DEFINE R == CharOrder(letters)
<1>1. Strict(letters, R) BY CharStrict
<1>2. ASSUME NEW l \in names, NEW r \in names PROVE <<l, r>> \in NameOrder(names) <=> Lex(R, l, r)
  <2>1. <<l, r>> \in NameOrder(names) <=> W!NameBelow(l, r) BY DEF NameOrder
  <2>2. W!IsStrictPrefix(l, r) <=> Below(l, r) BY AnyPrefix
  <2>3. \A i \in Nat : i \in 1..Len(l) /\ i \in 1..Len(r) =>
            (SubSeq(l, 1, i - 1) = SubSeq(r, 1, i - 1) <=> \A j \in 1..i - 1 : l[j] = r[j])
    BY AnyPrefix
  <2>4. \A i : i \in 1..Len(l) /\ i \in 1..Len(r) => (<<l[i], r[i]>> \in R <=> Ordinal(l[i]) < Ordinal(r[i]))
    BY DEF CharOrder
  <2>5. DOMAIN l = 1..Len(l) /\ DOMAIN r = 1..Len(r) OBVIOUS
  <2> HIDE DEF R
  <2>6. \A i \in Nat : Splits(R, l, r, i) <=> /\ i \in DOMAIN l \cap DOMAIN r
                                              /\ SubSeq(l, 1, i - 1) = SubSeq(r, 1, i - 1)
                                              /\ Ordinal(l[i]) < Ordinal(r[i])
    BY <2>3, <2>4, <2>5 DEF Splits
  <2>7. \A i \in DOMAIN l \cap DOMAIN r : i \in Nat BY <2>5
  <2> QED BY <2>1, <2>2, <2>6, <2>7 DEF W!NameBelow, Lex
<1> HIDE DEF R
<1> QED BY <1>1, <1>2, LexStrict

LEMMA PathStrict ==
    ASSUME NEW names, Strict(names, NameOrder(names)), NEW files \in SUBSET Seq(names)
    PROVE  Strict(files, FileOrder(files))
<1> DEFINE R == NameOrder(names)
<1>1. ASSUME NEW l \in files, NEW r \in files PROVE <<l, r>> \in FileOrder(files) <=> Lex(R, l, r)
  <2>1. <<l, r>> \in FileOrder(files) <=> W!PathOrder(l, r) BY DEF FileOrder
  <2>2. W!IsStrictPrefix(l, r) <=> Below(l, r) BY AnyPrefix
  <2>3. \A i \in Nat : i \in 1..Len(l) /\ i \in 1..Len(r) =>
            (SubSeq(l, 1, i - 1) = SubSeq(r, 1, i - 1) <=> \A j \in 1..i - 1 : l[j] = r[j])
    BY AnyPrefix
  <2>4. \A i : i \in 1..Len(l) /\ i \in 1..Len(r) => (<<l[i], r[i]>> \in R <=> W!NameBelow(l[i], r[i]))
    BY DEF NameOrder
  <2>5. DOMAIN l = 1..Len(l) /\ DOMAIN r = 1..Len(r) OBVIOUS
  <2> HIDE DEF R
  <2>6. \A i \in Nat : Splits(R, l, r, i) <=> /\ i \in DOMAIN l \cap DOMAIN r
                                              /\ SubSeq(l, 1, i - 1) = SubSeq(r, 1, i - 1)
                                              /\ W!NameBelow(l[i], r[i])
    BY <2>3, <2>4, <2>5 DEF Splits
  <2>7. \A i \in DOMAIN l \cap DOMAIN r : i \in Nat BY <2>5
  <2> QED BY <2>1, <2>2, <2>6, <2>7 DEF W!PathOrder, Lex
<1> HIDE DEF R
<1> QED BY <1>1, LexStrict DEF R

\* A walk gives every file that it found, and each of them once (path_order).
THEOREM InOrderIs ==
    ASSUME NEW files, IsFiniteSet(files), Strict(files, FileOrder(files))
    PROVE  /\ Cardinality(files) \in Nat
           /\ W!InOrder(files) \in [1..Cardinality(files) -> files]
           /\ {W!InOrder(files)[n] : n \in 1..Cardinality(files)} = files
<1> DEFINE size == Cardinality(files)
           rank(x) == Rank(files, FileOrder(files), x)
           order == W!InOrder(files)
<1>1. /\ size \in Nat
      /\ \A x \in files : rank(x) \in 0..size - 1
      /\ \A x, y \in files : rank(x) = rank(y) => x = y
      /\ \A n \in 0..size - 1 : \E x \in files : rank(x) = n
  BY RankIs
<1>8. \A S : W!Cardinality(S) = Cardinality(S) BY Zenon DEF W!Cardinality, Cardinality
<1>2. ASSUME NEW x \in files PROVE W!Cardinality({f \in files : W!PathOrder(f, x)}) = rank(x)
  <2>1. \A y \in files : <<y, x>> \in FileOrder(files) <=> W!PathOrder(y, x) BY DEF FileOrder
  <2>2. {f \in files : W!PathOrder(f, x)} = {y \in files : <<y, x>> \in FileOrder(files)} BY <2>1
  <2> QED BY <2>2, <1>8 DEF Rank
<1>9. order = [n \in 1..W!Cardinality(files) |->
                  CHOOSE x \in files : W!Cardinality({f \in files : W!PathOrder(f, x)}) = n - 1]
  BY Zenon DEF W!InOrder
<1>10. size = W!Cardinality(files) BY <1>8
<1> HIDE DEF size, order
<1>3. order = [n \in 1..size |->
                  CHOOSE x \in files : W!Cardinality({f \in files : W!PathOrder(f, x)}) = n - 1]
  BY <1>9, <1>10
<1> HIDE DEF size, rank, order
<1>4. ASSUME NEW n \in 1..size PROVE order[n] \in files /\ rank(order[n]) = n - 1
  <2>1. n - 1 \in 0..size - 1 BY <1>1
  <2>2. PICK x \in files : rank(x) = n - 1 BY <1>1, <2>1
  <2>3. \E y \in files : W!Cardinality({f \in files : W!PathOrder(f, y)}) = n - 1 BY <1>2, <2>2
  <2>4. order[n] = CHOOSE y \in files : W!Cardinality({f \in files : W!PathOrder(f, y)}) = n - 1 BY <1>3
  <2>5. order[n] \in files /\ W!Cardinality({f \in files : W!PathOrder(f, order[n])}) = n - 1 BY <2>3, <2>4
  <2> QED BY <2>5, <1>2
<1>5. ASSUME NEW x \in files PROVE \E n \in 1..size : order[n] = x
  <2>1. rank(x) \in 0..size - 1 BY <1>1
  <2>2. rank(x) + 1 \in 1..size /\ (rank(x) + 1) - 1 = rank(x) BY <2>1, <1>1
  <2>3. order[rank(x) + 1] \in files /\ rank(order[rank(x) + 1]) = rank(x) BY <1>4, <2>2
  <2>4. order[rank(x) + 1] = x BY <2>3, <1>1
  <2> QED BY <2>2, <2>4
<1>6. order \in [1..size -> files] BY <1>3, <1>4
<1>7. {order[n] : n \in 1..size} = files BY <1>4, <1>5
<1> QED BY <1>1, <1>6, <1>7 DEF size, order

\* Folds.  A fold over the positions of a sequence takes the last one off.
Top(s) == CHOOSE x \in s : \A y \in s : x >= y

LEMMA TopIs ==
    ASSUME NEW m \in Nat, NEW s \in SUBSET (1..m), s # {}
    PROVE  /\ Top(s) \in s /\ (\A y \in s : Top(s) >= y) /\ s \ {Top(s)} \in SUBSET (1..m)
           /\ m \in s => Top(s) = m
<1> DEFINE over == {k \in Nat : \A y \in s : y <= k}
<1>1. over \in SUBSET Nat /\ m \in over OBVIOUS
<1>2. PICK k \in over : \A j \in over : k <= j BY <1>1, Least
<1>3. k \in s
  <2> SUFFICES ASSUME k \notin s PROVE FALSE OBVIOUS
  <2>1. PICK y \in s : TRUE OBVIOUS
  <2>2. k \in Nat /\ y \in Nat /\ y <= k /\ y # k /\ y \in 1..m BY <1>2, <2>1
  <2>3. k - 1 \in over
    <3>1. k - 1 \in Nat BY <2>2
    <3>2. \A z \in s : z \in Nat /\ z <= k /\ z # k BY <1>2
    <3> QED BY <3>1, <3>2
  <2> QED BY <1>2, <2>2, <2>3
<1>4. \A y \in s : k >= y BY <1>2
<1>5. Top(s) \in s /\ \A y \in s : Top(s) >= y BY <1>3, <1>4, Zenon DEF Top
<1>7. Top(s) \in 1..m BY <1>5
<1>6. m \in s => Top(s) = m BY <1>5, <1>7
<1> QED BY <1>5, <1>6

Folds(f, m, base, step) ==
    \A s \in SUBSET (1..m) : f[s] = IF s = {} THEN base ELSE step[<<f[s \ {Top(s)}], Top(s)>>]

\* A fold has a value at every set of positions: FoldLeft computes one.
LEMMA FoldExists ==
    ASSUME NEW A, NEW base \in A, NEW n \in Nat, NEW step \in [A \X (1..n) -> A]
    PROVE  \E f \in [SUBSET (1..n) -> A] : Folds(f, n, base, step)
<1> DEFINE good == {m \in Nat : \E f \in [SUBSET (1..m) -> A] : Folds(f, m, base, step)}
<1>1. 0 \in good
  <2> DEFINE f == [s \in SUBSET (1..0) |-> base]
  <2>1. f \in [SUBSET (1..0) -> A] OBVIOUS
  <2>2. \A s \in SUBSET (1..0) : s = {} OBVIOUS
  <2>3. Folds(f, 0, base, step) BY <2>2 DEF Folds
  <2> QED BY <2>1, <2>3
<1>2. ASSUME NEW m \in 0..n - 1, m \in good PROVE m + 1 \in good
  <2>1. PICK f \in [SUBSET (1..m) -> A] : Folds(f, m, base, step) BY <1>2
  <2> DEFINE g == [s \in SUBSET (1..m + 1) |-> IF m + 1 \in s THEN step[<<f[s \ {m + 1}], m + 1>>] ELSE f[s]]
  <2>2. m \in Nat /\ m + 1 \in Nat /\ m + 1 \in 1..n OBVIOUS
  <2>3. \A s \in SUBSET (1..m + 1) : s \ {m + 1} \in SUBSET (1..m) BY <2>2
  <2>4. \A s \in SUBSET (1..m + 1) : m + 1 \notin s => s \in SUBSET (1..m) BY <2>2
  <2>5. ASSUME NEW s \in SUBSET (1..m + 1) PROVE g[s] \in A
    <3>1. CASE m + 1 \in s
      <4>1. f[s \ {m + 1}] \in A BY <2>3
      <4>2. <<f[s \ {m + 1}], m + 1>> \in A \X (1..n) BY <4>1, <2>2
      <4>3. step[<<f[s \ {m + 1}], m + 1>>] \in A BY <4>2
      <4> QED BY <4>3, <3>1
    <3>2. CASE m + 1 \notin s
      <4>1. f[s] \in A BY <3>2, <2>4
      <4> QED BY <4>1, <3>2
    <3> QED BY <3>1, <3>2
  <2>6. g \in [SUBSET (1..m + 1) -> A] BY <2>5
  <2>7. ASSUME NEW s \in SUBSET (1..m + 1)
        PROVE  g[s] = IF s = {} THEN base ELSE step[<<g[s \ {Top(s)}], Top(s)>>]
    <3>1. CASE m + 1 \in s
      <4>1. Top(s) = m + 1 BY <3>1, <2>2, TopIs
      <4>2. s \ {m + 1} \in SUBSET (1..m + 1) /\ m + 1 \notin s \ {m + 1} OBVIOUS
      <4>3. g[s \ {m + 1}] = f[s \ {m + 1}] BY <4>2
      <4>4. g[s] = step[<<f[s \ {m + 1}], m + 1>>] BY <3>1
      <4> HIDE DEF g
      <4> QED BY <4>1, <4>3, <4>4, <3>1
    <3>2. CASE m + 1 \notin s
      <4>1. s \in SUBSET (1..m) BY <3>2, <2>4
      <4>2. f[s] = IF s = {} THEN base ELSE step[<<f[s \ {Top(s)}], Top(s)>>] BY <4>1, <2>1 DEF Folds
      <4>3. g[s] = f[s] BY <3>2
      <4>4. s # {} => s \ {Top(s)} \in SUBSET (1..m) BY <4>1, <2>2, TopIs
      <4>5. s # {} => s \ {Top(s)} \in SUBSET (1..m + 1) /\ m + 1 \notin s \ {Top(s)} BY <3>2
      <4>6. s # {} => g[s \ {Top(s)}] = f[s \ {Top(s)}] BY <4>5
      <4> HIDE DEF g
      <4> QED BY <4>2, <4>3, <4>6
    <3> QED BY <3>1, <3>2
  <2>8. Folds(g, m + 1, base, step) BY <2>7 DEF Folds
  <2> HIDE DEF g
  <2> QED BY <2>2, <2>6, <2>8
<1> HIDE DEF good
<1>3. \A m \in 0..n - 1 : m \in good => m + 1 \in good BY <1>2
<1>4. \A m \in 0..n : m \in good BY <1>1, <1>3, Upto
<1>5. n \in good BY <1>4
<1> QED BY <1>5 DEF good

\* The values of a fold after each position.
Steps(f, n, A, base, step) ==
    \A s \in SUBSET (1..n) : IF s = {} THEN f[s] = base
                             ELSE f[s \ {Top(s)}] \in A => f[s] = step[<<f[s \ {Top(s)}], Top(s)>>]

ComesTo(out, n, A, base, step) ==
    \E acc \in [0..n -> A] : /\ acc[0] = base /\ acc[n] = out
                             /\ \A k \in 1..n : acc[k] = step[<<acc[k - 1], k>>]

LEMMA FoldSteps ==
    ASSUME NEW A, NEW base \in A, NEW n \in Nat, NEW step \in [A \X (1..n) -> A],
           NEW f, Steps(f, n, A, base, step)
    PROVE  ComesTo(f[1..n], n, A, base, step)
<1> DEFINE acc == [k \in 0..n |-> f[1..k]]
           good == {k \in Nat : f[1..k] \in A}
<1>1. f[1..0] = base
  <2>1. 1..0 = {} /\ {} \in SUBSET (1..n) OBVIOUS
  <2> QED BY <2>1 DEF Steps
<1>2. ASSUME NEW k \in 1..n, f[1..k - 1] \in A PROVE f[1..k] = step[<<f[1..k - 1], k>>]
  <2>1. 1..k \in SUBSET (1..n) /\ 1..k \in SUBSET (1..k) /\ k \in 1..k /\ 1..k # {} /\ k \in Nat OBVIOUS
  <2>2. Top(1..k) = k BY <2>1, TopIs
  <2>3. (1..k) \ {k} = 1..k - 1 OBVIOUS
  <2> QED BY <2>1, <2>2, <2>3, <1>2 DEF Steps
<1>3. 0 \in good BY <1>1
<1>4. \A k \in 0..n - 1 : k \in good => k + 1 \in good
  <2> TAKE k \in 0..n - 1
  <2> HAVE k \in good
  <2>1. k + 1 \in 1..n /\ (k + 1) - 1 = k /\ k + 1 \in Nat OBVIOUS
  <2>2. f[1..k + 1] = step[<<f[1..k], k + 1>>] BY <1>2, <2>1
  <2>3. <<f[1..k], k + 1>> \in A \X (1..n) BY <2>1
  <2> QED BY <2>1, <2>2, <2>3
<1> HIDE DEF good
<1>5. \A k \in 0..n : k \in good BY <1>3, <1>4, Upto
<1>6. acc \in [0..n -> A] BY <1>5 DEF good
<1>7. \A k \in 1..n : acc[k] = step[<<acc[k - 1], k>>]
  <2> TAKE k \in 1..n
  <2>1. k - 1 \in 0..n /\ k \in 0..n OBVIOUS
  <2>2. f[1..k - 1] \in A BY <1>5, <2>1 DEF good
  <2> QED BY <1>2, <2>1, <2>2
<1>8. acc[0] = base /\ acc[n] = f[1..n] BY <1>1
<1> HIDE DEF acc
<1> QED BY <1>6, <1>7, <1>8 DEF ComesTo

\* Cleaned takes a path name by name and passes over the dots.
LEMMA CleanedRuns ==
    ASSUME NEW path \in Seq(Names)
    PROVE  \E acc \in [0..Len(path) -> Seq(Names)] :
               /\ acc[0] = <<>> /\ acc[Len(path)] = W!Cleaned(path)
               /\ \A k \in 1..Len(path) : acc[k] = IF path[k] = W!Dot THEN acc[k - 1] ELSE Append(acc[k - 1], path[k])
<1> DEFINE n == Len(path)
           empty == <<>>
           A == Seq(Names)
           step == [p \in A \X (1..n) |-> IF path[p[2]] = W!Dot THEN p[1] ELSE Append(p[1], path[p[2]])]
           next(f, s) == IF s = {} THEN empty
                         ELSE IF path[W!Max(s)] = W!Dot THEN f[s \ {W!Max(s)}]
                              ELSE Append(f[s \ {W!Max(s)}], path[W!Max(s)])
           iter == CHOOSE f : f = [s \in SUBSET DOMAIN path |-> next(f, s)]
<1>1. W!Cleaned(path) = iter[DOMAIN path] BY Zenon DEF W!Cleaned, W!FoldLeft, W!MapThenFoldSet
<1>2. DOMAIN path = 1..n /\ n \in Nat /\ empty \in A OBVIOUS
<1>3. \A k \in 1..n : path[k] \in Names OBVIOUS
<1>4. step \in [A \X (1..n) -> A] BY <1>3
<1>5. \A out \in A, k \in 1..n : step[<<out, k>>] = IF path[k] = W!Dot THEN out ELSE Append(out, path[k]) OBVIOUS
<1>6. \A s : W!Max(s) = Top(s) BY Zenon DEF W!Max, Top
<1> HIDE DEF n, A, step, empty
<1>7. PICK f \in [SUBSET (1..n) -> A] : Folds(f, n, empty, step) BY <1>2, <1>4, FoldExists
<1>8. ASSUME NEW s \in SUBSET (1..n), NEW g, s # {} => g[s \ {Top(s)}] \in A
      PROVE  next(g, s) = IF s = {} THEN empty ELSE step[<<g[s \ {Top(s)}], Top(s)>>]
  <2>1. s # {} => Top(s) \in 1..n BY <1>2, TopIs
  <2> QED BY <1>5, <1>6, <1>8, <2>1
<1>9. \A s \in SUBSET (1..n) : f[s] = next(f, s)
  <2> TAKE s \in SUBSET (1..n)
  <2>1. s # {} => s \ {Top(s)} \in SUBSET (1..n) BY <1>2, TopIs
  <2>2. s # {} => f[s \ {Top(s)}] \in A BY <1>7, <2>1
  <2> HIDE DEF next
  <2> QED BY <1>7, <1>8, <2>2 DEF Folds
<1> HIDE DEF next
<1>10. f = [s \in SUBSET DOMAIN path |-> next(f, s)] BY <1>2, <1>7, <1>9
<1>11. iter = [s \in SUBSET DOMAIN path |-> next(iter, s)] BY <1>10
<1> HIDE DEF iter
<1>12. ASSUME NEW s \in SUBSET (1..n)
       PROVE  IF s = {} THEN iter[s] = empty
              ELSE iter[s \ {Top(s)}] \in A => iter[s] = step[<<iter[s \ {Top(s)}], Top(s)>>]
  <2>1. iter[s] = next(iter, s) BY <1>2, <1>11
  <2>2. CASE s = {} BY <1>8, <2>1, <2>2
  <2>3. CASE s # {} /\ iter[s \ {Top(s)}] \in A BY <1>8, <2>1, <2>3
  <2> QED BY <2>2, <2>3
<1>13. Steps(iter, n, A, empty, step) BY <1>12 DEF Steps
<1>17. ComesTo(iter[1..n], n, A, empty, step) BY <1>2, <1>4, <1>13, FoldSteps
<1>14. PICK acc \in [0..n -> A] : /\ acc[0] = empty /\ acc[n] = iter[1..n]
                                  /\ \A k \in 1..n : acc[k] = step[<<acc[k - 1], k>>]
  BY <1>17 DEF ComesTo
<1>15. \A k \in 1..n : acc[k] = IF path[k] = W!Dot THEN acc[k - 1] ELSE Append(acc[k - 1], path[k])
  <2> TAKE k \in 1..n
  <2>1. acc[k - 1] \in A BY <1>2, <1>14
  <2> QED BY <1>5, <1>14, <2>1
<1>16. acc[n] = W!Cleaned(path) BY <1>1, <1>2, <1>14
<1> QED BY <1>14, <1>15, <1>16 DEF n, A, empty

\* Names without "." and "/", and a path that is file with "."s after the
\* first a names.
Plain(file) == \A i \in 1..Len(file) : file[i] # W!Dot /\ file[i] # W!Root
Spells(path, file, a, b) ==
    /\ a \in 0..Len(file) /\ b \in Nat /\ a <= b /\ Len(path) = Len(file) + (b - a)
    /\ \A i \in 1..a : path[i] = file[i]
    /\ \A i \in a + 1..b : path[i] = W!Dot
    /\ \A i \in a + 1..Len(file) : path[i + (b - a)] = file[i]

\* What a spelled path comes to without its dots.
LEMMA CleanedIs ==
    ASSUME NEW path \in Seq(Names), NEW file \in Seq(Names), Plain(file), NEW a, NEW b, Spells(path, file, a, b)
    PROVE  W!Cleaned(path) = file
<1> DEFINE n == Len(path)
           size(k) == IF k <= a THEN k ELSE IF k <= b THEN a ELSE k - (b - a)
<1>1. PICK acc \in [0..n -> Seq(Names)] :
          /\ acc[0] = <<>> /\ acc[n] = W!Cleaned(path)
          /\ \A k \in 1..n : acc[k] = IF path[k] = W!Dot THEN acc[k - 1] ELSE Append(acc[k - 1], path[k])
  BY CleanedRuns
<1> DEFINE good == {k \in Nat : Len(acc[k]) = size(k) /\ \A i \in 1..size(k) : acc[k][i] = file[i]}
<1>2. n \in Nat /\ a \in Nat /\ b \in Nat /\ a <= b /\ Len(file) \in Nat /\ n = Len(file) + (b - a) /\ a <= Len(file)
  BY DEF Spells
<1>3. 0 \in good
  <2>1. Len(acc[0]) = 0 BY <1>1
  <2>2. size(0) = 0 BY <1>2
  <2> QED BY <2>1, <2>2
<1>4. \A k \in 0..n - 1 : k \in good => k + 1 \in good
  <2> TAKE k \in 0..n - 1
  <2> HAVE k \in good
  <2>1. k + 1 \in 1..n /\ (k + 1) - 1 = k /\ k \in 0..n /\ k + 1 \in 0..n /\ k \in Nat BY <1>2
  <2>2. acc[k + 1] = IF path[k + 1] = W!Dot THEN acc[k] ELSE Append(acc[k], path[k + 1]) BY <1>1, <2>1
  <2>3. acc[k] \in Seq(Names) /\ acc[k + 1] \in Seq(Names) BY <1>1, <2>1
  <2>4. Len(acc[k]) = size(k) /\ \A i \in 1..size(k) : acc[k][i] = file[i] OBVIOUS
  <2>5. CASE a < k + 1 /\ k + 1 <= b
    <3>1. path[k + 1] = W!Dot BY <1>2, <2>1, <2>5 DEF Spells
    <3>2. size(k) = a /\ size(k + 1) = a BY <1>2, <2>1, <2>5
    <3> QED BY <2>1, <2>2, <2>4, <3>1, <3>2
  <2>6. CASE ~(a < k + 1 /\ k + 1 <= b)
    <3> DEFINE m == size(k) + 1
    <3>1. m = size(k + 1) /\ m \in 1..Len(file) /\ size(k) \in Nat BY <1>2, <2>1, <2>6
    <3>2. path[k + 1] = file[m]
      <4>1. CASE k + 1 <= a BY <4>1, <1>2, <2>1 DEF Spells
      <4>2. CASE k + 1 > b
        <5>1. m \in a + 1..Len(file) /\ m + (b - a) = k + 1 BY <4>2, <1>2, <2>1
        <5> HIDE DEF m
        <5> QED BY <5>1 DEF Spells
      <4> QED BY <4>1, <4>2, <2>6, <1>2, <2>1
    <3>3. path[k + 1] # W!Dot BY <3>1, <3>2 DEF Plain
    <3>4. path[k + 1] \in Names BY <2>1
    <3>5. acc[k + 1] = Append(acc[k], path[k + 1]) BY <2>2, <3>3
    <3>6. Len(acc[k + 1]) = m /\ acc[k + 1][m] = file[m] /\ \A i \in 1..size(k) : acc[k + 1][i] = acc[k][i]
      <4> HIDE DEF size
      <4> QED BY <2>3, <2>4, <3>2, <3>4, <3>5
    <3>7. \A i \in 1..m : i = m \/ i \in 1..size(k) BY <3>1
    <3> HIDE DEF size
    <3>8. \A i \in 1..m : acc[k + 1][i] = file[i] BY <2>4, <3>6, <3>7
    <3> QED BY <2>1, <3>1, <3>6, <3>8
  <2> QED BY <2>5, <2>6
<1> HIDE DEF good
<1>5. \A k \in 0..n : k \in good BY <1>2, <1>3, <1>4, Upto
<1>6. n \in good BY <1>2, <1>5
<1>7. size(n) = Len(file) BY <1>2
<1>11. n \in 0..n BY <1>2
<1>8. acc[n] \in Seq(Names) BY <1>11
<1>9. Len(acc[n]) = Len(file) /\ \A i \in 1..Len(file) : acc[n][i] = file[i] BY <1>6, <1>7 DEF good
<1>10. acc[n] = file BY <1>8, <1>9, SameSeq
<1> QED BY <1>1, <1>10

\* rel_of finds the document by its place below the working directory.
KeyOf(engine, file) ==
    IF engine.root # Unset /\ Under(engine.cwd, file) THEN W!From(file, Len(engine.cwd) + 1)
    ELSE <<W!Root>> \o file

LEMMA FromSelf ==
    ASSUME NEW s \in Seq(Names)
    PROVE  W!From(s, 1) = s
<1>1. SubSeq(s, 1, Len(s)) = s BY SubSeqFull
<1> QED BY <1>1 DEF W!From

LEMMA Concat ==
    ASSUME NEW s \in Seq(Names), NEW t \in Seq(Names)
    PROVE  /\ s \o t \in Seq(Names) /\ Len(s \o t) = Len(s) + Len(t)
           /\ \A i \in 1..Len(s) : (s \o t)[i] = s[i]
           /\ \A i \in 1..Len(t) : (s \o t)[Len(s) + i] = t[i]
<1>1. s \o t \in Seq(Names) /\ Len(s \o t) = Len(s) + Len(t) BY ConcatProperties
<1>2. \A i \in 1..Len(s) + Len(t) : (s \o t)[i] = IF i <= Len(s) THEN s[i] ELSE t[i - Len(s)] BY ConcatProperties
<1>3. \A i \in 1..Len(s) : i \in 1..Len(s) + Len(t) /\ i <= Len(s) OBVIOUS
<1>4. \A i \in 1..Len(t) : Len(s) + i \in 1..Len(s) + Len(t) /\ ~(Len(s) + i <= Len(s)) /\ (Len(s) + i) - Len(s) = i OBVIOUS
<1> DEFINE u == s \o t
<1> HIDE DEF u
<1>5. \A i \in 1..Len(s) : u[i] = s[i] BY <1>2, <1>3 DEF u
<1>6. \A i \in 1..Len(t) : u[Len(s) + i] = t[i] BY <1>2, <1>4 DEF u
<1> QED BY <1>1, <1>5, <1>6 DEF u

LEMMA FirstName ==
    ASSUME NEW rest \in Seq(Names), NEW d \in 0..Len(rest), \A i \in 1..Len(rest) : rest[i] = W!Dot <=> i <= d
    PROVE  LET named == {i \in DOMAIN rest : rest[i] # W!Dot}
           IN  (IF named = {} THEN <<>> ELSE W!From(rest, W!Min(named))) = W!From(rest, d + 1)
<1> DEFINE named == {i \in DOMAIN rest : rest[i] # W!Dot}
<1>1. \A i : i \in named <=> i \in d + 1..Len(rest) OBVIOUS
<1> HIDE DEF named
<1>2. CASE named = {}
  <2>1. d = Len(rest)
    <3>1. d < Len(rest) => d + 1 \in named BY <1>1
    <3> QED BY <3>1, <1>2
  <2>2. W!From(rest, d + 1) \in Seq(Names) /\ Len(W!From(rest, d + 1)) = 0 BY <2>1, Rest, SMTT(30)
  <2>3. W!From(rest, d + 1) = <<>> BY <2>2, EmptySeq
  <2> QED BY <1>2, <2>3 DEF named
<1>3. CASE named # {}
  <2>1. d + 1 \in named BY <1>1, <1>3
  <2>2. \A y \in named : d + 1 <= y BY <1>1
  <2>3. \A x \in named : (\A y \in named : x <= y) => x = d + 1
    <3> TAKE x \in named
    <3> HAVE \A y \in named : x <= y
    <3>1. x <= d + 1 /\ d + 1 <= x /\ x \in Nat BY <2>1, <2>2, <1>1
    <3> QED BY <3>1
  <2>4. W!Min(named) = CHOOSE x \in named : \A y \in named : x <= y BY Zenon DEF W!Min
  <2>5. W!Min(named) = d + 1 BY <2>1, <2>2, <2>3, <2>4
  <2> QED BY <1>3, <2>5 DEF named
<1> QED BY <1>2, <1>3

\* rel_of gives the part below the working directory, or the path from "/".
LEMMA RelIs ==
    ASSUME NEW cwd \in Seq(Names), NEW path \in Seq(Names), NEW file \in Seq(Names), Plain(file),
           NEW a, NEW b, Spells(path, file, a, b), a = b \/ (a = Len(cwd) /\ Under(cwd, file))
    PROVE  W!RelOf(cwd, path)
               = IF Under(cwd, file) THEN W!From(file, Len(cwd) + 1) ELSE <<W!Root>> \o file
<1> DEFINE c == Len(cwd)
           rest == W!From(path, c + 1)
           named == {i \in DOMAIN rest : rest[i] # W!Dot}
           first == IF named = {} THEN <<>> ELSE W!From(rest, W!Min(named))
<1>1. W!RelOf(cwd, path) = IF ~W!IsPrefix(cwd, path) THEN <<W!Root>> \o path ELSE first
  BY Zenon DEF W!RelOf
<1>2. W!IsPrefix(cwd, path) <=> Under(cwd, path) BY PrefixIs
<1>3. a \in Nat /\ b \in Nat /\ a <= b /\ Len(file) \in Nat /\ Len(path) = Len(file) + (b - a) /\ a <= Len(file) /\ c \in Nat
  BY DEF Spells
<1>4. ASSUME NEW r, r = rest, NEW d \in 0..Len(r), r \in Seq(Names), \A i \in 1..Len(r) : r[i] = W!Dot <=> i <= d
      PROVE  first = W!From(r, d + 1)
  BY <1>4, FirstName
<1>5. CASE a = b
  <2>1. Len(path) = Len(file) /\ \A i \in 1..Len(file) : path[i] = file[i]
    <3>1. Len(path) = Len(file) /\ b - a = 0 BY <1>3, <1>5
    <3>2. \A i \in a + 1..Len(file) : path[i] = file[i] BY <1>3, <3>1 DEF Spells
    <3>3. \A i \in 1..Len(file) : i \in 1..a \/ i \in a + 1..Len(file) BY <1>3
    <3> QED BY <3>1, <3>2, <3>3 DEF Spells
  <2>2. path = file BY <2>1, SameSeq
  <2>3. CASE Under(cwd, file)
    <3>1. c \in 0..Len(file) BY <2>3 DEF Under
    <3> DEFINE r == W!From(file, c + 1)
    <3>2. r \in Seq(Names) /\ Len(r) = Len(file) - c /\ \A i \in 1..Len(file) - c : r[i] = file[c + i] BY <3>1, Rest
    <3>3. r = rest BY <2>2
    <3> HIDE DEF r, rest, first
    <3>4. \A i \in 1..Len(r) : r[i] = W!Dot <=> i <= 0
      <4> TAKE i \in 1..Len(r)
      <4>1. i \in 1..Len(file) - c /\ c + i \in 1..Len(file) /\ ~(i <= 0) BY <3>1, <3>2
      <4>2. r[i] = file[c + i] /\ file[c + i] # W!Dot BY <3>2, <4>1 DEF Plain
      <4> QED BY <4>1, <4>2
    <3>5. 0 \in 0..Len(r) /\ 0 + 1 = 1 BY <3>1, <3>2
    <3>6. first = W!From(r, 1) BY <1>4, <3>2, <3>3, <3>4, <3>5
    <3>7. first = r BY <3>2, <3>6, FromSelf
    <3> QED BY <1>1, <1>2, <2>2, <2>3, <3>7 DEF r
  <2>4. CASE ~Under(cwd, file) BY <1>1, <1>2, <2>2, <2>4
  <2> QED BY <2>3, <2>4
<1>6. CASE a = c /\ Under(cwd, file)
  <2> DEFINE d == b - a
             r == W!From(path, c + 1)
  <2>1. Under(cwd, path) BY <1>3, <1>6 DEF Under, Spells
  <2>2. c \in 0..Len(path) BY <2>1 DEF Under
  <2>3. r \in Seq(Names) /\ Len(r) = Len(path) - c /\ \A i \in 1..Len(path) - c : r[i] = path[c + i] BY <2>2, Rest
  <2>4. r = rest OBVIOUS
  <2> HIDE DEF r, rest, first
  <2>13. Len(r) = Len(path) - c BY <2>3
  <2>14. d \in Nat /\ Len(path) = Len(file) + d /\ c \in Nat /\ c <= Len(file) /\ Len(file) \in Nat BY <1>3, <1>6
  <2>5. d \in 0..Len(r) /\ Len(r) - d = Len(file) - c
    <3> HIDE DEF d
    <3> QED BY <2>13, <2>14
  <2>6. ASSUME NEW i \in 1..Len(r) PROVE r[i] = W!Dot <=> i <= d
    <3>5. i \in 1..Len(path) - c BY <2>3
    <3>1. i \in 1..Len(path) - c /\ r[i] = path[c + i] BY <2>3, <3>5
    <3>2. CASE i <= d
      <4>1. c + i \in a + 1..b BY <1>3, <1>6, <3>2
      <4>2. path[c + i] = W!Dot BY <4>1 DEF Spells
      <4> QED BY <3>1, <3>2, <4>2
    <3>3. CASE i > d
      <4>1. c + i - d \in a + 1..Len(file) /\ (c + i - d) + (b - a) = c + i /\ c + i - d \in 1..Len(file)
        BY <1>3, <1>6, <2>5, <3>1, <3>3
      <4>2. path[c + i] = file[c + i - d] BY <4>1 DEF Spells
      <4>3. file[c + i - d] # W!Dot BY <4>1 DEF Plain
      <4>4. i \in Nat /\ d \in Nat BY <1>3
      <4> QED BY <3>1, <3>3, <4>2, <4>3, <4>4
    <3>4. d \in Nat BY <1>3
    <3> QED BY <3>2, <3>3, <3>4
  <2>7. first = W!From(r, d + 1) BY <1>4, <2>3, <2>4, <2>5, <2>6
  <2>8. W!From(r, d + 1) \in Seq(Names) /\ Len(W!From(r, d + 1)) = Len(r) - d
        /\ \A i \in 1..Len(r) - d : W!From(r, d + 1)[i] = r[d + i]
    <3> HIDE DEF d
    <3> QED BY <2>3, <2>5, Rest
  <2>9. c \in 0..Len(file) BY <1>6 DEF Under
  <2>10. W!From(file, c + 1) \in Seq(Names) /\ Len(W!From(file, c + 1)) = Len(file) - c
         /\ \A i \in 1..Len(file) - c : W!From(file, c + 1)[i] = file[c + i]
    BY <2>9, Rest
  <2>11. ASSUME NEW i \in 1..Len(file) - c PROVE r[d + i] = file[c + i]
    <3>1. d + i \in 1..Len(path) - c /\ c + (d + i) = (c + i) + (b - a) /\ c + i \in a + 1..Len(file)
      BY <1>3, <1>6, <2>3, <2>5
    <3>2. r[d + i] = path[(c + i) + (b - a)] BY <2>3, <3>1
    <3>3. path[(c + i) + (b - a)] = file[c + i] BY <3>1 DEF Spells
    <3> QED BY <3>2, <3>3
  <2>12. W!From(r, d + 1) = W!From(file, c + 1)
    <3> DEFINE left == W!From(r, d + 1)
               right == W!From(file, c + 1)
    <3>1. Len(left) = Len(right) /\ left \in Seq(Names) /\ right \in Seq(Names) BY <2>5, <2>8, <2>10
    <3>2. \A i \in 1..Len(left) : left[i] = right[i]
      <4> TAKE i \in 1..Len(left)
      <4>1. i \in 1..Len(r) - d /\ i \in 1..Len(file) - c BY <2>5, <2>8
      <4> HIDE DEF d
      <4> QED BY <4>1, <2>8, <2>10, <2>11
    <3> HIDE DEF left, right
    <3>3. left = right BY <3>1, <3>2, SameSeq
    <3> QED BY <3>3 DEF left, right
  <2> QED BY <1>1, <1>2, <1>6, <2>1, <2>7, <2>12
<1> QED BY <1>5, <1>6

\* The name of a document depends on the place of its file alone.
LEMMA KeyIs ==
    ASSUME NEW engine, engine.cwd \in Seq(Names), NEW path \in Seq(Names), NEW file \in Seq(Names), Plain(file),
           NEW a, NEW b, Spells(path, file, a, b), a = b \/ (a = Len(engine.cwd) /\ Under(engine.cwd, file))
    PROVE  W!Key(engine, path) = KeyOf(engine, file)
<1>1. W!Cleaned(path) = file BY CleanedIs
<1>2. W!RelOf(engine.cwd, path)
          = IF Under(engine.cwd, file) THEN W!From(file, Len(engine.cwd) + 1) ELSE <<W!Root>> \o file
  <2> DEFINE cwd == engine.cwd
  <2>1. cwd \in Seq(Names) /\ (a = b \/ (a = Len(cwd) /\ Under(cwd, file))) OBVIOUS
  <2> HIDE DEF cwd
  <2>2. W!RelOf(cwd, path) = IF Under(cwd, file) THEN W!From(file, Len(cwd) + 1) ELSE <<W!Root>> \o file
    BY <2>1, RelIs
  <2> QED BY <2>2 DEF cwd
<1> QED BY <1>1, <1>2 DEF W!Key, KeyOf

\* What lies below a directory is spelled below it.
LEMMA SpellsBelow ==
    ASSUME NEW path \in Seq(Names), NEW dir \in Seq(Names), NEW a, NEW b, Spells(path, dir, a, b),
           NEW file \in Seq(Names), Under(dir, file)
    PROVE  /\ path \o W!From(file, Len(dir) + 1) \in Seq(Names)
           /\ Spells(path \o W!From(file, Len(dir) + 1), file, a, b)
           /\ dir \o W!From(file, Len(dir) + 1) = file
<1> DEFINE l == Len(dir)
           rest == W!From(file, l + 1)
           whole == path \o rest
<1>1. l \in 0..Len(file) BY DEF Under
<1>2. rest \in Seq(Names) /\ Len(rest) = Len(file) - l /\ \A i \in 1..Len(file) - l : rest[i] = file[l + i] BY <1>1, Rest
<1>3. a \in Nat /\ b \in Nat /\ a <= b /\ l \in Nat /\ Len(path) = l + (b - a) /\ a <= l /\ Len(file) \in Nat /\ l <= Len(file)
  BY <1>1 DEF Spells
<1> HIDE DEF rest
<1>4. /\ whole \in Seq(Names) /\ Len(whole) = Len(path) + Len(rest)
      /\ \A i \in 1..Len(path) : whole[i] = path[i]
      /\ \A i \in 1..Len(rest) : whole[Len(path) + i] = rest[i]
  BY <1>2, Concat
<1> HIDE DEF whole
<1>5. Len(whole) = Len(file) + (b - a) BY <1>2, <1>3, <1>4
<1>6. \A i \in 1..a : whole[i] = file[i]
  <2> TAKE i \in 1..a
  <2>1. i \in 1..Len(path) /\ i \in 1..l BY <1>3
  <2> QED BY <1>4, <2>1 DEF Spells, Under
<1>7. \A i \in a + 1..b : whole[i] = W!Dot
  <2> TAKE i \in a + 1..b
  <2>1. i \in 1..Len(path) BY <1>3
  <2> QED BY <1>4, <2>1 DEF Spells
<1>8. ASSUME NEW i \in a + 1..Len(file) PROVE whole[i + (b - a)] = file[i]
  <2>1. CASE i <= l
    <3>1. i + (b - a) \in 1..Len(path) /\ i \in a + 1..l /\ i \in 1..l BY <1>3, <2>1
    <3> QED BY <1>4, <3>1 DEF Spells, Under
  <2>2. CASE i > l
    <3>1. i - l \in 1..Len(rest) /\ i - l \in 1..Len(file) - l /\ l + (i - l) = i /\ Len(path) + (i - l) = i + (b - a)
      BY <1>2, <1>3, <2>2
    <3>2. whole[Len(path) + (i - l)] = rest[i - l] BY <1>4, <3>1
    <3>3. rest[i - l] = file[i] BY <1>2, <3>1
    <3> QED BY <3>1, <3>2, <3>3
  <2>3. i \in Int /\ l \in Int BY <1>3
  <2> QED BY <2>1, <2>2, <2>3
<1>9. Spells(whole, file, a, b)
  <2>1. a \in 0..Len(file) BY <1>3
  <2> QED BY <1>3, <1>5, <1>6, <1>7, <1>8, <2>1 DEF Spells
<1>10. dir \o rest = file
  <2> DEFINE u == dir \o rest
  <2>1. u \in Seq(Names) /\ Len(u) = l + Len(rest) /\ (\A i \in 1..l : u[i] = dir[i])
        /\ \A i \in 1..Len(rest) : u[l + i] = rest[i]
    BY <1>2, Concat
  <2> HIDE DEF u
  <2>2. Len(u) = Len(file) BY <1>2, <1>3, <2>1
  <2>3. ASSUME NEW i \in 1..Len(file) PROVE u[i] = file[i]
    <3>1. CASE i <= l
      <4>1. i \in 1..l BY <3>1
      <4> QED BY <2>1, <4>1 DEF Under
    <3>2. CASE i > l
      <4>1. i - l \in 1..Len(rest) /\ i - l \in 1..Len(file) - l /\ l + (i - l) = i BY <1>2, <1>3, <3>2
      <4> QED BY <1>2, <2>1, <4>1
    <3>3. i \in Int /\ l \in Int BY <1>3
    <3> QED BY <3>1, <3>2, <3>3
  <2>4. u = file BY <2>1, <2>2, <2>3, SameSeq
  <2> QED BY <2>4 DEF u
<1> QED BY <1>4, <1>9, <1>10 DEF whole, rest

\* What is known of a call.
Orders(tree) == \A files \in SUBSET tree : Strict(files, FileOrder(files))
SpelledAt(path) ==
    \A i \in 1..Len(path) : /\ path[i] = W!Root => i = 1
                            /\ path[i] = W!Dot => \A n \in 1..i : path[n] = W!Dot
CallOk(asked) ==
    /\ asked.cwd \in Seq(Names) /\ Plain(asked.cwd)
    /\ asked.tree \in SUBSET Seq(Names) /\ IsFiniteSet(asked.tree)
    /\ \A file \in asked.tree : Plain(file) /\ file # <<>> /\ ~W!IsDir(asked.tree, file)
    /\ Orders(asked.tree)
    /\ asked.paths \in Seq(Seq(Names))
    /\ \A i \in 1..Len(asked.paths) : SpelledAt(asked.paths[i])

\* The paths of a call are sequences of the names of all the scenes.
LEMMA NamesOf ==
    ASSUME NEW scene \in Scenes, NEW asked \in CallsOf(scene), NEW path \in PathsOf(asked), path \in Seq(ToSet(path))
    PROVE  path \in Seq(Names)
<1> DEFINE ofCall(c) == UNION {ToSet(p) : p \in PathsOf(c)}
           ofScene(s) == UNION {ofCall(c) : c \in CallsOf(s)}
<1>2. ToSet(path) \subseteq ofCall(asked) OBVIOUS
<1>3. Names = {W!Dot, W!Root} \cup UNION {ofScene(s) : s \in Scenes} BY DEF Names
<1> HIDE DEF ofCall
<1>4. ofCall(asked) \subseteq ofScene(scene) OBVIOUS
<1> HIDE DEF ofScene
<1>5. ofScene(scene) \subseteq Names BY <1>3
<1>1. ToSet(path) \subseteq Names BY <1>2, <1>4, <1>5
<1> QED BY <1>1, SeqMonotonic

LEMMA PlainIs ==
    ASSUME NEW path, Resolved(path)
    PROVE  Plain(path)
<1>1. DOMAIN path = 1..Len(path) BY DEF Resolved
<1>2. \A i \in 1..Len(path) : path[i] \in ToSet(path) BY <1>1 DEF ToSet
<1> QED BY <1>2 DEF Resolved, Plain

\* The order of the files is strict when every character has a code of its own.
LEMMA TreeOrders ==
    ASSUME NEW asked, Proper(asked)
    PROVE  Orders(asked.tree)
<1> DEFINE names == UNION {ToSet(file) : file \in asked.tree}
           letters == LettersOf(asked.tree)
<1>1. \A name \in names : name \in Seq(ToSet(name)) BY DEF Proper
<1>2. \A name \in names : ToSet(name) \subseteq letters BY DEF LettersOf
<1>3. names \in SUBSET Seq(letters)
  <2> SUFFICES ASSUME NEW name \in names PROVE name \in Seq(letters) OBVIOUS
  <2>1. name \in Seq(ToSet(name)) /\ ToSet(name) \subseteq letters BY <1>1, <1>2
  <2> HIDE DEF letters, names
  <2> QED BY <2>1, SeqMonotonic
<1>4. Ordered(letters) BY DEF Proper, Ordered
<1>5. \A file \in asked.tree : ToSet(file) \subseteq names OBVIOUS
<1>6. \A file \in asked.tree : file \in Seq(ToSet(file)) BY DEF Proper, Resolved
<1> HIDE DEF letters, names
<1>7. Strict(names, NameOrder(names)) BY <1>3, <1>4, NameStrict
<1>8. asked.tree \in SUBSET Seq(names)
  <2> SUFFICES ASSUME NEW file \in asked.tree PROVE file \in Seq(names) OBVIOUS
  <2>1. file \in Seq(ToSet(file)) /\ ToSet(file) \subseteq names BY <1>5, <1>6
  <2> QED BY <2>1, SeqMonotonic
<1>9. ASSUME NEW files \in SUBSET asked.tree PROVE Strict(files, FileOrder(files))
  <2>1. files \in SUBSET Seq(names) BY <1>8
  <2> QED BY <1>7, <2>1, PathStrict
<1> QED BY <1>9 DEF Orders

\* What a proper call gives to the proofs.
LEMMA CallIsOk ==
    ASSUME NEW scene \in Scenes, NEW asked \in CallsOf(scene), Proper(asked)
    PROVE  CallOk(asked)
<1>1. asked.cwd \in Seq(Names) /\ Plain(asked.cwd)
  <2>1. Resolved(asked.cwd) BY DEF Proper
  <2>2. asked.cwd \in PathsOf(asked) BY DEF PathsOf
  <2>3. asked.cwd \in Seq(ToSet(asked.cwd)) BY <2>1 DEF Resolved
  <2> QED BY <2>1, <2>2, <2>3, NamesOf, PlainIs
<1>2. ASSUME NEW file \in asked.tree
      PROVE  file \in Seq(Names) /\ Plain(file) /\ file # <<>> /\ ~W!IsDir(asked.tree, file)
  <2>1. Resolved(file) /\ file # <<>> /\ ~W!IsDir(asked.tree, file) BY DEF Proper
  <2>2. file \in PathsOf(asked) BY DEF PathsOf
  <2>3. file \in Seq(ToSet(file)) BY <2>1 DEF Resolved
  <2>4. file \in Seq(Names) BY <2>2, <2>3, NamesOf
  <2> QED BY <2>1, <2>4, PlainIs
<1>3. IsFiniteSet(asked.tree)
  <2>1. IsFiniteSet(asked.tree) BY DEF Proper
  <2> QED BY <2>1
<1>4. ASSUME NEW path \in ToSet(asked.paths) PROVE path \in Seq(Names) /\ SpelledAt(path)
  <2>1. Spelled(path) BY DEF Proper
  <2>2. path \in Seq(ToSet(path)) BY <2>1 DEF Spelled
  <2>3. path \in PathsOf(asked) BY DEF PathsOf
  <2>4. path \in Seq(Names) BY <2>2, <2>3, NamesOf
  <2>5. DOMAIN path = 1..Len(path) BY <2>4
  <2> QED BY <2>1, <2>4, <2>5 DEF Spelled, SpelledAt
<1>5. asked.paths \in Seq(ToSet(asked.paths)) BY DEF Proper
<1>6. asked.paths \in Seq(Seq(Names))
  <2>1. ToSet(asked.paths) \subseteq Seq(Names) BY <1>4
  <2> QED BY <2>1, <1>5, SeqMonotonic
<1>7. \A i \in 1..Len(asked.paths) : SpelledAt(asked.paths[i])
  <2> TAKE i \in 1..Len(asked.paths)
  <2>1. DOMAIN asked.paths = 1..Len(asked.paths) BY <1>6
  <2>2. asked.paths[i] \in ToSet(asked.paths) BY <2>1 DEF ToSet
  <2> QED BY <2>2, <1>4
<1> QED BY <1>1, <1>2, <1>3, <1>6, <1>7, TreeOrders DEF CallOk

\* A spelled path and the place it stands for.
Stands(cwd, path, place, a, b) ==
    /\ path \in Seq(Names) /\ place \in Seq(Names) /\ Plain(place) /\ Spells(path, place, a, b)
    /\ a = b \/ (a = Len(cwd) /\ Under(cwd, place))

\* A path without dots stands for itself.
LEMMA SpellsItself ==
    ASSUME NEW path \in Seq(Names), Plain(path)
    PROVE  /\ Spells(path, path, 0, 0) /\ W!Cleaned(path) = path
           /\ \A cwd : Stands(cwd, path, path, 0, 0)
<1>1. Spells(path, path, 0, 0)
  <2>1. \A i \in 0 + 1..Len(path) : path[i + (0 - 0)] = path[i] OBVIOUS
  <2> QED BY <2>1 DEF Spells
<1>2. W!Cleaned(path) = path BY <1>1, CleanedIs
<1> QED BY <1>1, <1>2 DEF Stands

\* A path that does not begin with "/" is read below the working directory.
LEMMA JoinsBelow ==
    ASSUME NEW cwd \in Seq(Names), Plain(cwd), NEW path \in Seq(Names), SpelledAt(path),
           path = <<>> \/ Head(path) # W!Root
    PROVE  /\ W!Joins(cwd, path) = cwd \o path
           /\ \E place, a, b : Stands(cwd, cwd \o path, place, a, b)
<1>1. W!Joins(cwd, path) = cwd \o path BY DEF W!Joins
<1> DEFINE far == {k \in 0..Len(path) : k = Len(path) \/ path[k + 1] # W!Dot}
<1>2. far \in SUBSET Nat /\ Len(path) \in far OBVIOUS
<1>3. PICK d \in far : \A k \in far : d <= k BY <1>2, Least
<1>4. d \in 0..Len(path) /\ (d = Len(path) \/ path[d + 1] # W!Dot) BY <1>3
<1>5. \A i \in 1..d : path[i] = W!Dot
  <2> TAKE i \in 1..d
  <2>1. i - 1 \notin far
    <3>1. i - 1 \in far => d <= i - 1 BY <1>3
    <3>2. ~(d <= i - 1) BY <1>4
    <3> HIDE DEF far
    <3> QED BY <3>1, <3>2
  <2>2. i - 1 \in 0..Len(path) /\ (i - 1) + 1 = i BY <1>4
  <2> QED BY <2>1, <2>2
<1>6. \A i \in d + 1..Len(path) : path[i] # W!Dot /\ path[i] # W!Root
  <2> TAKE i \in d + 1..Len(path)
  <2>1. i \in 1..Len(path) /\ d + 1 \in 1..i /\ d # Len(path) BY <1>4
  <2>2. path[i] # W!Dot BY <1>4, <2>1 DEF SpelledAt
  <2>3. path[i] = W!Root => i = 1 BY <2>1 DEF SpelledAt
  <2>4. path # <<>> /\ path[1] = Head(path) BY <2>1
  <2> QED BY <2>2, <2>3, <2>4
<1> HIDE DEF far
<1> DEFINE rest == W!From(path, d + 1)
           place == cwd \o rest
           whole == cwd \o path
           c == Len(cwd)
<1>7. rest \in Seq(Names) /\ Len(rest) = Len(path) - d /\ \A i \in 1..Len(path) - d : rest[i] = path[d + i] BY <1>4, Rest
<1> HIDE DEF rest
<1>8. /\ place \in Seq(Names) /\ Len(place) = c + Len(rest)
      /\ \A i \in 1..c : place[i] = cwd[i]
      /\ \A i \in 1..Len(rest) : place[c + i] = rest[i]
  BY <1>7, Concat
<1>9. /\ whole \in Seq(Names) /\ Len(whole) = c + Len(path)
      /\ \A i \in 1..c : whole[i] = cwd[i]
      /\ \A i \in 1..Len(path) : whole[c + i] = path[i]
  BY Concat
<1>10. c \in Nat /\ d \in Nat /\ Len(path) \in Nat /\ d <= Len(path) /\ Len(rest) = Len(path) - d BY <1>4, <1>7
<1> HIDE DEF place, whole, c
<1>11. ASSUME NEW i \in c + 1..Len(place)
       PROVE  /\ i - c \in 1..Len(rest) /\ d + (i - c) \in d + 1..Len(path) /\ d + (i - c) \in 1..Len(path)
              /\ place[i] = path[d + (i - c)] /\ whole[i + d] = path[d + (i - c)]
  <2>1. i - c \in 1..Len(rest) /\ c + (i - c) = i /\ i - c \in 1..Len(path) - d BY <1>8, <1>10
  <2>2. d + (i - c) \in 1..Len(path) /\ d + (i - c) \in d + 1..Len(path) /\ c + (d + (i - c)) = i + d BY <1>10, <2>1
  <2>3. place[i] = rest[i - c] BY <1>8, <2>1
  <2>4. rest[i - c] = path[d + (i - c)] BY <1>7, <2>1
  <2>5. whole[i + d] = path[d + (i - c)] BY <1>9, <2>2
  <2> QED BY <2>1, <2>2, <2>3, <2>4, <2>5
<1>12. Plain(place)
  <2>1. ASSUME NEW i \in 1..Len(place) PROVE place[i] # W!Dot /\ place[i] # W!Root
    <3>1. CASE i <= c
      <4>1. i \in 1..c BY <3>1, <1>10
      <4>2. cwd[i] # W!Dot /\ cwd[i] # W!Root BY <4>1 DEF Plain, c
      <4> QED BY <4>1, <4>2, <1>8
    <3>2. CASE i > c
      <4>1. i \in c + 1..Len(place) BY <3>2, <1>10
      <4> QED BY <4>1, <1>6, <1>11
    <3>3. i \in Int /\ c \in Int BY <1>10
    <3> QED BY <3>1, <3>2, <3>3
  <2> QED BY <2>1 DEF Plain
<1>13. Spells(whole, place, c, c + d)
  <2>1. c \in 0..Len(place) /\ c + d \in Nat /\ c <= c + d /\ (c + d) - c = d /\ Len(whole) = Len(place) + d
    <3>1. Len(place) = c + Len(rest) /\ Len(whole) = c + Len(path) BY <1>8, <1>9
    <3>2. Len(rest) \in Nat BY <1>10
    <3> QED BY <3>1, <3>2, <1>10
  <2>2. \A i \in 1..c : whole[i] = place[i] BY <1>8, <1>9
  <2>3. \A i \in c + 1..c + d : whole[i] = W!Dot
    <3> TAKE i \in c + 1..c + d
    <3>1. i - c \in 1..d /\ i - c \in 1..Len(path) /\ c + (i - c) = i BY <1>10
    <3> QED BY <1>5, <1>9, <3>1
  <2>4. \A i \in c + 1..Len(place) : whole[i + ((c + d) - c)] = place[i] BY <1>11, <2>1
  <2> QED BY <2>1, <2>2, <2>3, <2>4 DEF Spells
<1>14. Under(cwd, place) BY <1>8, <1>10 DEF Under, c
<1>15. Stands(cwd, whole, place, c, c + d) BY <1>8, <1>9, <1>12, <1>13, <1>14 DEF Stands, c
<1> QED BY <1>1, <1>15 DEF whole

\* A path that begins with "/" is read from there.
LEMMA JoinsFrom ==
    ASSUME NEW cwd, NEW path \in Seq(Names), SpelledAt(path), path # <<>>, Head(path) = W!Root
    PROVE  /\ W!Joins(cwd, path) = Tail(path) /\ Tail(path) \in Seq(Names) /\ Plain(Tail(path))
           /\ W!Cleaned(Tail(path)) = Tail(path) /\ Stands(cwd, Tail(path), Tail(path), 0, 0)
           /\ Len(path) = Len(Tail(path)) + 1 /\ \A i \in 1..Len(Tail(path)) : Tail(path)[i] = path[i + 1]
<1> DEFINE rest == Tail(path)
<1>1. W!Joins(cwd, path) = rest BY DEF W!Joins
<1>2. rest \in Seq(Names) /\ Len(path) = Len(rest) + 1 /\ (\A i \in 1..Len(rest) : rest[i] = path[i + 1])
      /\ path[1] = W!Root
  OBVIOUS
<1> HIDE DEF rest
<1>3. W!Root # W!Dot BY DEF W!Root, W!Dot
<1>4. Plain(rest)
  <2>1. ASSUME NEW i \in 1..Len(rest) PROVE rest[i] # W!Dot /\ rest[i] # W!Root
    <3>1. i + 1 \in 1..Len(path) /\ 1 \in 1..i + 1 /\ i + 1 # 1 BY <1>2
    <3>2. path[i + 1] # W!Root BY <3>1 DEF SpelledAt
    <3>3. path[i + 1] # W!Dot BY <1>2, <1>3, <3>1 DEF SpelledAt
    <3> QED BY <1>2, <3>2, <3>3
  <2> QED BY <2>1 DEF Plain
<1>5. W!Cleaned(rest) = rest /\ Stands(cwd, rest, rest, 0, 0) BY <1>2, <1>4, SpellsItself
<1> QED BY <1>1, <1>2, <1>4, <1>5 DEF rest

\* The elements of a sequence.
LEMMA ElementsJoined ==
    ASSUME NEW R, NEW s \in Seq(R), NEW t \in Seq(R)
    PROVE  s \o t \in Seq(R) /\ W!ToSet(s \o t) = W!ToSet(s) \cup W!ToSet(t)
<1> DEFINE u == s \o t
<1>1. u \in Seq(R) /\ Len(u) = Len(s) + Len(t) BY ConcatProperties
<1>2. \A i \in 1..Len(s) + Len(t) : u[i] = IF i <= Len(s) THEN s[i] ELSE t[i - Len(s)] BY ConcatProperties
<1>3. DOMAIN u = 1..Len(s) + Len(t) /\ DOMAIN s = 1..Len(s) /\ DOMAIN t = 1..Len(t) BY <1>1
<1> HIDE DEF u
<1>4. \A i \in 1..Len(s) : i \in 1..Len(s) + Len(t) /\ u[i] = s[i] BY <1>2
<1>5. ASSUME NEW i \in 1..Len(t) PROVE Len(s) + i \in 1..Len(s) + Len(t) /\ u[Len(s) + i] = t[i]
  <2>1. Len(s) + i \in 1..Len(s) + Len(t) /\ ~(Len(s) + i <= Len(s)) /\ (Len(s) + i) - Len(s) = i OBVIOUS
  <2> QED BY <1>2, <2>1
<1>6. \A i \in 1..Len(s) + Len(t) : i \in 1..Len(s) \/ i - Len(s) \in 1..Len(t) OBVIOUS
<1>7. W!ToSet(u) \subseteq W!ToSet(s) \cup W!ToSet(t)
  <2> SUFFICES ASSUME NEW i \in 1..Len(s) + Len(t) PROVE u[i] \in W!ToSet(s) \cup W!ToSet(t) BY <1>3 DEF W!ToSet
  <2>1. CASE i <= Len(s)
    <3>1. i \in DOMAIN s /\ u[i] = s[i] BY <2>1, <1>2, <1>3
    <3> QED BY <3>1 DEF W!ToSet
  <2>2. CASE ~(i <= Len(s))
    <3>1. i - Len(s) \in DOMAIN t /\ u[i] = t[i - Len(s)] BY <2>2, <1>2, <1>3
    <3> QED BY <3>1 DEF W!ToSet
  <2> QED BY <2>1, <2>2
<1>8. W!ToSet(s) \subseteq W!ToSet(u)
  <2> SUFFICES ASSUME NEW i \in 1..Len(s) PROVE s[i] \in W!ToSet(u) BY <1>3 DEF W!ToSet
  <2>1. i \in DOMAIN u /\ u[i] = s[i] BY <1>3, <1>4
  <2> QED BY <2>1 DEF W!ToSet
<1>9. W!ToSet(t) \subseteq W!ToSet(u)
  <2> SUFFICES ASSUME NEW i \in 1..Len(t) PROVE t[i] \in W!ToSet(u) BY <1>3 DEF W!ToSet
  <2>1. Len(s) + i \in DOMAIN u /\ u[Len(s) + i] = t[i] BY <1>3, <1>5
  <2> QED BY <2>1 DEF W!ToSet
<1> QED BY <1>1, <1>7, <1>8, <1>9 DEF u

LEMMA AnyFold ==
    ASSUME NEW A, NEW base \in A, NEW n \in Nat, NEW step \in [A \X (1..n) -> A]
    PROVE  \E out : ComesTo(out, n, A, base, step)
<1>1. PICK f \in [SUBSET (1..n) -> A] : Folds(f, n, base, step) BY FoldExists
<1>2. Steps(f, n, A, base, step) BY <1>1 DEF Folds, Steps
<1> QED BY <1>2, FoldSteps

\* The rows of the paths together.
LEMMA FlattenIs ==
    ASSUME NEW R, NEW seqs \in Seq(Seq(R)), Len(seqs) # 0
    PROVE  /\ W!FlattenSeq(seqs) \in Seq(R)
           /\ W!ToSet(W!FlattenSeq(seqs)) = UNION {W!ToSet(seqs[k]) : k \in 1..Len(seqs)}
<1> DEFINE n == Len(seqs)
           A == Seq(R)
           empty == <<>>
           step == [p \in A \X (1..n) |-> p[1] \o seqs[p[2]]]
           next(f, i) == IF i = 1 THEN seqs[i] ELSE f[i - 1] \o seqs[i]
           flatten == CHOOSE f : f = [i \in 1..n |-> next(f, i)]
<1>1. W!FlattenSeq(seqs) = flatten[n] BY Zenon DEF W!FlattenSeq
<1>2. n \in Nat /\ n # 0 /\ empty \in A OBVIOUS
<1>3. \A k \in 1..n : seqs[k] \in A OBVIOUS
<1>4. \A s \in A, t \in A : s \o t \in A /\ W!ToSet(s \o t) = W!ToSet(s) \cup W!ToSet(t) BY ElementsJoined
<1>5. \A s \in A : empty \o s = s BY ConcatEmptySeq
<1>6. W!ToSet(empty) = {} BY DEF W!ToSet
<1> HIDE DEF n, A, empty
<1>7. step \in [A \X (1..n) -> A] BY <1>3, <1>4
<1>8. \A s \in A, k \in 1..n : step[<<s, k>>] = s \o seqs[k] OBVIOUS
<1> HIDE DEF step
<1>9. PICK out : ComesTo(out, n, A, empty, step) BY <1>2, <1>7, AnyFold
<1>10. PICK acc \in [0..n -> A] : /\ acc[0] = empty /\ acc[n] = out
                                  /\ \A k \in 1..n : acc[k] = step[<<acc[k - 1], k>>]
  BY <1>9 DEF ComesTo
<1>11. ASSUME NEW k \in 1..n PROVE k - 1 \in 0..n /\ acc[k - 1] \in A /\ acc[k] = acc[k - 1] \o seqs[k]
  <2>1. k - 1 \in 0..n BY <1>2
  <2> QED BY <1>8, <1>10, <2>1
<1>12. ASSUME NEW k \in 1..n PROVE acc[k] = next(acc, k)
  <2>1. CASE k = 1
    <3>1. acc[k - 1] = empty /\ seqs[k] \in A BY <1>3, <1>10, <2>1
    <3> QED BY <1>5, <1>11, <2>1, <3>1
  <2>2. CASE k # 1 BY <1>11, <2>2
  <2> QED BY <2>1, <2>2
<1>13. flatten = [i \in 1..n |-> next(flatten, i)]
  <2> DEFINE g == [i \in 1..n |-> acc[i]]
  <2>1. ASSUME NEW i \in 1..n PROVE g[i] = next(g, i)
    <3>1. CASE i = 1 BY <1>12, <3>1
    <3>2. CASE i # 1
      <4>1. i - 1 \in 1..n BY <1>2, <3>2
      <4> QED BY <1>11, <3>2, <4>1
    <3> QED BY <3>1, <3>2
  <2> HIDE DEF next
  <2>2. g = [i \in 1..n |-> next(g, i)] BY <2>1
  <2> QED BY <2>2
<1> HIDE DEF flatten
<1> DEFINE same == {k \in Nat : k = 0 \/ flatten[k] = acc[k]}
<1>14. 0 \in same OBVIOUS
<1>15. \A k \in 0..n - 1 : k \in same => k + 1 \in same
  <2> TAKE k \in 0..n - 1
  <2> HAVE k \in same
  <2>1. k + 1 \in 1..n /\ k \in Nat /\ k + 1 \in Nat /\ (k + 1) - 1 = k BY <1>2
  <2>2. flatten[k + 1] = next(flatten, k + 1) BY <1>13, <2>1
  <2>3. CASE k = 0
    <3>1. flatten[k + 1] = seqs[k + 1] /\ acc[k + 1] = seqs[k + 1] BY <1>12, <2>1, <2>2, <2>3
    <3> QED BY <2>1, <3>1
  <2>4. CASE k # 0
    <3>1. flatten[k] = acc[k] BY <2>4
    <3>2. acc[k + 1] = acc[k] \o seqs[k + 1] BY <1>11, <2>1
    <3>4. k + 1 # 1 BY <2>1, <2>4
    <3>3. flatten[k + 1] = flatten[k] \o seqs[k + 1] BY <2>1, <2>2, <3>4
    <3> QED BY <2>1, <3>1, <3>2, <3>3
  <2> QED BY <2>3, <2>4
<1> HIDE DEF same
<1>16. \A k \in 0..n : k \in same BY <1>2, <1>14, <1>15, Upto
<1>17. flatten[n] = acc[n] BY <1>2, <1>16 DEF same
<1> DEFINE good == {k \in Nat : W!ToSet(acc[k]) = UNION {W!ToSet(seqs[j]) : j \in 1..k}}
<1>18. 0 \in good
  <2>1. 1..0 = {} OBVIOUS
  <2> QED BY <1>6, <1>10, <2>1
<1>19. \A k \in 0..n - 1 : k \in good => k + 1 \in good
  <2> TAKE k \in 0..n - 1
  <2> HAVE k \in good
  <2>1. k + 1 \in 1..n /\ k \in Nat /\ k + 1 \in Nat /\ (k + 1) - 1 = k BY <1>2
  <2>2. W!ToSet(acc[k + 1]) = W!ToSet(acc[k]) \cup W!ToSet(seqs[k + 1]) BY <1>3, <1>4, <1>11, <2>1
  <2>3. 1..k + 1 = (1..k) \cup {k + 1} BY <2>1
  <2>4. UNION {W!ToSet(seqs[j]) : j \in 1..k + 1} = (UNION {W!ToSet(seqs[j]) : j \in 1..k}) \cup W!ToSet(seqs[k + 1])
    <3> DEFINE part(j) == W!ToSet(seqs[j])
    <3> HIDE DEF part
    <3>2. {part(j) : j \in 1..k + 1} = {part(j) : j \in 1..k} \cup {part(k + 1)} BY <2>3
    <3>3. \A X, y : UNION (X \cup {y}) = (UNION X) \cup y OBVIOUS
    <3>1. UNION {part(j) : j \in 1..k + 1} = (UNION {part(j) : j \in 1..k}) \cup part(k + 1) BY <3>2, <3>3, Zenon
    <3> QED BY <3>1 DEF part
  <2> QED BY <2>1, <2>2, <2>4
<1> HIDE DEF good
<1>20. \A k \in 0..n : k \in good BY <1>2, <1>18, <1>19, Upto
<1>21. n \in 0..n /\ n \in good BY <1>2, <1>20
<1>22. acc[n] \in A BY <1>10, <1>21
<1>23. W!ToSet(acc[n]) = UNION {W!ToSet(seqs[k]) : k \in 1..n} BY <1>21 DEF good
<1> QED BY <1>1, <1>17, <1>22, <1>23 DEF n, A

\* Once keeps the first row of every key.
LEMMA OnceIs ==
    ASSUME NEW R, NEW rows \in Seq(R)
    PROVE  /\ W!Once(rows) \in Seq(R) /\ W!ToSet(W!Once(rows)) \subseteq W!ToSet(rows)
           /\ \A row \in W!ToSet(rows) : \E kept \in W!ToSet(W!Once(rows)) : kept.key = row.key
<1> DEFINE n == Len(rows)
           A == Seq(R)
           empty == <<>>
           had(out, row) == \E k \in DOMAIN out : out[k].key = row.key
           step == [p \in A \X (1..n) |-> IF had(p[1], rows[p[2]]) THEN p[1] ELSE Append(p[1], rows[p[2]])]
           next(f, s) == IF s = {} THEN empty
                         ELSE IF had(f[s \ {W!Max(s)}], rows[W!Max(s)]) THEN f[s \ {W!Max(s)}]
                              ELSE Append(f[s \ {W!Max(s)}], rows[W!Max(s)])
           iter == CHOOSE f : f = [s \in SUBSET DOMAIN rows |-> next(f, s)]
<1>1. W!Once(rows) = iter[DOMAIN rows] BY Zenon DEF W!Once, W!FoldLeft, W!MapThenFoldSet
<1>2. DOMAIN rows = 1..n /\ n \in Nat /\ empty \in A OBVIOUS
<1>3. \A k \in 1..n : rows[k] \in R OBVIOUS
<1>18. \A out \in A, k \in 1..n :
          Append(out, rows[k]) \in A /\ W!ToSet(Append(out, rows[k])) = W!ToSet(out) \cup {rows[k]}
  <2> TAKE out \in A, k \in 1..n
  <2>1. Append(out, rows[k]) = out \o <<rows[k]>> /\ <<rows[k]>> \in A BY <1>3
  <2>2. W!ToSet(<<rows[k]>>) = {rows[k]} BY DEF W!ToSet
  <2> DEFINE one == <<rows[k]>>
  <2> HIDE DEF one
  <2>3. out \o one \in Seq(R) /\ W!ToSet(out \o one) = W!ToSet(out) \cup W!ToSet(one)
    BY <2>1, ElementsJoined, ZenonT(30) DEF one
  <2> QED BY <2>1, <2>2, <2>3 DEF one
<1>19. \A out, row : had(out, row) <=> \E kept \in W!ToSet(out) : kept.key = row.key BY DEF W!ToSet
<1>23. W!ToSet(empty) = {} BY DEF W!ToSet
<1> HIDE DEF n, A, empty, had
<1>4. step \in [A \X (1..n) -> A] BY <1>18
<1>5. \A out \in A, k \in 1..n : step[<<out, k>>] = IF had(out, rows[k]) THEN out ELSE Append(out, rows[k]) OBVIOUS
<1>6. \A s : W!Max(s) = Top(s) BY Zenon DEF W!Max, Top
<1> HIDE DEF step
<1>7. PICK f \in [SUBSET (1..n) -> A] : Folds(f, n, empty, step) BY <1>2, <1>4, FoldExists
<1>8. ASSUME NEW s \in SUBSET (1..n), NEW g, s # {} => g[s \ {Top(s)}] \in A
      PROVE  next(g, s) = IF s = {} THEN empty ELSE step[<<g[s \ {Top(s)}], Top(s)>>]
  <2>1. s # {} => Top(s) \in 1..n BY <1>2, TopIs
  <2> QED BY <1>5, <1>6, <1>8, <2>1
<1>9. \A s \in SUBSET (1..n) : f[s] = next(f, s)
  <2> TAKE s \in SUBSET (1..n)
  <2>1. s # {} => s \ {Top(s)} \in SUBSET (1..n) BY <1>2, TopIs
  <2>2. s # {} => f[s \ {Top(s)}] \in A BY <1>7, <2>1
  <2> HIDE DEF next
  <2> QED BY <1>7, <1>8, <2>2 DEF Folds
<1> HIDE DEF next
<1>10. f = [s \in SUBSET DOMAIN rows |-> next(f, s)] BY <1>2, <1>7, <1>9
<1>11. iter = [s \in SUBSET DOMAIN rows |-> next(iter, s)] BY <1>10
<1> HIDE DEF iter
<1>12. ASSUME NEW s \in SUBSET (1..n)
       PROVE  IF s = {} THEN iter[s] = empty
              ELSE iter[s \ {Top(s)}] \in A => iter[s] = step[<<iter[s \ {Top(s)}], Top(s)>>]
  <2>1. iter[s] = next(iter, s) BY <1>2, <1>11
  <2>2. CASE s = {} BY <1>8, <2>1, <2>2
  <2>3. CASE s # {} /\ iter[s \ {Top(s)}] \in A BY <1>8, <2>1, <2>3
  <2> QED BY <2>2, <2>3
<1>13. Steps(iter, n, A, empty, step) BY <1>12 DEF Steps
<1>17. ComesTo(iter[1..n], n, A, empty, step) BY <1>2, <1>4, <1>13, FoldSteps
<1>14. PICK acc \in [0..n -> A] : /\ acc[0] = empty /\ acc[n] = iter[1..n]
                                  /\ \A k \in 1..n : acc[k] = step[<<acc[k - 1], k>>]
  BY <1>17 DEF ComesTo
<1>15. \A k \in 1..n : acc[k - 1] \in A /\ acc[k] = IF had(acc[k - 1], rows[k]) THEN acc[k - 1] ELSE Append(acc[k - 1], rows[k])
  <2> TAKE k \in 1..n
  <2>1. acc[k - 1] \in A BY <1>2, <1>14
  <2> QED BY <1>5, <1>14, <2>1
<1>16. acc[n] = W!Once(rows) BY <1>1, <1>2, <1>14
<1> DEFINE good == {k \in Nat : /\ W!ToSet(acc[k]) \subseteq {rows[j] : j \in 1..k}
                                /\ \A j \in 1..k : \E kept \in W!ToSet(acc[k]) : kept.key = rows[j].key}
<1>20. 0 \in good
  <2>1. 1..0 = {} OBVIOUS
  <2> QED BY <1>14, <1>23, <2>1
<1>21. \A k \in 0..n - 1 : k \in good => k + 1 \in good
  <2> TAKE k \in 0..n - 1
  <2> HAVE k \in good
  <2>1. k + 1 \in 1..n /\ k \in Nat /\ k + 1 \in Nat /\ (k + 1) - 1 = k BY <1>2
  <2>2. acc[k] \in A /\ acc[k + 1] = IF had(acc[k], rows[k + 1]) THEN acc[k] ELSE Append(acc[k], rows[k + 1])
    BY <1>15, <2>1
  <2>3. W!ToSet(acc[k + 1]) \subseteq W!ToSet(acc[k]) \cup {rows[k + 1]}
        /\ W!ToSet(acc[k]) \subseteq W!ToSet(acc[k + 1])
    BY <1>18, <2>1, <2>2
  <2>4. \E kept \in W!ToSet(acc[k + 1]) : kept.key = rows[k + 1].key
    <3>1. CASE had(acc[k], rows[k + 1]) BY <1>19, <2>2, <3>1
    <3>2. CASE ~had(acc[k], rows[k + 1])
      <4>1. rows[k + 1] \in W!ToSet(acc[k + 1]) BY <1>18, <2>1, <2>2, <3>2
      <4> QED BY <4>1
    <3> QED BY <3>1, <3>2
  <2>5. 1..k + 1 = (1..k) \cup {k + 1} BY <2>1
  <2>6. {rows[j] : j \in 1..k + 1} = {rows[j] : j \in 1..k} \cup {rows[k + 1]} BY <2>5
  <2>7. W!ToSet(acc[k + 1]) \subseteq {rows[j] : j \in 1..k + 1} BY <2>3, <2>6
  <2>8. \A j \in 1..k + 1 : \E kept \in W!ToSet(acc[k + 1]) : kept.key = rows[j].key BY <2>3, <2>4, <2>5
  <2> QED BY <2>1, <2>7, <2>8
<1> HIDE DEF good
<1>22. \A k \in 0..n : k \in good BY <1>2, <1>20, <1>21, Upto
<1>24. n \in 0..n /\ n \in good BY <1>2, <1>22
<1>25. acc[n] \in A BY <1>14, <1>24
<1>26. W!ToSet(rows) = {rows[j] : j \in 1..n} BY <1>2 DEF W!ToSet
<1> QED BY <1>16, <1>24, <1>25, <1>26 DEF good, A

RowOf(engine, file) == [key |-> KeyOf(engine, file), file |-> file]
PlaceOf(asked, path) == W!Cleaned(W!Joins(asked.cwd, path))

\* What one path of a call stands for.
FilesOf(asked, engine, path) ==
    IF PlaceOf(asked, path) \in asked.tree THEN {PlaceOf(asked, path)}
    ELSE IF W!IsDir(asked.tree, PlaceOf(asked, path)) THEN Wanted(asked, engine, PlaceOf(asked, path))
    ELSE {}

LEMMA RootBefore ==
    ASSUME NEW file \in Seq(Names)
    PROVE  /\ <<W!Root>> \o file \in Seq(Names) /\ Len(<<W!Root>> \o file) = Len(file) + 1
           /\ (<<W!Root>> \o file)[1] = W!Root
           /\ \A i \in 1..Len(file) : (<<W!Root>> \o file)[i + 1] = file[i]
<1> DEFINE first == <<W!Root>>
           whole == first \o file
<1>1. W!Root \in Names BY DEF Names
<1>2. first \in Seq(Names) /\ Len(first) = 1 /\ first[1] = W!Root BY <1>1
<1> HIDE DEF first
<1>3. /\ whole \in Seq(Names) /\ Len(whole) = Len(first) + Len(file)
      /\ \A i \in 1..Len(first) : whole[i] = first[i]
      /\ \A i \in 1..Len(file) : whole[Len(first) + i] = file[i]
  BY <1>2, Concat
<1> HIDE DEF whole
<1>4. Len(whole) = Len(file) + 1 /\ whole[1] = W!Root BY <1>2, <1>3
<1>5. \A i \in 1..Len(file) : whole[i + 1] = file[i]
  <2> TAKE i \in 1..Len(file)
  <2>1. Len(first) + i = i + 1 BY <1>2
  <2> QED BY <1>3, <2>1
<1> QED BY <1>3, <1>4, <1>5 DEF whole, first

\* Two files never have the same name as documents, inside the project (by
\* their place below the working directory) or outside it (from "/"): rel_of.
THEOREM KeysDiffer ==
    ASSUME NEW engine, engine.cwd \in Seq(Names), NEW f \in Seq(Names), NEW g \in Seq(Names), Plain(f), Plain(g),
           KeyOf(engine, f) = KeyOf(engine, g)
    PROVE  f = g
<1> DEFINE cwd == engine.cwd
           c == Len(cwd)
           below(x) == engine.root # Unset /\ Under(cwd, x)
<1>1. ASSUME NEW x \in Seq(Names), below(x)
      PROVE  /\ c \in 0..Len(x) /\ KeyOf(engine, x) = W!From(x, c + 1) /\ Under(cwd, x)
             /\ Len(KeyOf(engine, x)) = Len(x) - c
             /\ \A i \in 1..Len(x) - c : KeyOf(engine, x)[i] = x[c + i]
  <2>1. c \in 0..Len(x) BY <1>1 DEF Under
  <2>2. KeyOf(engine, x) = W!From(x, c + 1) BY <1>1 DEF KeyOf
  <2>3. Len(W!From(x, c + 1)) = Len(x) - c /\ \A i \in 1..Len(x) - c : W!From(x, c + 1)[i] = x[c + i] BY <2>1, Rest
  <2> QED BY <2>1, <2>2, <2>3, <1>1
<1>2. ASSUME NEW x \in Seq(Names), ~below(x)
      PROVE  /\ Len(KeyOf(engine, x)) = Len(x) + 1 /\ KeyOf(engine, x)[1] = W!Root
             /\ \A i \in 1..Len(x) : KeyOf(engine, x)[i + 1] = x[i]
  <2>1. KeyOf(engine, x) = <<W!Root>> \o x BY <1>2 DEF KeyOf
  <2> QED BY <2>1, RootBefore
<1>3. ASSUME NEW x \in Seq(Names), NEW y \in Seq(Names), Plain(x), below(x), ~below(y), KeyOf(engine, x) = KeyOf(engine, y)
      PROVE  FALSE
  <2>4. c \in 0..Len(x) /\ Len(KeyOf(engine, x)) = Len(x) - c /\ \A i \in 1..Len(x) - c : KeyOf(engine, x)[i] = x[c + i]
    BY <1>1, <1>3
  <2>5. Len(KeyOf(engine, x)) = Len(y) + 1 /\ KeyOf(engine, x)[1] = W!Root BY <1>2, <1>3
  <2> HIDE DEF c
  <2>1. Len(x) - c = Len(y) + 1 /\ c \in Nat /\ c <= Len(x) BY <2>4, <2>5
  <2>2. 1 \in 1..Len(x) - c /\ c + 1 \in 1..Len(x) BY <2>1
  <2>3. x[c + 1] = W!Root BY <2>2, <2>4, <2>5
  <2> QED BY <1>3, <2>2, <2>3 DEF Plain
<1>4. CASE below(f) /\ below(g)
  <2>1. Len(f) - c = Len(g) - c /\ c \in Nat /\ c <= Len(f) /\ c <= Len(g) BY <1>1, <1>4
  <2>2. Len(f) = Len(g) BY <2>1
  <2>3. ASSUME NEW i \in 1..Len(f) PROVE f[i] = g[i]
    <3>1. CASE i <= c
      <4>1. i \in 1..c BY <3>1, <2>1
      <4> QED BY <4>1, <1>4 DEF Under
    <3>2. CASE i > c
      <4>1. i - c \in 1..Len(f) - c /\ i - c \in 1..Len(g) - c /\ c + (i - c) = i BY <3>2, <2>1, <2>2
      <4> QED BY <4>1, <1>1, <1>4
    <3>3. i \in Int /\ c \in Int BY <2>1
    <3> QED BY <3>1, <3>2, <3>3
  <2> QED BY <2>2, <2>3, SameSeq
<1>5. CASE ~below(f) /\ ~below(g)
  <2>1. Len(f) + 1 = Len(g) + 1 BY <1>2, <1>5
  <2>2. Len(f) = Len(g) BY <2>1
  <2>3. \A i \in 1..Len(f) : f[i] = g[i] BY <1>2, <1>5, <2>2
  <2> QED BY <2>2, <2>3, SameSeq
<1> HIDE DEF below
<1> QED BY <1>3, <1>4, <1>5

\* Every path of a call stands for a place.
LEMMA StandsIs ==
    ASSUME NEW asked, CallOk(asked), NEW path \in Seq(Names), SpelledAt(path)
    PROVE  \E a, b : Stands(asked.cwd, W!Joins(asked.cwd, path), PlaceOf(asked, path), a, b)
<1> DEFINE cwd == asked.cwd
           spelled == W!Joins(cwd, path)
<1>1. cwd \in Seq(Names) /\ Plain(cwd) BY DEF CallOk
<1> HIDE DEF cwd
<1>2. \E place, a, b : Stands(cwd, spelled, place, a, b)
  <2>1. CASE path = <<>> \/ Head(path) # W!Root BY <1>1, <2>1, JoinsBelow
  <2>2. CASE path # <<>> /\ Head(path) = W!Root BY <2>2, JoinsFrom
  <2> QED BY <2>1, <2>2
<1> HIDE DEF spelled
<1>3. PICK place, a, b : Stands(cwd, spelled, place, a, b) BY <1>2
<1>4. W!Cleaned(spelled) = place BY <1>3, CleanedIs DEF Stands
<1> QED BY <1>3, <1>4 DEF PlaceOf, cwd, spelled

\* A file below a path has its name whichever way the path was spelled.
LEMMA RowIs ==
    ASSUME NEW engine, engine.cwd \in Seq(Names), NEW path, NEW place, NEW a, NEW b, Stands(engine.cwd, path, place, a, b),
           NEW file \in Seq(Names), Plain(file), Under(place, file)
    PROVE  /\ W!Key(engine, path \o W!From(file, Len(place) + 1)) = KeyOf(engine, file)
           /\ place \o W!From(file, Len(place) + 1) = file
<1> DEFINE rest == W!From(file, Len(place) + 1)
<1>1. path \in Seq(Names) /\ place \in Seq(Names) /\ Spells(path, place, a, b) BY DEF Stands
<1>2. path \o rest \in Seq(Names) /\ Spells(path \o rest, file, a, b) /\ place \o rest = file BY <1>1, SpellsBelow
<1>3. a = b \/ (a = Len(engine.cwd) /\ Under(engine.cwd, file))
  <2> DEFINE cwd == engine.cwd
  <2>1. Under(cwd, place) => Under(cwd, file)
    <3>1. cwd \in Seq(Names) OBVIOUS
    <3> HIDE DEF cwd
    <3> QED BY <1>1, <3>1 DEF Under
  <2> QED BY <2>1 DEF Stands
<1> HIDE DEF rest
<1>4. W!Key(engine, path \o rest) = KeyOf(engine, file) BY <1>2, <1>3, KeyIs
<1> QED BY <1>2, <1>4 DEF rest

\* A walk gives the files it is to find, in their order.
LEMMA WantedFiles ==
    ASSUME NEW asked, CallOk(asked), NEW engine, NEW dir \in Seq(Names)
    PROVE  /\ Wanted(asked, engine, dir) \in SUBSET asked.tree
           /\ \A file \in Wanted(asked, engine, dir) : Under(dir, file)
           /\ W!Expand(asked.tree, dir, RulesOf(asked, engine, dir), engine.skip)
                  = W!InOrder(Wanted(asked, engine, dir))
<1> DEFINE tree == asked.tree
           rules == RulesOf(asked, engine, dir)
           skip == engine.skip
<1>1. tree \in SUBSET Seq(Names) /\ IsFiniteSet(tree) /\ <<>> \notin tree BY DEF CallOk
<1>2. Wanted(asked, engine, dir) = Reachable(tree, rules, dir, skip, dir) BY <1>1, WantedIs
<1> HIDE DEF tree, rules, skip
<1>3. W!Found(tree, dir, rules, skip) = Reachable(tree, rules, dir, skip, dir) BY <1>1, FoundIs
<1>4. W!Expand(tree, dir, rules, skip) = W!InOrder(W!Found(tree, dir, rules, skip)) BY DEF W!Expand
<1>5. Reachable(tree, rules, dir, skip, dir) \in SUBSET tree BY DEF Reachable
<1>6. \A file \in Reachable(tree, rules, dir, skip, dir) : Under(dir, file) BY DEF Reachable, Reached, Below
<1> QED BY <1>2, <1>3, <1>4, <1>5, <1>6 DEF tree, rules, skip

StandsFor(asked, engine, path, rows) ==
    /\ FilesOf(asked, engine, path) \in SUBSET asked.tree
    /\ rows \in Seq({RowOf(engine, f) : f \in asked.tree})
    /\ W!ToSet(rows) = {RowOf(engine, f) : f \in FilesOf(asked, engine, path)}

\* The rows of one path are those of the files that it stands for.
LEMMA RowsAre ==
    ASSUME NEW asked, CallOk(asked), NEW engine, engine.cwd = asked.cwd, NEW path \in Seq(Names), SpelledAt(path)
    PROVE  StandsFor(asked, engine, path, W!Rows(engine, asked.tree, asked.ignores, path))
<1> DEFINE tree == asked.tree
           cwd == engine.cwd
           R == {RowOf(engine, f) : f \in tree}
           spelled == W!Joins(cwd, path)
           real == W!Cleaned(spelled)
           row(rest) == [key |-> W!Key(engine, spelled \o rest), file |-> real \o rest]
           under == W!Expand(tree, real, RulesOf(asked, engine, real), engine.skip)
           below == [k \in DOMAIN under |-> row(W!From(under[k], Len(real) + 1))]
           rows == W!Rows(engine, tree, asked.ignores, path)
           Right == /\ FilesOf(asked, engine, path) \in SUBSET tree /\ rows \in Seq(R)
                    /\ W!ToSet(rows) = {RowOf(engine, f) : f \in FilesOf(asked, engine, path)}
<1>1. rows = IF real \in tree THEN <<row(<<>>)>> ELSE IF W!IsDir(tree, real) THEN below ELSE <<>>
  BY Zenon DEF W!Rows, RulesOf
<1>2. PICK a, b : Stands(cwd, spelled, real, a, b) BY StandsIs DEF PlaceOf
<1>3. real = PlaceOf(asked, path) BY DEF PlaceOf
<1>4. \A f \in tree : f \in Seq(Names) /\ Plain(f) BY DEF CallOk
<1>5. cwd \in Seq(Names) BY DEF CallOk
<1> HIDE DEF spelled, real
<1>6. real \in Seq(Names) BY <1>2 DEF Stands
<1>7. ASSUME NEW f \in tree, Under(real, f) PROVE row(W!From(f, Len(real) + 1)) = RowOf(engine, f)
  <2>1. f \in Seq(Names) /\ Plain(f) BY <1>4
  <2>2. W!Key(engine, spelled \o W!From(f, Len(real) + 1)) = KeyOf(engine, f) /\ real \o W!From(f, Len(real) + 1) = f
    BY <1>2, <1>5, <1>7, <2>1, RowIs
  <2> QED BY <2>2 DEF RowOf
<1> HIDE DEF row
<1>8. ASSUME real \in tree
      PROVE  Right
  <2>1. FilesOf(asked, engine, path) = {real} BY <1>3, <1>8 DEF FilesOf
  <2>2. Under(real, real) BY <1>6 DEF Under
  <2>3. W!From(real, Len(real) + 1) = <<>>
    <3>1. Len(real) \in 0..Len(real) BY <1>6
    <3>2. W!From(real, Len(real) + 1) \in Seq(Names) /\ Len(W!From(real, Len(real) + 1)) = Len(real) - Len(real)
      BY <1>6, <3>1, Rest
    <3>3. Len(real) - Len(real) = 0 BY <3>1
    <3> QED BY <3>2, <3>3, EmptySeq
  <2>4. row(<<>>) = RowOf(engine, real) BY <1>7, <1>8, <2>2, <2>3
  <2>5. rows = <<RowOf(engine, real)>> BY <1>1, <1>8, <2>4
  <2>6. RowOf(engine, real) \in R BY <1>8
  <2>7. rows \in Seq(R) /\ W!ToSet(rows) = {RowOf(engine, real)} BY <2>5, <2>6 DEF W!ToSet
  <2> QED BY <1>8, <2>1, <2>7
<1>9. ASSUME real \notin tree /\ W!IsDir(tree, real)
      PROVE  Right
  <2> DEFINE files == Wanted(asked, engine, real)
             size == Cardinality(files)
  <2>1. FilesOf(asked, engine, path) = files BY <1>3, <1>9 DEF FilesOf
  <2>2. files \in SUBSET tree /\ (\A f \in files : Under(real, f)) /\ under = W!InOrder(files) BY <1>6, WantedFiles
  <2>3. IsFiniteSet(tree) /\ Strict(files, FileOrder(files)) BY <2>2 DEF CallOk, Orders
  <2>4. IsFiniteSet(files) BY <2>2, <2>3, FS_Subset
  <2> HIDE DEF files
  <2>5. /\ size \in Nat /\ W!InOrder(files) \in [1..size -> files]
        /\ {W!InOrder(files)[n] : n \in 1..size} = files
    BY <2>3, <2>4, InOrderIs
  <2> HIDE DEF under, size
  <2>6. under \in [1..size -> files] /\ {under[n] : n \in 1..size} = files BY <2>2, <2>5
  <2>7. \A n \in 1..size : row(W!From(under[n], Len(real) + 1)) = RowOf(engine, under[n]) BY <1>7, <2>2, <2>6
  <2>8. below = [n \in 1..size |-> RowOf(engine, under[n])] BY <2>6, <2>7
  <2> HIDE DEF below
  <2>9. \A n \in 1..size : RowOf(engine, under[n]) \in R BY <2>2, <2>6
  <2> HIDE DEF R
  <2>10. below \in [1..size -> R] BY <2>8, <2>9
  <2>11. below \in Seq(R) BY <2>5, <2>10
  <2>12. W!ToSet(below) = {RowOf(engine, under[n]) : n \in 1..size} BY <2>8 DEF W!ToSet
  <2>13. {RowOf(engine, under[n]) : n \in 1..size} = {RowOf(engine, f) : f \in files} BY <2>6
  <2> QED BY <1>1, <1>9, <2>1, <2>2, <2>11, <2>12, <2>13 DEF R
<1>10. ASSUME real \notin tree /\ ~W!IsDir(tree, real)
      PROVE  Right
  <2>1. FilesOf(asked, engine, path) = {} BY <1>3, <1>10 DEF FilesOf
  <2>2. rows = <<>> BY <1>1, <1>10
  <2>3. W!ToSet(rows) = {} BY <2>2 DEF W!ToSet
  <2>4. rows \in Seq(R) BY <2>2
  <2> QED BY <2>1, <2>3, <2>4
<1>11. Right
  BY <1>8, <1>9, <1>10
<1> HIDE DEF rows
<1>12. StandsFor(asked, engine, path, rows) BY <1>11 DEF StandsFor
<1> QED BY <1>12 DEF rows

InputsOf(asked) == IF asked.paths = <<>> THEN <<(<<>>)>> ELSE asked.paths
AllFiles(asked, engine) == UNION {FilesOf(asked, engine, InputsOf(asked)[k]) : k \in 1..Len(InputsOf(asked))}

\* Without paths a call is about the working directory.
LEMMA InputsAre ==
    ASSUME NEW asked, CallOk(asked)
    PROVE  /\ InputsOf(asked) \in Seq(Seq(Names)) /\ Len(InputsOf(asked)) # 0
           /\ \A k \in 1..Len(InputsOf(asked)) : InputsOf(asked)[k] \in Seq(Names) /\ SpelledAt(InputsOf(asked)[k])
           /\ Given(asked) = {PlaceOf(asked, InputsOf(asked)[k]) : k \in 1..Len(InputsOf(asked))}
<1> DEFINE none == <<>>
           inputs == InputsOf(asked)
<1>1. asked.paths \in Seq(Seq(Names)) /\ \A i \in 1..Len(asked.paths) : SpelledAt(asked.paths[i]) BY DEF CallOk
<1>2. none \in Seq(Names) /\ SpelledAt(none) BY DEF SpelledAt
<1>3. CASE asked.paths = <<>>
  <2> HIDE DEF none
  <2>1. inputs = <<none>> BY <1>3 DEF InputsOf, none
  <2>2. inputs \in Seq(Seq(Names)) /\ Len(inputs) = 1 /\ inputs[1] = none BY <1>2, <2>1
  <2>3. Given(asked) = {PlaceOf(asked, none)} BY <1>3, Zenon DEF Given, PlaceOf, none
  <2> HIDE DEF inputs
  <2>4. \A k \in 1..Len(inputs) : inputs[k] = none BY <2>2
  <2>5. {PlaceOf(asked, inputs[k]) : k \in 1..Len(inputs)} = {PlaceOf(asked, none)} BY <2>2, <2>4
  <2> QED BY <1>2, <2>2, <2>3, <2>4, <2>5 DEF inputs
<1>4. CASE asked.paths # <<>>
  <2>1. inputs = asked.paths BY <1>4 DEF InputsOf
  <2>2. Len(asked.paths) # 0 BY <1>1, <1>4
  <2>3. ToSet(asked.paths) = {asked.paths[k] : k \in 1..Len(asked.paths)}
    <3>1. DOMAIN asked.paths = 1..Len(asked.paths) BY <1>1
    <3> QED BY <3>1 DEF ToSet
  <2>4. Given(asked) = {PlaceOf(asked, path) : path \in ToSet(asked.paths)} BY <1>4, Zenon DEF Given, PlaceOf
  <2>5. Given(asked) = {PlaceOf(asked, asked.paths[k]) : k \in 1..Len(asked.paths)} BY <2>3, <2>4
  <2> HIDE DEF inputs
  <2> QED BY <1>1, <2>1, <2>2, <2>5 DEF inputs
<1> QED BY <1>3, <1>4

LEMMA AllFilesAre ==
    ASSUME NEW asked, CallOk(asked), NEW engine, engine.cwd = asked.cwd
    PROVE  AllFiles(asked, engine) \in SUBSET asked.tree
<1>1. ASSUME NEW k \in 1..Len(InputsOf(asked)) PROVE FilesOf(asked, engine, InputsOf(asked)[k]) \in SUBSET asked.tree
  BY InputsAre, RowsAre DEF StandsFor
<1> QED BY <1>1 DEF AllFiles

\* collect gives a row to every file of the paths, and only one.
LEMMA CollectIs ==
    ASSUME NEW asked, CallOk(asked), NEW engine, engine.cwd = asked.cwd
    PROVE  W!ToSet(W!Collect(engine, asked.tree, asked.ignores, asked.paths))
               = {RowOf(engine, f) : f \in AllFiles(asked, engine)}
<1> DEFINE tree == asked.tree
           inputs == InputsOf(asked)
           n == Len(inputs)
           R == {RowOf(engine, f) : f \in tree}
           seqs == [k \in DOMAIN inputs |-> W!Rows(engine, tree, asked.ignores, inputs[k])]
           flat == W!FlattenSeq(seqs)
           files(k) == FilesOf(asked, engine, inputs[k])
           of(S) == {RowOf(engine, f) : f \in S}
<1>1. W!Collect(engine, tree, asked.ignores, asked.paths) = W!Once(flat) BY Zenon DEF W!Collect, InputsOf
<1>2. inputs \in Seq(Seq(Names)) /\ n # 0 /\ n \in Nat /\ DOMAIN inputs = 1..n
      /\ \A k \in 1..n : inputs[k] \in Seq(Names) /\ SpelledAt(inputs[k])
  BY InputsAre
<1> HIDE DEF inputs, n
<1>3. ASSUME NEW k \in 1..n
      PROVE  seqs[k] \in Seq(R) /\ W!ToSet(seqs[k]) = of(files(k)) /\ files(k) \in SUBSET tree
  <2>1. inputs[k] \in Seq(Names) /\ SpelledAt(inputs[k]) BY <1>2
  <2>2. seqs[k] = W!Rows(engine, tree, asked.ignores, inputs[k]) BY <1>2
  <2> DEFINE path == inputs[k]
             rows == W!Rows(engine, asked.tree, asked.ignores, path)
  <2>3. seqs[k] = rows BY <2>2
  <2>4. path \in Seq(Names) /\ SpelledAt(path) BY <2>1
  <2> HIDE DEF path, seqs
  <2>5. /\ FilesOf(asked, engine, path) \in SUBSET asked.tree /\ rows \in Seq({RowOf(engine, f) : f \in asked.tree})
        /\ W!ToSet(rows) = {RowOf(engine, f) : f \in FilesOf(asked, engine, path)}
    <3>1. StandsFor(asked, engine, path, W!Rows(engine, asked.tree, asked.ignores, path)) BY <2>4, RowsAre
    <3> QED BY <3>1 DEF StandsFor
  <2> HIDE DEF rows
  <2>6. seqs[k] \in Seq({RowOf(engine, f) : f \in asked.tree})
        /\ W!ToSet(seqs[k]) = {RowOf(engine, f) : f \in FilesOf(asked, engine, path)}
    BY <2>3, <2>5
  <2> QED BY <2>5, <2>6 DEF path
<1>4. seqs \in [1..n -> Seq(R)]
  <2>1. seqs = [k \in 1..n |-> seqs[k]] BY <1>2
  <2> HIDE DEF seqs, R
  <2> QED BY <1>3, <2>1
<1>5. \A f, g \in tree : RowOf(engine, f).key = RowOf(engine, g).key => f = g
  <2>1. ASSUME NEW f \in tree, NEW g \in tree, RowOf(engine, f).key = RowOf(engine, g).key PROVE f = g
    <3>1. f \in Seq(Names) /\ g \in Seq(Names) /\ Plain(f) /\ Plain(g) /\ engine.cwd \in Seq(Names) BY DEF CallOk
    <3>2. KeyOf(engine, f) = KeyOf(engine, g) BY <2>1 DEF RowOf
    <3> QED BY <3>1, <3>2, KeysDiffer
  <2> QED BY <2>1
<1>6. \A x \in R : \E f \in tree : x = RowOf(engine, f) OBVIOUS
<1> HIDE DEF R, seqs
<1>7. seqs \in Seq(Seq(R)) /\ Len(seqs) = n
  <2> DEFINE A == Seq(R)
  <2> HIDE DEF A
  <2>1. seqs \in [1..n -> A] BY <1>4 DEF A
  <2>2. n \in Nat BY <1>2
  <2>3. seqs \in Seq(A) /\ Len(seqs) = n BY <2>1, <2>2
  <2> QED BY <2>3 DEF A
<1>8. flat \in Seq(R) /\ W!ToSet(flat) = UNION {W!ToSet(seqs[k]) : k \in 1..n} BY <1>2, <1>7, FlattenIs
<1> HIDE DEF flat
<1>9. /\ W!Once(flat) \in Seq(R) /\ W!ToSet(W!Once(flat)) \subseteq W!ToSet(flat)
      /\ \A row \in W!ToSet(flat) : \E kept \in W!ToSet(W!Once(flat)) : kept.key = row.key
  BY <1>8, OnceIs
<1>10. W!ToSet(flat) \subseteq R
  <2>1. \A i \in DOMAIN flat : flat[i] \in R BY <1>8
  <2> QED BY <2>1 DEF W!ToSet
<1>11. W!ToSet(W!Once(flat)) = W!ToSet(flat)
  <2> SUFFICES ASSUME NEW row \in W!ToSet(flat) PROVE row \in W!ToSet(W!Once(flat)) BY <1>9
  <2>1. PICK kept \in W!ToSet(W!Once(flat)) : kept.key = row.key BY <1>9
  <2>2. PICK f \in tree : row = RowOf(engine, f) BY <1>6, <1>10
  <2>3. PICK g \in tree : kept = RowOf(engine, g) BY <1>6, <1>9, <1>10
  <2>4. f = g BY <1>5, <2>1, <2>2, <2>3
  <2> QED BY <2>2, <2>3, <2>4
<1>12. UNION {W!ToSet(seqs[k]) : k \in 1..n} = of(UNION {files(k) : k \in 1..n})
  <2>1. ASSUME NEW k \in 1..n, NEW x \in W!ToSet(seqs[k]) PROVE x \in of(UNION {files(j) : j \in 1..n})
    <3>1. x \in of(files(k)) BY <1>3, <2>1
    <3> QED BY <3>1
  <2>2. ASSUME NEW k \in 1..n, NEW f \in files(k) PROVE RowOf(engine, f) \in UNION {W!ToSet(seqs[j]) : j \in 1..n}
    <3>1. RowOf(engine, f) \in of(files(k)) OBVIOUS
    <3>2. RowOf(engine, f) \in W!ToSet(seqs[k]) BY <1>3, <3>1
    <3> QED BY <3>2
  <2> QED BY <2>1, <2>2
<1>13. AllFiles(asked, engine) = UNION {files(k) : k \in 1..n} BY DEF AllFiles, inputs, n
<1> QED BY <1>1, <1>8, <1>11, <1>12, <1>13

\* The documents after an index call, by the files that it took.
After(asked, engine, documents) ==
    LET files == AllFiles(asked, engine)
        seen == {KeyOf(engine, f) : f \in files}
        rows == {RowOf(engine, f) : f \in files}
    IN  IF asked.brief /\ W!Unchanged(documents, rows, asked.edited, asked.paths) THEN documents
        ELSE {doc \in documents : doc.key \notin seen /\ ~W!Unseen(engine, asked.tree, asked.paths, seen, doc.key)}
                 \cup rows

LEMMA IndexIs ==
    ASSUME NEW asked, CallOk(asked), NEW engine, engine.cwd = asked.cwd, NEW documents
    PROVE  W!Index(engine, documents, asked) = After(asked, engine, documents)
<1> DEFINE rows == {RowOf(engine, f) : f \in AllFiles(asked, engine)}
           seen == {KeyOf(engine, f) : f \in AllFiles(asked, engine)}
           keys == {row.key : row \in rows}
           kept(k) == {doc \in documents : doc.key \notin k /\ ~W!Unseen(engine, asked.tree, asked.paths, k, doc.key)}
<1>1. W!ToSet(W!Collect(engine, asked.tree, asked.ignores, asked.paths)) = rows BY CollectIs
<1>2. W!Index(engine, documents, asked)
          = LET after(r) == IF asked.brief /\ W!Unchanged(documents, r, asked.edited, asked.paths) THEN documents
                            ELSE kept({row.key : row \in r}) \cup r
            IN  after(W!ToSet(W!Collect(engine, asked.tree, asked.ignores, asked.paths)))
  BY Zenon DEF W!Index
<1>3. keys = seen
  <2>1. \A f : RowOf(engine, f).key = KeyOf(engine, f) BY DEF RowOf
  <2> QED BY <2>1
<1> QED BY <1>1, <1>2, <1>3 DEF After

LEMMA PathsAre ==
    ASSUME NEW asked, CallOk(asked)
    PROVE  /\ ToSet(asked.paths) = W!ToSet(asked.paths)
           /\ \A path \in W!ToSet(asked.paths) : path \in Seq(Names) /\ SpelledAt(path)
<1>1. asked.paths \in Seq(Seq(Names)) /\ \A i \in 1..Len(asked.paths) : SpelledAt(asked.paths[i]) BY DEF CallOk
<1>2. DOMAIN asked.paths = 1..Len(asked.paths) BY <1>1
<1>3. ToSet(asked.paths) = W!ToSet(asked.paths) BY Zenon DEF ToSet, W!ToSet
<1> QED BY <1>1, <1>2, <1>3 DEF W!ToSet

LEMMA PlacesPlain ==
    ASSUME NEW asked, CallOk(asked), NEW dir \in Given(asked)
    PROVE  dir \in Seq(Names) /\ Plain(dir)
<1>1. PICK k \in 1..Len(InputsOf(asked)) : dir = PlaceOf(asked, InputsOf(asked)[k]) BY InputsAre
<1>2. InputsOf(asked)[k] \in Seq(Names) /\ SpelledAt(InputsOf(asked)[k]) BY InputsAre
<1>3. \E a, b : Stands(asked.cwd, W!Joins(asked.cwd, InputsOf(asked)[k]), PlaceOf(asked, InputsOf(asked)[k]), a, b)
  BY <1>2, StandsIs
<1> QED BY <1>1, <1>3 DEF Stands

LEMMA KeyBelow ==
    ASSUME NEW engine, engine.cwd \in Seq(Names), engine.root # Unset, NEW f \in Seq(Names), Under(engine.cwd, f)
    PROVE  /\ Len(engine.cwd) \in 0..Len(f)
           /\ KeyOf(engine, f) \in Seq(Names) /\ Len(KeyOf(engine, f)) = Len(f) - Len(engine.cwd)
           /\ \A i \in 1..Len(f) - Len(engine.cwd) : KeyOf(engine, f)[i] = f[Len(engine.cwd) + i]
<1>1. Len(engine.cwd) \in 0..Len(f) BY DEF Under
<1>2. KeyOf(engine, f) = W!From(f, Len(engine.cwd) + 1) BY DEF KeyOf
<1> QED BY <1>1, <1>2, Rest

LEMMA KeyApart ==
    ASSUME NEW engine, NEW f \in Seq(Names), engine.root = Unset \/ ~Under(engine.cwd, f)
    PROVE  /\ KeyOf(engine, f) = <<W!Root>> \o f
           /\ KeyOf(engine, f) \in Seq(Names) /\ Len(KeyOf(engine, f)) = Len(f) + 1 /\ KeyOf(engine, f)[1] = W!Root
           /\ \A i \in 1..Len(f) : KeyOf(engine, f)[i + 1] = f[i]
<1>1. KeyOf(engine, f) = <<W!Root>> \o f BY DEF KeyOf
<1> QED BY <1>1, RootBefore

\* A document under a named directory is one that drop_unseen drops.
LEMMA DropsBelow ==
    ASSUME NEW asked, CallOk(asked), NEW engine, engine.cwd = asked.cwd, engine.root # Unset,
           NEW path \in Seq(Names), Plain(asked.cwd \o path), asked.cwd \o path # asked.cwd,
           NEW f \in Seq(Names), Under(asked.cwd \o path, f)
    PROVE  /\ W!Joins(asked.cwd, path) = asked.cwd \o path /\ path \notin {<<>>, <<W!Root>>}
           /\ W!Cleaned(asked.cwd \o path) = asked.cwd \o path
           /\ W!IsPrefix(path, KeyOf(engine, f))
<1> DEFINE cwd == asked.cwd
           c == Len(cwd)
           dir == cwd \o path
           key == KeyOf(engine, f)
<1>1. cwd \in Seq(Names) BY DEF CallOk
<1>2. /\ dir \in Seq(Names) /\ Len(dir) = c + Len(path)
      /\ \A i \in 1..c : dir[i] = cwd[i]
      /\ \A i \in 1..Len(path) : dir[c + i] = path[i]
  BY <1>1, Concat
<1>3. path # <<>>
  <2>1. cwd \o <<>> = cwd BY <1>1
  <2> QED BY <2>1
<1>4. c \in Nat /\ Len(path) \in Nat /\ Len(f) \in Nat BY <1>1
<1>5. Head(path) # W!Root
  <2>1. 1 \in 1..Len(path) /\ Head(path) = path[1] BY <1>3
  <2>2. c + 1 \in 1..Len(dir) /\ dir[c + 1] = path[1] BY <1>2, <1>4, <2>1
  <2> QED BY <2>1, <2>2 DEF Plain
<1>6. W!Joins(cwd, path) = dir BY <1>5 DEF W!Joins
<1>7. W!Cleaned(dir) = dir BY <1>2, SpellsItself
<1>8. Len(dir) <= Len(f) /\ \A i \in 1..Len(dir) : f[i] = dir[i] BY DEF Under
<1> HIDE DEF dir, key
<1>9. Under(cwd, f)
  <2>1. c <= Len(f) BY <1>2, <1>4, <1>8
  <2>2. \A i \in 1..c : i \in 1..Len(dir) BY <1>2, <1>4
  <2> QED BY <1>2, <1>8, <2>1, <2>2 DEF Under
<1>10. key \in Seq(Names) /\ Len(key) = Len(f) - c /\ \A i \in 1..Len(f) - c : key[i] = f[c + i]
  <2> DEFINE e == engine.cwd
  <2>1. e = cwd OBVIOUS
  <2>2. e \in Seq(Names) /\ Under(e, f) BY <1>1, <1>9
  <2>3. key \in Seq(Names) /\ Len(key) = Len(f) - Len(e) /\ \A i \in 1..Len(f) - Len(e) : key[i] = f[Len(e) + i]
    BY <2>2, KeyBelow DEF key
  <2> HIDE DEF e
  <2> QED BY <2>1, <2>3
<1>11. Len(path) <= Len(key) BY <1>2, <1>4, <1>8, <1>10
<1>12. ASSUME NEW i \in 1..Len(path) PROVE key[i] = path[i]
  <2>1. i \in 1..Len(f) - c /\ c + i \in 1..Len(dir) BY <1>2, <1>4, <1>8
  <2> QED BY <1>2, <1>8, <1>10, <2>1
<1>13. W!IsPrefix(path, key) BY <1>10, <1>11, <1>12, PrefixIs DEF Under
<1>14. path # <<W!Root>> BY <1>5
<1> QED BY <1>3, <1>6, <1>7, <1>13, <1>14 DEF dir, key

LEMMA Comparable ==
    ASSUME NEW f \in Seq(Names), NEW s \in Seq(Names), NEW t \in Seq(Names), Under(s, f), Under(t, f)
    PROVE  Under(s, t) \/ Under(t, s)
<1>1. CASE Len(s) <= Len(t)
  <2>1. \A i \in 1..Len(s) : i \in 1..Len(t) BY <1>1
  <2> QED BY <1>1, <2>1 DEF Under
<1>2. CASE Len(t) <= Len(s)
  <2>1. \A i \in 1..Len(t) : i \in 1..Len(s) BY <1>2
  <2> QED BY <1>2, <2>1 DEF Under
<1>3. Len(s) <= Len(t) \/ Len(t) <= Len(s) OBVIOUS
<1> QED BY <1>1, <1>2, <1>3

LEMMA RootedUnder ==
    ASSUME NEW s \in Seq(Names), NEW f \in Seq(Names)
    PROVE  W!IsPrefix(<<W!Root>> \o s, <<W!Root>> \o f) <=> Under(s, f)
<1> DEFINE r == <<W!Root>> \o s
           g == <<W!Root>> \o f
<1>1. r \in Seq(Names) /\ Len(r) = Len(s) + 1 /\ r[1] = W!Root /\ \A i \in 1..Len(s) : r[i + 1] = s[i] BY RootBefore
<1>2. g \in Seq(Names) /\ Len(g) = Len(f) + 1 /\ g[1] = W!Root /\ \A i \in 1..Len(f) : g[i + 1] = f[i] BY RootBefore
<1> HIDE DEF r, g
<1>3. W!IsPrefix(r, g) <=> Under(r, g) BY <1>1, <1>2, PrefixIs
<1>4. ASSUME Under(s, f) PROVE Under(r, g)
  <2>1. Len(r) <= Len(g) BY <1>1, <1>2, <1>4 DEF Under
  <2>2. ASSUME NEW i \in 1..Len(r) PROVE g[i] = r[i]
    <3>1. CASE i = 1 BY <1>1, <1>2, <3>1
    <3>2. CASE i # 1
      <4>1. i - 1 \in 1..Len(s) /\ i - 1 \in 1..Len(f) /\ (i - 1) + 1 = i BY <1>1, <1>2, <2>1, <3>2
      <4> QED BY <1>1, <1>2, <1>4, <4>1 DEF Under
    <3> QED BY <3>1, <3>2
  <2> QED BY <2>1, <2>2 DEF Under
<1>5. ASSUME Under(r, g) PROVE Under(s, f)
  <2>1. Len(s) <= Len(f) BY <1>1, <1>2, <1>5 DEF Under
  <2>2. ASSUME NEW i \in 1..Len(s) PROVE f[i] = s[i]
    <3>1. i + 1 \in 1..Len(r) /\ i \in 1..Len(f) BY <1>1, <2>1
    <3> QED BY <1>1, <1>2, <1>5, <3>1 DEF Under
  <2> QED BY <2>1, <2>2 DEF Under
<1> QED BY <1>3, <1>4, <1>5 DEF r, g

LEMMA DropsApart ==
    ASSUME NEW asked, CallOk(asked), NEW engine, engine.cwd = asked.cwd,
           NEW dir \in Seq(Names), Plain(dir), dir # <<>>,
           engine.root = Unset \/ (~Under(asked.cwd, dir) /\ ~Under(dir, asked.cwd)),
           NEW f \in Seq(Names), Under(dir, f)
    PROVE  /\ W!Joins(asked.cwd, <<W!Root>> \o dir) = dir /\ <<W!Root>> \o dir \notin {<<>>, <<W!Root>>}
           /\ W!Cleaned(dir) = dir
           /\ W!IsPrefix(<<W!Root>> \o dir, KeyOf(engine, f))
<1> DEFINE path == <<W!Root>> \o dir
<1>1. path \in Seq(Names) /\ Len(path) = Len(dir) + 1 /\ path[1] = W!Root /\ \A i \in 1..Len(dir) : path[i + 1] = dir[i]
  BY RootBefore
<1> HIDE DEF path
<1>2. path # <<>> /\ Head(path) = W!Root BY <1>1
<1>3. W!Joins(asked.cwd, path) = Tail(path) BY <1>2 DEF W!Joins
<1>4. Tail(path) = dir
  <2>1. Tail(path) \in Seq(Names) /\ Len(Tail(path)) = Len(path) - 1 /\ \A i \in 1..Len(Tail(path)) : Tail(path)[i] = path[i + 1]
    BY <1>1, <1>2
  <2>2. Len(Tail(path)) = Len(dir) BY <1>1, <2>1
  <2> QED BY <1>1, <2>1, <2>2, SameSeq
<1>5. W!Cleaned(dir) = dir BY SpellsItself
<1>6. engine.root = Unset \/ ~Under(engine.cwd, f) BY Comparable DEF CallOk
<1>7. KeyOf(engine, f) = <<W!Root>> \o f BY <1>6, KeyApart
<1>8. W!IsPrefix(path, KeyOf(engine, f)) BY <1>7, RootedUnder DEF path
<1>9. path # <<W!Root>> BY <1>1
<1> QED BY <1>2, <1>3, <1>4, <1>5, <1>8, <1>9 DEF path

LEMMA Drops ==
    ASSUME NEW asked, CallOk(asked), NEW engine, engine.cwd = asked.cwd, NEW f \in Seq(Names),
           NEW seen, KeyOf(engine, f) \notin seen, NEW dir \in Named(asked, engine), Under(dir, f)
    PROVE  W!Unseen(engine, asked.tree, asked.paths, seen, KeyOf(engine, f))
<1> DEFINE key == KeyOf(engine, f)
           paths == asked.paths
           cwd == asked.cwd
           tree == asked.tree
           below(path) == W!IsDir(tree, W!Cleaned(W!Joins(cwd, path))) /\ W!IsPrefix(path, key)
<1>1. W!Unseen(engine, tree, paths, seen, key)
          <=> \/ paths = <<>> \/ <<W!Dot>> \in W!ToSet(paths)
              \/ \E path \in W!ToSet(paths) \ {<<>>, <<W!Root>>} : below(path)
  BY DEF W!Unseen, W!Whole
<1>2. /\ dir \in Given(asked) /\ W!IsDir(tree, dir)
      /\ \/ Whole(asked)
         \/ engine.root # Unset /\ dir # cwd /\ \E path \in ToSet(paths) : dir = cwd \o path
         \/ /\ <<W!Root>> \o dir \in ToSet(paths) /\ dir # <<>>
            /\ engine.root = Unset \/ (~IsPrefix(cwd, dir) /\ ~IsPrefix(dir, cwd))
  BY DEF Named
<1>3. dir \in Seq(Names) /\ Plain(dir) BY <1>2, PlacesPlain
<1>4. ToSet(paths) = W!ToSet(paths) /\ \A path \in W!ToSet(paths) : path \in Seq(Names) BY PathsAre
<1>5. cwd \in Seq(Names) BY DEF CallOk
<1>6. CASE Whole(asked)
  <2>1. paths = <<>> \/ <<W!Dot>> \in W!ToSet(paths) BY <1>4, <1>6 DEF Whole
  <2> QED BY <1>1, <2>1
<1>7. CASE engine.root # Unset /\ dir # cwd /\ \E path \in ToSet(paths) : dir = cwd \o path
  <2>1. PICK path \in W!ToSet(paths) : dir = cwd \o path BY <1>4, <1>7
  <2>2. path \notin {<<>>, <<W!Root>>} /\ W!Joins(cwd, path) = dir /\ W!Cleaned(dir) = dir /\ W!IsPrefix(path, key)
    BY <1>3, <1>4, <1>7, <2>1, DropsBelow
  <2> HIDE DEF key, cwd, tree
  <2>3. below(path) BY <1>2, <2>2
  <2> HIDE DEF below
  <2> QED BY <1>1, <2>2, <2>3 DEF key, tree
<1>8. CASE /\ <<W!Root>> \o dir \in ToSet(paths) /\ dir # <<>>
           /\ engine.root = Unset \/ (~IsPrefix(cwd, dir) /\ ~IsPrefix(dir, cwd))
  <2> DEFINE path == <<W!Root>> \o dir
  <2>1. engine.root = Unset \/ (~Under(cwd, dir) /\ ~Under(dir, cwd)) BY <1>3, <1>5, <1>8, PrefixIs
  <2>2. path \notin {<<>>, <<W!Root>>} /\ W!Joins(cwd, path) = dir /\ W!Cleaned(dir) = dir /\ W!IsPrefix(path, key)
    BY <1>3, <1>8, <2>1, DropsApart
  <2>3. path \in W!ToSet(paths) BY <1>4, <1>8
  <2> HIDE DEF key, cwd, path, tree
  <2>4. below(path) BY <1>2, <2>2
  <2> HIDE DEF below
  <2> QED BY <1>1, <2>2, <2>3, <2>4 DEF key, tree
<1> QED BY <1>2, <1>6, <1>7, <1>8

\* What drop_unseen takes by its name lies under one of the places given.
LEMMA KeptApart ==
    ASSUME NEW asked, CallOk(asked), NEW engine, engine.cwd = asked.cwd, NEW f \in Seq(Names), Plain(f),
           NEW path \in Seq(Names), SpelledAt(path), path # <<>>, W!IsPrefix(path, KeyOf(engine, f))
    PROVE  Under(PlaceOf(asked, path), f)
<1> DEFINE key == KeyOf(engine, f)
           cwd == asked.cwd
           e == engine.cwd
           c == Len(e)
           place == PlaceOf(asked, path)
<1>1. cwd \in Seq(Names) /\ Plain(cwd) /\ e = cwd BY DEF CallOk
<1>2. Len(path) \in Nat /\ Len(path) >= 1 /\ Head(path) = path[1] /\ 1 \in 1..Len(path) OBVIOUS
<1>3. CASE Head(path) = W!Root
  <2>1. /\ W!Joins(cwd, path) = Tail(path) /\ Tail(path) \in Seq(Names) /\ W!Cleaned(Tail(path)) = Tail(path)
        /\ Len(path) = Len(Tail(path)) + 1 /\ \A i \in 1..Len(Tail(path)) : Tail(path)[i] = path[i + 1]
    BY <1>3, JoinsFrom
  <2>2. place = Tail(path) BY <2>1 DEF PlaceOf
  <2>3. place \in Seq(Names) /\ Len(path) = Len(place) + 1 /\ \A i \in 1..Len(place) : place[i] = path[i + 1] BY <2>1, <2>2
  <2> HIDE DEF place, key
  <2>4. CASE engine.root # Unset /\ Under(e, f)
    <3>1. c \in 0..Len(f) /\ key \in Seq(Names) /\ Len(key) = Len(f) - c /\ \A i \in 1..Len(f) - c : key[i] = f[c + i]
      BY <1>1, <2>4, KeyBelow DEF key
    <3>2. Len(path) <= Len(key) /\ \A i \in 1..Len(path) : key[i] = path[i] BY <3>1, PrefixIs DEF Under, key
    <3> HIDE DEF e
    <3>3. 1 \in 1..Len(f) - c /\ c + 1 \in 1..Len(f) BY <1>2, <3>1, <3>2
    <3>4. f[c + 1] = W!Root BY <1>2, <1>3, <3>1, <3>2, <3>3
    <3> QED BY <3>3, <3>4 DEF Plain
  <2>5. CASE engine.root = Unset \/ ~Under(e, f)
    <3>1. key = <<W!Root>> \o f BY <2>5, KeyApart DEF key
    <3>2. path = <<W!Root>> \o place
      <4> DEFINE r == <<W!Root>> \o place
      <4>1. r \in Seq(Names) /\ Len(r) = Len(place) + 1 /\ r[1] = W!Root /\ \A i \in 1..Len(place) : r[i + 1] = place[i]
        BY <2>3, RootBefore
      <4> HIDE DEF r
      <4>2. Len(r) = Len(path) BY <2>3, <4>1
      <4>3. ASSUME NEW i \in 1..Len(r) PROVE r[i] = path[i]
        <5>1. CASE i = 1 BY <1>2, <1>3, <4>1, <5>1
        <5>2. CASE i # 1
          <6>1. i - 1 \in 1..Len(place) /\ (i - 1) + 1 = i BY <2>3, <4>1, <5>2
          <6> QED BY <2>3, <4>1, <6>1
        <5> QED BY <5>1, <5>2
      <4>4. r = path BY <4>1, <4>2, <4>3, SameSeq
      <4> QED BY <4>4 DEF r
    <3> QED BY <2>3, <3>1, <3>2, RootedUnder DEF key, place
  <2> QED BY <2>4, <2>5
<1>4. CASE Head(path) # W!Root
  <2> HIDE DEF key
  <2>1. CASE engine.root = Unset \/ ~Under(e, f)
    <3>1. key \in Seq(Names) /\ key[1] = W!Root BY <2>1, KeyApart DEF key
    <3>2. \A i \in 1..Len(path) : key[i] = path[i] BY <3>1, PrefixIs DEF Under, key
    <3> QED BY <1>2, <1>4, <3>1, <3>2
  <2>2. CASE engine.root # Unset /\ Under(e, f)
    <3>1. c \in 0..Len(f) /\ key \in Seq(Names) /\ Len(key) = Len(f) - c /\ \A i \in 1..Len(f) - c : key[i] = f[c + i]
      BY <1>1, <2>2, KeyBelow DEF key
    <3>2. Len(path) <= Len(key) /\ \A i \in 1..Len(path) : key[i] = path[i] BY <3>1, PrefixIs DEF Under, key
    <3> DEFINE whole == cwd \o path
    <3>3. /\ whole \in Seq(Names) /\ Len(whole) = Len(cwd) + Len(path)
          /\ \A i \in 1..Len(cwd) : whole[i] = cwd[i]
          /\ \A i \in 1..Len(path) : whole[Len(cwd) + i] = path[i]
      BY <1>1, Concat
    <3>4. W!Joins(cwd, path) = whole BY <1>4 DEF W!Joins
    <3> HIDE DEF whole, place, e, cwd
    <3>5. Len(cwd) = c /\ c \in Nat /\ Len(f) \in Nat /\ Len(path) + c <= Len(f) BY <1>1, <3>1, <3>2
    <3>6. \A i \in 1..c : f[i] = cwd[i] BY <1>1, <2>2 DEF Under
    <3>7. \A i \in 1..Len(path) : i \in 1..Len(f) - c BY <1>2, <3>5
    <3>8. \A i \in 1..Len(path) : f[c + i] = path[i] BY <3>1, <3>2, <3>7
    <3>9. Under(whole, f)
      <4>1. Len(whole) <= Len(f) BY <1>2, <3>3, <3>5
      <4>2. ASSUME NEW i \in 1..Len(whole) PROVE f[i] = whole[i]
        <5>1. CASE i <= c
          <6>1. i \in 1..c BY <5>1, <3>5
          <6> QED BY <3>3, <3>5, <3>6, <6>1
        <5>2. CASE i > c
          <6>1. i - c \in 1..Len(path) /\ c + (i - c) = i BY <1>2, <3>3, <3>5, <5>2
          <6> QED BY <3>3, <3>5, <3>8, <6>1
        <5>3. i \in Int /\ c \in Int BY <3>5
        <5> QED BY <5>1, <5>2, <5>3
      <4> QED BY <4>1, <4>2 DEF Under
    <3>10. Plain(whole)
      <4>1. \A i \in 1..Len(whole) : i \in 1..Len(f) BY <1>2, <3>3, <3>5
      <4> QED BY <3>9, <4>1 DEF Under, Plain
    <3>11. place = whole BY <3>3, <3>4, <3>10, SpellsItself DEF place, PlaceOf, cwd
    <3> QED BY <3>9, <3>11 DEF place
  <2> QED BY <2>1, <2>2
<1> QED BY <1>3, <1>4

\* A document that is under no place of the call is kept.
LEMMA Keeps ==
    ASSUME NEW asked, CallOk(asked), NEW engine, engine.cwd = asked.cwd, NEW f \in Seq(Names), Plain(f),
           NEW seen, ~Whole(asked), \A dir \in Given(asked) : ~Under(dir, f)
    PROVE  ~W!Unseen(engine, asked.tree, asked.paths, seen, KeyOf(engine, f))
<1> DEFINE paths == asked.paths
<1>1. ToSet(paths) = W!ToSet(paths) /\ \A path \in W!ToSet(paths) : path \in Seq(Names) /\ SpelledAt(path) BY PathsAre
<1>2. paths # <<>> /\ <<W!Dot>> \notin W!ToSet(paths) BY <1>1 DEF Whole
<1>3. Given(asked) = {PlaceOf(asked, path) : path \in W!ToSet(paths)} BY <1>1, <1>2, Zenon DEF Given, PlaceOf
<1>4. ASSUME NEW path \in W!ToSet(paths) \ {<<>>, <<W!Root>>}, W!IsPrefix(path, KeyOf(engine, f)) PROVE FALSE
  <2>1. Under(PlaceOf(asked, path), f) BY <1>1, <1>4, KeptApart
  <2>2. PlaceOf(asked, path) \in Given(asked) BY <1>3
  <2> QED BY <2>1, <2>2
<1> QED BY <1>2, <1>4 DEF W!Unseen, W!Whole

Wants(asked, engine) == UNION {Wanted(asked, engine, dir) : dir \in {d \in Given(asked) : W!IsDir(asked.tree, d)}}

\* A call takes what it is to find, and beyond it the files that were named.
LEMMA AllFilesIs ==
    ASSUME NEW asked, CallOk(asked), NEW engine
    PROVE  /\ Wants(asked, engine) \subseteq AllFiles(asked, engine)
           /\ AllFiles(asked, engine) \subseteq Wants(asked, engine) \cup Given(asked)
           /\ Given(asked) \cap asked.tree \subseteq AllFiles(asked, engine)
<1> DEFINE n == Len(InputsOf(asked))
           place(k) == PlaceOf(asked, InputsOf(asked)[k])
           files(k) == FilesOf(asked, engine, InputsOf(asked)[k])
<1>1. Given(asked) = {place(k) : k \in 1..n} BY InputsAre
<1>2. \A k : files(k) = IF place(k) \in asked.tree THEN {place(k)}
                        ELSE IF W!IsDir(asked.tree, place(k)) THEN Wanted(asked, engine, place(k)) ELSE {}
  BY DEF FilesOf
<1>3. AllFiles(asked, engine) = UNION {files(k) : k \in 1..n} BY DEF AllFiles
<1>4. \A f \in asked.tree : ~W!IsDir(asked.tree, f) BY DEF CallOk
<1> HIDE DEF n, place, files
<1>5. ASSUME NEW f \in Wants(asked, engine) PROVE f \in AllFiles(asked, engine)
  <2>1. PICK d \in Given(asked) : W!IsDir(asked.tree, d) /\ f \in Wanted(asked, engine, d) BY DEF Wants
  <2>2. PICK k \in 1..n : d = place(k) BY <1>1
  <2>3. f \in files(k) BY <1>2, <1>4, <2>1, <2>2
  <2> QED BY <1>3, <2>3
<1>6. ASSUME NEW f \in AllFiles(asked, engine) PROVE f \in Wants(asked, engine) \cup Given(asked)
  <2>1. PICK k \in 1..n : f \in files(k) BY <1>3
  <2>2. place(k) \in Given(asked) BY <1>1
  <2>3. f = place(k) \/ (W!IsDir(asked.tree, place(k)) /\ f \in Wanted(asked, engine, place(k))) BY <1>2, <2>1
  <2> QED BY <2>2, <2>3 DEF Wants
<1>7. ASSUME NEW f \in Given(asked) \cap asked.tree PROVE f \in AllFiles(asked, engine)
  <2>1. PICK k \in 1..n : f = place(k) BY <1>1
  <2> QED BY <1>2, <1>3, <2>1
<1> QED BY <1>5, <1>6, <1>7

\* The files that documents were read from, and those below some directories.
Files(rows) == {doc.file : doc \in rows}
Beneath(set, where) == {file \in set : \E dir \in where : IsPrefix(dir, file)}

Settled(asked, engine, first, second) ==
    /\ Wants(asked, engine) \subseteq Files(second)
    /\ \/ Beneath(Files(second), Named(asked, engine)) \subseteq Wants(asked, engine) \cup Given(asked)
       \/ /\ asked.brief /\ ~Whole(asked) /\ second = first
          /\ Wants(asked, engine) \cup (Given(asked) \cap asked.tree) \subseteq Files(first) \ asked.edited
    /\ ~Whole(asked) => Files(first) \ Beneath(Files(first), Given(asked)) \subseteq Files(second)
    /\ \A d, e \in second : d.file = e.file => d = e

LEMMA FirstIs ==
    ASSUME NEW one, CallOk(one), NEW engine, engine.cwd = one.cwd
    PROVE  W!Index(engine, {}, one) = {RowOf(engine, f) : f \in AllFiles(one, engine)}
<1> DEFINE none == {}
           rows == {RowOf(engine, f) : f \in AllFiles(one, engine)}
           dropped == {KeyOf(engine, f) : f \in AllFiles(one, engine)}
           left == {doc \in none : doc.key \notin dropped /\ ~W!Unseen(engine, one.tree, one.paths, dropped, doc.key)}
<1>1. ~W!Unchanged(none, rows, one.edited, one.paths) BY DEF W!Unchanged
<1>2. left = {} OBVIOUS
<1> HIDE DEF none
<1>3. W!Index(engine, none, one) = After(one, engine, none) BY IndexIs
<1>4. After(one, engine, none) = left \cup rows BY <1>1 DEF After
<1> QED BY <1>2, <1>3, <1>4 DEF none

\* A call that finds nothing to do has the documents that it was to find.
LEMMA SettlesIdle ==
    ASSUME NEW one, CallOk(one), NEW asked, CallOk(asked), NEW engine, engine.cwd = one.cwd, engine.cwd = asked.cwd,
           NEW first, first = {RowOf(engine, f) : f \in AllFiles(one, engine)}, asked.brief,
           W!Unchanged(first, {RowOf(engine, f) : f \in AllFiles(asked, engine)}, asked.edited, asked.paths)
    PROVE  Settled(asked, engine, first, first)
<1> DEFINE earlier == AllFiles(one, engine)
           after == AllFiles(asked, engine)
           row(f) == RowOf(engine, f)
           key(f) == KeyOf(engine, f)
           rows == {RowOf(engine, f) : f \in AllFiles(asked, engine)}
           keys == {r.key : r \in rows}
<1>1. \A f : row(f).key = key(f) /\ row(f).file = f BY DEF RowOf
<1>2. \A r \in rows : r \in first /\ r.file \notin asked.edited BY DEF W!Unchanged
<1>3. Whole(asked) => \A doc \in first : doc.key \in keys
  <2>1. Whole(asked) => W!Whole(asked.paths) BY PathsAre DEF Whole, W!Whole
  <2> QED BY <2>1 DEF W!Unchanged
<1>4. engine.cwd \in Seq(Names) BY DEF CallOk
<1>5. \A f \in earlier \cup after : f \in Seq(Names) /\ Plain(f)
  <2>1. earlier \subseteq one.tree /\ after \subseteq asked.tree BY AllFilesAre
  <2> QED BY <2>1 DEF CallOk
<1>6. /\ Wants(asked, engine) \subseteq after /\ after \subseteq Wants(asked, engine) \cup Given(asked)
      /\ Given(asked) \cap asked.tree \subseteq after
  BY AllFilesIs
<1>7. \A doc \in first : \E f \in earlier : doc = row(f) OBVIOUS
<1>8. \A f \in after : row(f) \in rows OBVIOUS
<1>9. \A r \in rows : \E f \in after : r = row(f) OBVIOUS
<1>10. \A k \in keys : \E r \in rows : k = r.key OBVIOUS
<1> HIDE DEF earlier, after, row, key, rows, keys
<1>11. after \subseteq Files(first) \ asked.edited
  <2> SUFFICES ASSUME NEW f \in after PROVE f \in Files(first) \ asked.edited OBVIOUS
  <2>1. row(f) \in first /\ row(f).file = f /\ f \notin asked.edited BY <1>1, <1>2, <1>8
  <2> QED BY <2>1 DEF Files
<1>12. ASSUME Whole(asked), NEW f \in Files(first) PROVE f \in after
  <2>1. PICK doc \in first : f = doc.file BY DEF Files
  <2>2. f \in earlier /\ doc = row(f) BY <1>1, <1>7, <2>1
  <2>3. PICK r \in rows : doc.key = r.key BY <1>3, <1>10, <1>12
  <2>4. PICK g \in after : r = row(g) BY <1>9
  <2>5. key(f) = key(g) BY <1>1, <2>2, <2>3, <2>4
  <2>6. f = g BY <1>4, <1>5, <2>2, <2>5, KeysDiffer DEF key
  <2> QED BY <2>6
<1>13. \/ Beneath(Files(first), Named(asked, engine)) \subseteq Wants(asked, engine) \cup Given(asked)
       \/ /\ asked.brief /\ ~Whole(asked) /\ first = first
          /\ Wants(asked, engine) \cup (Given(asked) \cap asked.tree) \subseteq Files(first) \ asked.edited
  <2>1. Beneath(Files(first), Named(asked, engine)) \subseteq Files(first) BY DEF Beneath
  <2>2. CASE Whole(asked) BY <1>6, <1>12, <2>1, <2>2
  <2>3. CASE ~Whole(asked) BY <1>6, <1>11, <2>3
  <2> QED BY <2>2, <2>3
<1>14. \A d, e \in first : d.file = e.file => d = e
  <2>1. \A doc \in first : doc = row(doc.file) BY <1>1, <1>7
  <2> QED BY <2>1
<1> QED BY <1>6, <1>11, <1>13, <1>14 DEF Settled

\* Two calls one after the other, whatever they were given.
LEMMA Settles ==
    ASSUME NEW one, CallOk(one), NEW asked, CallOk(asked), NEW engine, engine.cwd = one.cwd, engine.cwd = asked.cwd,
           NEW first, first = W!Index(engine, {}, one),
           NEW second, second = W!Index(engine, first, asked)
    PROVE  Settled(asked, engine, first, second)
<1> DEFINE earlier == AllFiles(one, engine)
           after == AllFiles(asked, engine)
           row(f) == RowOf(engine, f)
           key(f) == KeyOf(engine, f)
           seen == {KeyOf(engine, f) : f \in AllFiles(asked, engine)}
           unseen(k) == W!Unseen(engine, asked.tree, asked.paths, seen, k)
           kept == {doc \in first : doc.key \notin seen /\ ~W!Unseen(engine, asked.tree, asked.paths, seen, doc.key)}
<1>1. \A f : row(f).key = key(f) /\ row(f).file = f BY DEF RowOf
<1>2. first = {row(f) : f \in earlier} BY FirstIs
<1> DEFINE idle == /\ asked.brief
                   /\ W!Unchanged(first, {RowOf(engine, f) : f \in AllFiles(asked, engine)}, asked.edited, asked.paths)
<1>3. second = IF idle THEN first ELSE kept \cup {row(f) : f \in after}
  <2>1. second = After(asked, engine, first) BY IndexIs
  <2> QED BY <2>1 DEF After
<1>4. CASE idle BY <1>2, <1>3, <1>4, SettlesIdle
<1> SUFFICES ASSUME ~idle PROVE Settled(asked, engine, first, second) BY <1>4
<1>5. second = kept \cup {row(f) : f \in after} BY <1>3
<1>6. earlier \subseteq one.tree /\ after \subseteq asked.tree BY AllFilesAre
<1>7. engine.cwd \in Seq(Names) BY DEF CallOk
<1>8. \A f \in earlier \cup after : f \in Seq(Names) /\ Plain(f) BY <1>6 DEF CallOk
<1>9. \A k : k \in seen <=> \E f \in after : k = key(f) OBVIOUS
<1>10. \A doc : doc \in kept <=> doc \in first /\ doc.key \notin seen /\ ~unseen(doc.key) OBVIOUS
<1>11. Wants(asked, engine) \subseteq after /\ after \subseteq Wants(asked, engine) \cup Given(asked) BY AllFilesIs
<1> HIDE DEF earlier, after, row, key, seen, unseen, kept, idle
<1>12. \A doc \in second : (doc \in kept /\ \E f \in earlier : doc = row(f)) \/ \E f \in after : doc = row(f)
  BY <1>2, <1>5, <1>10
<1>13. after \subseteq Files(second)
  <2> SUFFICES ASSUME NEW f \in after PROVE f \in Files(second) OBVIOUS
  <2>1. row(f) \in second /\ row(f).file = f BY <1>1, <1>5
  <2> QED BY <2>1 DEF Files
<1>14. ASSUME NEW f \in Beneath(Files(second), Named(asked, engine)) PROVE f \in after
  <2>1. PICK doc \in second : f = doc.file BY DEF Beneath, Files
  <2>2. PICK dir \in Named(asked, engine) : IsPrefix(dir, f) BY DEF Beneath
  <2>3. CASE doc \in kept /\ \E g \in earlier : doc = row(g)
    <3>1. f \in earlier /\ doc = row(f) BY <1>1, <2>1, <2>3
    <3>2. f \in Seq(Names) BY <1>8, <3>1
    <3>3. dir \in Seq(Names)
      <4>1. dir \in Given(asked) BY DEF Named
      <4> QED BY <4>1, PlacesPlain
    <3>4. Under(dir, f) BY <2>2, <3>2, <3>3, PrefixIs
    <3>5. key(f) \notin seen /\ ~unseen(key(f)) BY <1>1, <1>10, <2>3, <3>1
    <3>6. unseen(key(f)) BY <3>2, <3>4, <3>5, Drops DEF unseen, key
    <3> QED BY <3>5, <3>6
  <2>4. CASE \E g \in after : doc = row(g) BY <1>1, <2>1, <2>4
  <2> QED BY <1>12, <2>3, <2>4
<1>15. ASSUME ~Whole(asked), NEW f \in Files(first) \ Beneath(Files(first), Given(asked)) PROVE f \in Files(second)
  <2>1. f \in earlier /\ row(f) \in first BY <1>1, <1>2 DEF Files
  <2>2. f \in Seq(Names) /\ Plain(f) BY <1>8, <2>1
  <2>3. CASE key(f) \in seen
    <3>1. PICK g \in after : key(f) = key(g) BY <1>9, <2>3
    <3>2. g \in Seq(Names) /\ Plain(g) BY <1>8
    <3>3. f = g BY <1>7, <2>2, <3>1, <3>2, KeysDiffer DEF key
    <3> QED BY <1>13, <3>3
  <2>4. CASE key(f) \notin seen
    <3>1. \A dir \in Given(asked) : ~Under(dir, f)
      <4> SUFFICES ASSUME NEW dir \in Given(asked), Under(dir, f) PROVE FALSE OBVIOUS
      <4>1. dir \in Seq(Names) BY PlacesPlain
      <4>2. IsPrefix(dir, f) BY <2>2, <4>1, PrefixIs
      <4> QED BY <1>15, <4>2 DEF Beneath
    <3>2. ~unseen(key(f)) BY <1>15, <2>2, <3>1, Keeps DEF unseen, key
    <3>3. row(f) \in second BY <1>1, <1>5, <1>10, <2>1, <2>4, <3>2
    <3> QED BY <1>1, <3>3 DEF Files
  <2> QED BY <2>3, <2>4
<1>16. \A d, e \in second : d.file = e.file => d = e
  <2>1. \A doc \in second : \E f : doc = row(f) BY <1>12
  <2>2. \A doc \in second : doc = row(doc.file) BY <1>1, <2>1
  <2> QED BY <2>2
<1> QED BY <1>11, <1>13, <1>14, <1>15, <1>16 DEF Settled

\* What the answer to a scene is to be.
SettledFor(scene, result) ==
    scene.calls[1].cwd = scene.calls[2].cwd
        => Settled(scene.calls[2], result.engine, result.first, result.second)

WalkInv ==
    /\ task = "walk" /\ input \in Scenes
    /\ done => SettledFor(input, answer)

LEMMA WalkStarts ==
    ASSUME WalkInputs
    PROVE  WalkInv
BY DEF WalkInputs, Chosen, WalkInv

LEMMA WalkAnswers ==
    ASSUME \A scene \in Scenes : \A asked \in CallsOf(scene) : Proper(asked), WalkInv, Walk
    PROVE  WalkInv'
<1> DEFINE one == input.calls[1]
           asked == input.calls[2]
           engine(k) == W!Open(input.places, input.calls[k].cwd)
           index(k, rows) == W!Index(engine(k), rows, input.calls[k])
<1>1. task = "walk" /\ input \in Scenes BY DEF WalkInv
<1>2. task' = task /\ input' = input BY DEF Walk, Runs
<1>3. /\ answer'.engine = engine(2) /\ answer'.first = index(1, {}) /\ answer'.second = index(2, answer'.first)
  BY DEF Walk
<1>4. CallOk(one) /\ CallOk(asked)
  <2>1. one \in CallsOf(input) /\ asked \in CallsOf(input) BY DEF CallsOf
  <2> QED BY <1>1, <2>1, CallIsOk
<1>5. \A k : engine(k).cwd = input.calls[k].cwd BY DEF W!Open
<1>6. ASSUME one.cwd = asked.cwd PROVE Settled(asked, answer'.engine, answer'.first, answer'.second)
  <2>1. engine(1) = engine(2) /\ engine(2).cwd = asked.cwd BY <1>5, <1>6
  <2> HIDE DEF engine
  <2>2. /\ answer'.first = W!Index(engine(2), {}, one)
        /\ answer'.second = W!Index(engine(2), answer'.first, asked)
    BY <1>3, <2>1
  <2> HIDE DEF one, asked
  <2> QED BY <1>3, <1>4, <1>6, <2>1, <2>2, Settles
<1>7. SettledFor(input, answer') BY <1>6 DEF SettledFor
<1> QED BY <1>1, <1>2, <1>7 DEF WalkInv

\* Of every two index calls from one directory (collect, drop_unseen), by the
\* code of walk_dir, rel_of and is_ignored: the second leaves under the places
\* it was given the documents of the files that a walk is to find there and of
\* those it names, keeps the others, and never holds a file twice.  Only a call
\* for a part of the project that read document rows alone may leave it as it
\* was, and then every file that it is to find is known and unedited
\* (index_if_unchanged).
THEOREM WalkSettled == WalkInputs /\ [][Walk]_taskVars => []WalkSettles
<1>1. WalkInputs => WalkInv BY WalkStarts
<1>2. WalkInv /\ [Walk]_taskVars => WalkInv'
  <2> SUFFICES ASSUME WalkInv, [Walk]_taskVars PROVE WalkInv' OBVIOUS
  <2>1. CASE Walk BY <2>1, ScenesAssumption, WalkAnswers
  <2>2. CASE UNCHANGED taskVars BY <2>2 DEF taskVars, WalkInv
  <2> QED BY <2>1, <2>2
<1>3. WalkInv => WalkSettles
  BY Zenon DEF WalkInv, WalkSettles, Answered, SettledFor, Settled, Files, Beneath, Wants
<1> QED BY <1>1, <1>2, <1>3, PTL

-----------------------------------------------------------------------------
(***************************************************************************)
(* What follows the symbol graph (SymbolGraph, GraphTasks), for any graph. *)
(*                                                                         *)
(* The search keeps its queue in the order of the distances, which are no  *)
(* two apart, gives each chunk it has looked at its distance, and has in   *)
(* the queue or behind it whoever refers to one of them: so whoever is     *)
(* nearer than the next entry has been looked at.  Each step leaves less   *)
(* ahead of it, in entries and edges, than the one before: the steps that  *)
(* Impact takes are enough.  The sets of those within n steps are those of *)
(* the reference definition.                                               *)
(***************************************************************************)

\* SymbolGraph counts as this module does.
LEMMA SameCount == \A S : G!Cardinality(S) = Cardinality(S)
BY Zenon DEF G!Cardinality, Cardinality

LEMMA Listed ==
    ASSUME NEW S, IsFiniteSet(S)
    PROVE  /\ G!SetToSeq(S) \in Seq(S) /\ Len(G!SetToSeq(S)) = Cardinality(S) /\ Cardinality(S) \in Nat
           /\ \A x \in S : \E i \in 1..Cardinality(S) : G!SetToSeq(S)[i] = x
<1> DEFINE n == Cardinality(S)
           list == G!SetToSeq(S)
<1>1. n \in Nat /\ ExistsBijection(1..n, S) BY FS_CardinalityType
<1>2. \E f \in [1..n -> S] : G!IsInjective(f)
  <2> HIDE DEF n
  <2>1. PICK f \in Bijection(1..n, S) : TRUE BY <1>1 DEF ExistsBijection
  <2>2. f \in Injection(1..n, S) BY <2>1 DEF Bijection
  <2>3. f \in [1..n -> S] /\ \A a, b \in DOMAIN f : f[a] = f[b] => a = b BY <2>2 DEF Injection, IsInjective
  <2>4. G!IsInjective(f) BY <2>3, Zenon DEF G!IsInjective
  <2> QED BY <2>3, <2>4, Zenon
<1>3. list = CHOOSE f \in [1..n -> S] : G!IsInjective(f) BY SameCount, Zenon DEF G!SetToSeq
<1> HIDE DEF n, list
<1>4. list \in [1..n -> S] /\ G!IsInjective(list) BY <1>2, <1>3, Zenon
<1>5. list \in Injection(1..n, S) BY <1>4 DEF Injection, IsInjective, G!IsInjective
<1>6. Cardinality(1..n) = n BY <1>1, FS_Interval
<1>7. list \in Surjection(1..n, S) BY <1>5, <1>6, FS_Injection DEF n
<1>8. \A x \in S : \E i \in 1..n : list[i] = x BY <1>7 DEF Surjection
<1>9. list \in Seq(S) /\ Len(list) = n BY <1>1, <1>4
<1> QED BY <1>1, <1>8, <1>9 DEF n, list

\* What refers to a chunk, and what a search holds: the chunks to look at and
\* the distances so far.
Callers(edges, id) == {edge.source : edge \in {e \in edges : e.target = id}}
Into(edges, id) == {e \in edges : e.target = id}
Entry(Id) == [id : Id, hop : Nat]
State(Id) == [queue : Seq(Entry(Id)), hops : UNION {[D -> Nat] : D \in SUBSET Id}]
Sources(edges, Id) == \A e \in edges : e.source \in Id

LEMMA CallersFinite ==
    ASSUME NEW edges, IsFiniteSet(edges), NEW id
    PROVE  /\ IsFiniteSet(Callers(edges, id)) /\ IsFiniteSet(Into(edges, id))
           /\ Cardinality(Callers(edges, id)) \in Nat /\ Cardinality(Into(edges, id)) \in Nat
           /\ Cardinality(Callers(edges, id)) <= Cardinality(Into(edges, id))
<1> DEFINE S == Into(edges, id)
           U == Callers(edges, id)
           f == [e \in S |-> e.source]
<1>1. S \in SUBSET edges BY DEF Into
<1>2. IsFiniteSet(S) BY <1>1, FS_Subset
<1>3. U = {e.source : e \in S} BY DEF Callers, Into
<1> HIDE DEF S, U
<1>4. f \in Surjection(S, U) BY <1>3 DEF Surjection
<1>5. IsFiniteSet(U) /\ Cardinality(U) <= Cardinality(S) BY <1>2, <1>4, FS_Surjection
<1>6. Cardinality(U) \in Nat /\ Cardinality(S) \in Nat BY <1>2, <1>5, FS_CardinalityType
<1> QED BY <1>2, <1>5, <1>6 DEF S, U

\* One step of the search, by cases.
NextEntries(edges, depth, at, list) ==
    IF at.hop < depth THEN [i \in DOMAIN list |-> [id |-> list[i], hop |-> at.hop + 1]] ELSE <<>>
Put(hops, at) == [id \in DOMAIN hops \cup {at.id} |-> IF id = at.id THEN at.hop ELSE hops[id]]

LEMMA StepIs ==
    ASSUME NEW edges, IsFiniteSet(edges), NEW Id, Sources(edges, Id), NEW depth \in Nat, NEW acc \in State(Id)
    PROVE  LET after == G!ImpactStep(edges, depth, acc)
               at == Head(acc.queue)
               callers == G!SetToSeq(Callers(edges, at.id))
           IN  /\ after \in State(Id)
               /\ acc.queue = <<>> => after = acc
               /\ acc.queue # <<>> => at \in Entry(Id)
               /\ acc.queue # <<>> /\ (at.hop > depth \/ at.id \in DOMAIN acc.hops)
                      => after.queue = Tail(acc.queue) /\ after.hops = acc.hops
               /\ acc.queue # <<>> /\ ~(at.hop > depth \/ at.id \in DOMAIN acc.hops)
                      => after.queue = Tail(acc.queue) \o NextEntries(edges, depth, at, callers) /\ after.hops = Put(acc.hops, at)
<1> DEFINE after == G!ImpactStep(edges, depth, acc)
           at == Head(acc.queue)
           rest == Tail(acc.queue)
           callers == G!SetToSeq(Callers(edges, at.id))
           new == NextEntries(edges, depth, at, callers)
<1>1. acc.queue \in Seq(Entry(Id)) /\ acc.hops \in UNION {[D -> Nat] : D \in SUBSET Id} BY DEF State
<1>2. acc = [queue |-> acc.queue, hops |-> acc.hops] BY DEF State
<1>3. CASE acc.queue = <<>>
  <2>1. after = acc BY <1>3 DEF G!ImpactStep
  <2> QED BY <1>3, <2>1
<1>4. ASSUME acc.queue # <<>> PROVE at \in Entry(Id) /\ rest \in Seq(Entry(Id)) BY <1>1, <1>4, HeadTailProperties
<1>5. CASE acc.queue # <<>> /\ (at.hop > depth \/ at.id \in DOMAIN acc.hops)
  <2>1. after = [acc EXCEPT !.queue = rest] BY <1>5, Zenon DEF G!ImpactStep
  <2>2. after = [queue |-> rest, hops |-> acc.hops] BY <1>2, <2>1
  <2>3. after \in State(Id) BY <1>1, <1>4, <1>5, <2>2 DEF State
  <2> HIDE DEF after
  <2>4. after.queue = rest /\ after.hops = acc.hops BY <2>2
  <2> QED BY <1>4, <1>5, <2>3, <2>4, Zenon DEF after
<1>6. CASE acc.queue # <<>> /\ ~(at.hop > depth \/ at.id \in DOMAIN acc.hops)
  <2>1. after = [queue |-> rest \o new, hops |-> Put(acc.hops, at)]
    BY <1>6, Zenon DEF G!ImpactStep, Callers, NextEntries, Put
  <2>2. at \in Entry(Id) /\ at.id \in Id /\ at.hop \in Nat /\ rest \in Seq(Entry(Id)) BY <1>4, <1>6 DEF Entry
  <2>3. IsFiniteSet(Callers(edges, at.id)) BY CallersFinite
  <2>4. callers \in Seq(Callers(edges, at.id)) BY <2>3, Listed
  <2>5. Callers(edges, at.id) \subseteq Id BY DEF Callers, Sources
  <2>6. Len(callers) \in Nat /\ DOMAIN callers = 1..Len(callers) /\ \A i \in DOMAIN callers : callers[i] \in Id BY <2>4, <2>5
  <2> HIDE DEF at, rest, callers, after
  <2>7. new \in Seq(Entry(Id))
    <3>1. CASE at.hop < depth
      <4>1. new = [i \in 1..Len(callers) |-> [id |-> callers[i], hop |-> at.hop + 1]] BY <2>6, <3>1 DEF NextEntries
      <4>2. \A i \in 1..Len(callers) : [id |-> callers[i], hop |-> at.hop + 1] \in Entry(Id) BY <2>2, <2>6 DEF Entry
      <4> HIDE DEF new
      <4> QED BY <2>6, <4>1, <4>2
    <3>2. CASE ~(at.hop < depth) BY <3>2 DEF NextEntries
    <3> QED BY <3>1, <3>2
  <2>8. rest \o new \in Seq(Entry(Id))
    <3> HIDE DEF new
    <3> QED BY <2>2, <2>7, ConcatProperties
  <2>9. Put(acc.hops, at) \in UNION {[D -> Nat] : D \in SUBSET Id}
    <3>1. PICK D \in SUBSET Id : acc.hops \in [D -> Nat] BY <1>1
    <3>2. D \cup {at.id} \in SUBSET Id BY <2>2
    <3>3. Put(acc.hops, at) \in [D \cup {at.id} -> Nat] BY <2>2, <3>1 DEF Put
    <3> QED BY <3>2, <3>3
  <2> HIDE DEF new
  <2>10. after \in State(Id) BY <2>1, <2>8, <2>9 DEF State
  <2>11. after.queue = rest \o new /\ after.hops = Put(acc.hops, at) BY <2>1
  <2> QED BY <1>6, <2>2, <2>10, <2>11, Zenon DEF new, at, rest, callers, after
<1> QED BY <1>3, <1>5, <1>6

\* Who is how near: within n steps of the first, one set for each n.
Widens(edges, Within) ==
    \A n \in Nat : Within[n + 1] = Within[n] \cup {e.source : e \in {f \in edges : f.target \in Within[n]}}

LEMMA WithinGrows ==
    ASSUME NEW edges, NEW Within, Widens(edges, Within), NEW n \in Nat, NEW m \in 0..n
    PROVE  Within[m] \subseteq Within[n]
<1> DEFINE good == {k \in Nat : Within[m] \subseteq Within[m + k]}
<1>1. 0 \in good
  <2>1. m + 0 = m OBVIOUS
  <2> QED BY <2>1
<1>2. ASSUME NEW k \in 0..n, k \in good PROVE k + 1 \in good
  <2>1. m + k \in Nat /\ (m + k) + 1 = m + (k + 1) /\ k + 1 \in Nat OBVIOUS
  <2>2. Within[m + k] \subseteq Within[(m + k) + 1] BY <2>1 DEF Widens
  <2> QED BY <1>2, <2>1, <2>2
<1> HIDE DEF good
<1>3. \A k \in 0..n : k \in good
  <2>1. \A k \in 0..n - 1 : k \in good => k + 1 \in good BY <1>2
  <2> QED BY <1>1, <2>1, Upto
<1>4. n - m \in 0..n /\ m + (n - m) = n OBVIOUS
<1>5. n - m \in good BY <1>3, <1>4
<1> QED BY <1>4, <1>5 DEF good

\* The search holds the entries in the order of their distances, which are no
\* two apart; those looked at are at their distance; and who refers to one of
\* them, or is a seed, has been looked at or is to be.
NearestFirst(queue) ==
    \A i, j \in 1..Len(queue) : i <= j => queue[i].hop <= queue[j].hop /\ queue[j].hop <= queue[i].hop + 1
AllNear(queue, Within, depth) == \A i \in 1..Len(queue) : queue[i].hop <= depth /\ queue[i].id \in Within[queue[i].hop]
Exact(hops, Within, depth) ==
    \A x \in DOMAIN hops : hops[x] <= depth /\ x \in Within[hops[x]] /\ \A m \in Nat : m < hops[x] => x \notin Within[m]
Queued(queue, x, n) == \E i \in 1..Len(queue) : queue[i].id = x /\ queue[i].hop <= n
Seeded(queue, hops, Within) == \A x \in Within[0] : x \in DOMAIN hops \/ Queued(queue, x, 0)
Followed(queue, hops, edges, depth) ==
    \A e \in edges : e.target \in DOMAIN hops /\ hops[e.target] < depth
                         => e.source \in DOMAIN hops \/ Queued(queue, e.source, hops[e.target] + 1)
Searching(acc, edges, Within, depth) ==
    /\ NearestFirst(acc.queue) /\ AllNear(acc.queue, Within, depth) /\ Exact(acc.hops, Within, depth)
    /\ Seeded(acc.queue, acc.hops, Within) /\ Followed(acc.queue, acc.hops, edges, depth)

LEMMA QueueIs ==
    ASSUME NEW Id, NEW queue \in Seq(Entry(Id))
    PROVE  Len(queue) \in Nat /\ \A i \in 1..Len(queue) : queue[i] \in Entry(Id) /\ queue[i].hop \in Nat /\ queue[i].id \in Id
<1>1. \A i \in 1..Len(queue) : queue[i] \in Entry(Id) OBVIOUS
<1> QED BY <1>1 DEF Entry

LEMMA HopsAre ==
    ASSUME NEW Id, NEW hops \in UNION {[D -> Nat] : D \in SUBSET Id}
    PROVE  DOMAIN hops \subseteq Id /\ \A x \in DOMAIN hops : hops[x] \in Nat
OBVIOUS

\* Whoever is nearer than the next entry has been looked at.
LEMMA Covered ==
    ASSUME NEW edges, NEW Within, Widens(edges, Within), NEW depth \in Nat, NEW Id, NEW acc \in State(Id),
           Searching(acc, edges, Within, depth), NEW n \in 0..depth,
           acc.queue # <<>> => n < Head(acc.queue).hop
    PROVE  Within[n] \subseteq DOMAIN acc.hops
<1> DEFINE queue == acc.queue
           hops == acc.hops
           good == {k \in Nat : Within[k] \subseteq DOMAIN hops}
<1>1. queue \in Seq(Entry(Id)) /\ hops \in UNION {[D -> Nat] : D \in SUBSET Id} BY DEF State
<1>2. /\ NearestFirst(queue) /\ Exact(hops, Within, depth)
      /\ Seeded(queue, hops, Within) /\ Followed(queue, hops, edges, depth)
  BY DEF Searching
<1> HIDE DEF queue, hops
<1>3. \A x \in DOMAIN hops : hops[x] \in Nat BY <1>1, HopsAre
<1>4. ASSUME NEW x, NEW k \in 0..n PROVE ~Queued(queue, x, k)
  <2> SUFFICES ASSUME NEW i \in 1..Len(queue), queue[i].hop <= k PROVE FALSE BY DEF Queued
  <2>1. Len(queue) \in Nat /\ \A j \in 1..Len(queue) : queue[j].hop \in Nat BY <1>1, QueueIs
  <2>2. queue # <<>> /\ 1 \in 1..Len(queue) /\ 1 <= i BY <1>1, <2>1
  <2>3. queue[1].hop <= queue[i].hop BY <1>2, <2>2 DEF NearestFirst
  <2>4. Head(queue) = queue[1] BY <1>1, <2>2
  <2>5. n < queue[1].hop BY <2>2, <2>4 DEF queue
  <2> QED BY <2>1, <2>2, <2>3, <2>5
<1>5. 0 \in good
  <2>1. 0 \in 0..n OBVIOUS
  <2>2. \A x \in Within[0] : x \in DOMAIN hops BY <1>2, <1>4, <2>1 DEF Seeded
  <2> QED BY <2>2
<1>6. ASSUME NEW k \in 0..n - 1, k \in good PROVE k + 1 \in good
  <2>1. k \in Nat /\ k + 1 \in 0..n /\ k < depth OBVIOUS
  <2>2. Within[k + 1] = Within[k] \cup {e.source : e \in {f \in edges : f.target \in Within[k]}} BY <2>1 DEF Widens
  <2>3. ASSUME NEW e \in edges, e.target \in Within[k] PROVE e.source \in DOMAIN hops
    <3>1. e.target \in DOMAIN hops /\ hops[e.target] \in Nat BY <1>3, <1>6, <2>3
    <3>2. hops[e.target] <= k BY <1>2, <2>1, <2>3, <3>1 DEF Exact
    <3>3. hops[e.target] + 1 \in 0..n /\ hops[e.target] < depth BY <2>1, <3>1, <3>2
    <3>4. ~Queued(queue, e.source, hops[e.target] + 1) BY <1>4, <3>3
    <3> QED BY <1>2, <3>1, <3>3, <3>4 DEF Followed
  <2>4. Within[k] \subseteq DOMAIN hops BY <1>6
  <2>5. Within[k + 1] \subseteq DOMAIN hops BY <2>2, <2>3, <2>4
  <2> QED BY <2>1, <2>5
<1> HIDE DEF good
<1>7. \A k \in 0..n : k \in good
  <2>1. \A k \in 0..n - 1 : k \in good => k + 1 \in good BY <1>6
  <2> QED BY <1>5, <2>1, Upto
<1>8. n \in good BY <1>7
<1> QED BY <1>8 DEF good, hops

\* The queue after a step: the first entry goes, those one step on come last.
Moves(queue, after, Within, depth) ==
    /\ Len(after) >= Len(queue) - 1
    /\ \A i \in 1..Len(queue) - 1 : after[i] = queue[i + 1]
    /\ \A i \in Len(queue)..Len(after) :
           after[i].hop = queue[1].hop + 1 /\ after[i].hop <= depth /\ after[i].id \in Within[after[i].hop]

LEMMA QueueMoves ==
    ASSUME NEW Id, NEW queue \in Seq(Entry(Id)), queue # <<>>, NEW after \in Seq(Entry(Id)),
           NEW Within, NEW depth \in Nat, NearestFirst(queue), AllNear(queue, Within, depth), Moves(queue, after, Within, depth)
    PROVE  /\ NearestFirst(after) /\ AllNear(after, Within, depth)
           /\ \A x : \A n \in Nat : Queued(queue, x, n) => x = queue[1].id \/ Queued(after, x, n)
<1>1. Len(queue) \in Nat /\ Len(queue) >= 1 /\ \A i \in 1..Len(queue) : queue[i].hop \in Nat BY QueueIs
<1>2. Len(after) \in Nat /\ \A i \in 1..Len(after) : after[i].hop \in Nat BY QueueIs
<1>3. \A i \in 1..Len(after) : i < Len(queue) => after[i] = queue[i + 1] /\ i + 1 \in 1..Len(queue) BY <1>1, <1>2 DEF Moves
<1>4. \A i \in 1..Len(after) : i >= Len(queue) => after[i].hop = queue[1].hop + 1 /\ after[i].hop <= depth
                                                  /\ after[i].id \in Within[after[i].hop]
  BY <1>1, <1>2 DEF Moves
<1>5. \A i \in 1..Len(queue) : queue[1].hop <= queue[i].hop /\ queue[i].hop <= queue[1].hop + 1 BY <1>1 DEF NearestFirst
<1>6. NearestFirst(after)
  <2> SUFFICES ASSUME NEW i \in 1..Len(after), NEW j \in 1..Len(after), i <= j
               PROVE  after[i].hop <= after[j].hop /\ after[j].hop <= after[i].hop + 1
      BY DEF NearestFirst
  <2>1. CASE j < Len(queue)
    <3>1. after[i] = queue[i + 1] /\ after[j] = queue[j + 1] /\ i + 1 \in 1..Len(queue) /\ j + 1 \in 1..Len(queue)
      BY <1>1, <1>2, <1>3, <2>1
    <3> QED BY <3>1 DEF NearestFirst
  <2>2. CASE j >= Len(queue) /\ i < Len(queue)
    <3>1. after[i] = queue[i + 1] /\ i + 1 \in 1..Len(queue) BY <1>3, <2>2
    <3>2. after[j].hop = queue[1].hop + 1 BY <1>4, <2>2
    <3>3. queue[1].hop <= queue[i + 1].hop /\ queue[i + 1].hop <= queue[1].hop + 1 BY <1>5, <3>1
    <3>4. queue[1].hop \in Nat /\ queue[i + 1].hop \in Nat BY <1>1, <3>1
    <3> QED BY <3>1, <3>2, <3>3, <3>4
  <2>3. CASE j >= Len(queue) /\ i >= Len(queue)
    <3>1. after[j].hop = queue[1].hop + 1 /\ after[i].hop = queue[1].hop + 1 /\ queue[1].hop \in Nat BY <1>1, <1>4, <2>3
    <3> QED BY <3>1
  <2> QED BY <1>1, <1>2, <2>1, <2>2, <2>3
<1>7. AllNear(after, Within, depth)
  <2> SUFFICES ASSUME NEW i \in 1..Len(after) PROVE after[i].hop <= depth /\ after[i].id \in Within[after[i].hop] BY DEF AllNear
  <2>1. CASE i < Len(queue) BY <1>3, <2>1 DEF AllNear
  <2>2. CASE i >= Len(queue) BY <1>4, <2>2
  <2> QED BY <1>1, <1>2, <2>1, <2>2
<1>8. ASSUME NEW x, NEW n \in Nat, Queued(queue, x, n), x # queue[1].id PROVE Queued(after, x, n)
  <2>1. PICK i \in 1..Len(queue) : queue[i].id = x /\ queue[i].hop <= n BY <1>8 DEF Queued
  <2>2. i # 1 BY <1>8, <2>1
  <2>3. i - 1 \in 1..Len(queue) - 1 /\ (i - 1) + 1 = i /\ i - 1 \in 1..Len(after) BY <1>1, <1>2, <2>2 DEF Moves
  <2>4. after[i - 1] = queue[i] BY <2>3 DEF Moves
  <2> QED BY <2>1, <2>3, <2>4 DEF Queued
<1> QED BY <1>6, <1>7, <1>8

OneOn(new, edges, Id, depth, at) ==
    /\ new \in Seq(Entry(Id)) /\ Len(new) \in Nat /\ Len(new) <= Cardinality(Callers(edges, at.id))
    /\ \A i \in 1..Len(new) : new[i].hop = at.hop + 1 /\ at.hop < depth /\ new[i].id \in Callers(edges, at.id)
    /\ at.hop < depth => \A x \in Callers(edges, at.id) : \E i \in 1..Len(new) : new[i].id = x

LEMMA NextEntriesAre ==
    ASSUME NEW edges, IsFiniteSet(edges), NEW Id, Sources(edges, Id), NEW depth \in Nat, NEW at \in Entry(Id)
    PROVE  OneOn(NextEntries(edges, depth, at, G!SetToSeq(Callers(edges, at.id))), edges, Id, depth, at)
<1> DEFINE C == Callers(edges, at.id)
           list == G!SetToSeq(C)
           new == NextEntries(edges, depth, at, list)
<1>1. IsFiniteSet(C) BY CallersFinite
<1>2. C \subseteq Id BY DEF Callers, Sources
<1>3. at.hop \in Nat BY DEF Entry
<1> HIDE DEF C
<1>4. /\ list \in Seq(C) /\ Len(list) = Cardinality(C) /\ Cardinality(C) \in Nat
      /\ \A x \in C : \E i \in 1..Cardinality(C) : list[i] = x
  BY <1>1, Listed
<1> HIDE DEF list
<1>5. DOMAIN list = 1..Len(list) /\ \A i \in 1..Len(list) : list[i] \in C BY <1>4
<1>6. CASE at.hop < depth
  <2>1. new = [i \in 1..Len(list) |-> [id |-> list[i], hop |-> at.hop + 1]] BY <1>5, <1>6 DEF NextEntries
  <2>2. \A i \in 1..Len(list) : [id |-> list[i], hop |-> at.hop + 1] \in Entry(Id) BY <1>2, <1>3, <1>5 DEF Entry
  <2> HIDE DEF new
  <2>3. new \in Seq(Entry(Id)) /\ Len(new) = Len(list)
    <3> DEFINE n == Len(list)
               Q == Entry(Id)
               one(i) == [id |-> list[i], hop |-> at.hop + 1]
    <3>1. n \in Nat BY <1>4
    <3>2. new = [i \in 1..n |-> one(i)] /\ \A i \in 1..n : one(i) \in Q BY <2>1, <2>2
    <3> HIDE DEF n, Q, one
    <3>3. new \in [1..n -> Q] BY <3>2
    <3>4. new \in Seq(Q) /\ Len(new) = n BY <3>1, <3>3
    <3> QED BY <3>4 DEF n, Q
  <2>4. \A i \in 1..Len(list) : new[i].id = list[i] /\ new[i].hop = at.hop + 1 BY <2>1
  <2>5. \A x \in C : \E i \in 1..Len(new) : new[i].id = x
    <3> SUFFICES ASSUME NEW x \in C PROVE \E i \in 1..Len(new) : new[i].id = x OBVIOUS
    <3>1. PICK i \in 1..Cardinality(C) : list[i] = x BY <1>4
    <3> QED BY <1>4, <2>3, <2>4, <3>1
  <2>6. \A i \in 1..Len(new) : new[i].hop = at.hop + 1 /\ at.hop < depth /\ new[i].id \in C BY <1>5, <1>6, <2>3, <2>4
  <2>7. Len(new) \in Nat /\ Len(new) <= Cardinality(C) BY <1>4, <2>3
  <2> QED BY <2>3, <2>5, <2>6, <2>7, Zenon DEF OneOn, new, list, C
<1>7. CASE ~(at.hop < depth)
  <2>1. new = <<>> BY <1>7 DEF NextEntries
  <2> HIDE DEF new
  <2>2. new \in Seq(Entry(Id)) /\ Len(new) <= Cardinality(C) /\ Len(new) \in Nat BY <1>4, <2>1
  <2>3. \A i \in 1..Len(new) : FALSE BY <2>1
  <2> QED BY <1>7, <2>2, <2>3, Zenon DEF OneOn, new, list, C
<1> QED BY <1>6, <1>7

\* A step keeps the distances right.
LEMMA StepSearches ==
    ASSUME NEW edges, IsFiniteSet(edges), NEW Id, Sources(edges, Id), NEW Within, Widens(edges, Within), NEW depth \in Nat,
           NEW acc \in State(Id), Searching(acc, edges, Within, depth)
    PROVE  Searching(G!ImpactStep(edges, depth, acc), edges, Within, depth)
<1> DEFINE after == G!ImpactStep(edges, depth, acc)
           queue == acc.queue
           hops == acc.hops
           at == Head(queue)
           list == G!SetToSeq(Callers(edges, at.id))
           new == NextEntries(edges, depth, at, list)
<1>1. queue \in Seq(Entry(Id)) /\ hops \in UNION {[D -> Nat] : D \in SUBSET Id} BY DEF State
<1>2. /\ NearestFirst(queue) /\ AllNear(queue, Within, depth) /\ Exact(hops, Within, depth)
      /\ Seeded(queue, hops, Within) /\ Followed(queue, hops, edges, depth)
  BY DEF Searching
<1>3. /\ after \in State(Id)
      /\ queue = <<>> => after = acc
      /\ queue # <<>> => at \in Entry(Id)
      /\ queue # <<>> /\ (at.hop > depth \/ at.id \in DOMAIN hops) => after.queue = Tail(queue) /\ after.hops = hops
      /\ queue # <<>> /\ ~(at.hop > depth \/ at.id \in DOMAIN hops)
             => after.queue = Tail(queue) \o new /\ after.hops = Put(hops, at)
  BY StepIs, Zenon
<1>4. CASE queue = <<>> BY <1>3, <1>4
<1>5. CASE queue # <<>>
  <2>1. Len(queue) \in Nat /\ Len(queue) >= 1 /\ at = queue[1] /\ at \in Entry(Id) BY <1>1, <1>3, <1>5, QueueIs
  <2>2. /\ Tail(queue) \in Seq(Entry(Id)) /\ Len(Tail(queue)) = Len(queue) - 1
        /\ \A i \in 1..Len(queue) - 1 : Tail(queue)[i] = queue[i + 1]
    BY <1>1, <1>5, HeadTailProperties
  <2>3. at.hop \in Nat /\ at.id \in Id BY <2>1 DEF Entry
  <2>4. at.hop <= depth /\ at.id \in Within[at.hop] BY <1>2, <2>1 DEF AllNear
  <2>5. after.queue \in Seq(Entry(Id)) /\ after.hops \in UNION {[D -> Nat] : D \in SUBSET Id} BY <1>3 DEF State
  <2>6. \A x \in DOMAIN hops : hops[x] \in Nat BY <1>1, HopsAre
  <2> HIDE DEF after, queue, hops, at, list, new
  <2>7. CASE at.id \in DOMAIN hops
    <3>1. after.queue = Tail(queue) /\ after.hops = hops BY <1>3, <1>5, <2>7
    <3>2. Moves(queue, after.queue, Within, depth) BY <2>1, <2>2, <3>1 DEF Moves
    <3>3. /\ NearestFirst(after.queue) /\ AllNear(after.queue, Within, depth)
          /\ \A x : \A n \in Nat : Queued(queue, x, n) => x = at.id \/ Queued(after.queue, x, n)
      BY <1>1, <1>2, <1>5, <2>1, <2>5, <3>2, QueueMoves
    <3>4. Seeded(after.queue, after.hops, Within) BY <1>2, <2>7, <3>1, <3>3 DEF Seeded
    <3>5. Followed(after.queue, after.hops, edges, depth)
      <4> SUFFICES ASSUME NEW e \in edges, e.target \in DOMAIN hops, hops[e.target] < depth
                   PROVE  e.source \in DOMAIN hops \/ Queued(after.queue, e.source, hops[e.target] + 1)
          BY <3>1 DEF Followed
      <4>1. e.source \in DOMAIN hops \/ Queued(queue, e.source, hops[e.target] + 1) BY <1>2 DEF Followed
      <4>2. hops[e.target] + 1 \in Nat BY <2>6
      <4> QED BY <2>7, <3>3, <4>1, <4>2
    <3> QED BY <1>2, <3>1, <3>3, <3>4, <3>5 DEF Searching, after
  <2>8. CASE at.id \notin DOMAIN hops
    <3>1. after.queue = Tail(queue) \o new /\ after.hops = Put(hops, at) BY <1>3, <1>5, <2>3, <2>4, <2>8
    <3>2. /\ new \in Seq(Entry(Id)) /\ Len(new) \in Nat
          /\ \A i \in 1..Len(new) : new[i].hop = at.hop + 1 /\ at.hop < depth /\ new[i].id \in Callers(edges, at.id)
          /\ at.hop < depth => \A x \in Callers(edges, at.id) : \E i \in 1..Len(new) : new[i].id = x
      <4> HIDE DEF new, list
      <4>1. at \in Entry(Id) BY <2>1
      <4>2. new = NextEntries(edges, depth, at, G!SetToSeq(Callers(edges, at.id))) BY Zenon DEF new, list
      <4>3. OneOn(new, edges, Id, depth, at) BY <4>1, <4>2, NextEntriesAre
      <4> QED BY <4>3 DEF OneOn
    <3>3. /\ Len(after.queue) = (Len(queue) - 1) + Len(new)
          /\ \A i \in 1..(Len(queue) - 1) + Len(new) :
                 after.queue[i] = IF i <= Len(queue) - 1 THEN Tail(queue)[i] ELSE new[i - (Len(queue) - 1)]
      BY <2>2, <3>1, <3>2, ConcatProperties
    <3>4. \A x \in Callers(edges, at.id) : x \in Within[at.hop + 1] BY <2>3, <2>4 DEF Callers, Widens
    <3>5. Moves(queue, after.queue, Within, depth)
      <4>1. \A i \in 1..Len(queue) - 1 : after.queue[i] = queue[i + 1] BY <2>1, <2>2, <3>2, <3>3
      <4>2. ASSUME NEW i \in Len(queue)..Len(after.queue)
            PROVE  /\ after.queue[i].hop = at.hop + 1 /\ after.queue[i].hop <= depth
                   /\ after.queue[i].id \in Within[after.queue[i].hop]
        <5>1. i - (Len(queue) - 1) \in 1..Len(new) /\ i \in 1..(Len(queue) - 1) + Len(new) /\ ~(i <= Len(queue) - 1)
          BY <2>1, <3>2, <3>3
        <5>2. after.queue[i] = new[i - (Len(queue) - 1)] BY <3>3, <5>1
        <5>3. /\ after.queue[i].hop = at.hop + 1 /\ at.hop < depth
              /\ after.queue[i].id \in Callers(edges, at.id)
          BY <3>2, <5>1, <5>2
        <5> QED BY <2>3, <3>4, <5>3
      <4> QED BY <2>1, <3>2, <3>3, <4>1, <4>2 DEF Moves
    <3>6. /\ NearestFirst(after.queue) /\ AllNear(after.queue, Within, depth)
          /\ \A x : \A n \in Nat : Queued(queue, x, n) => x = at.id \/ Queued(after.queue, x, n)
      BY <1>1, <1>2, <1>5, <2>1, <2>5, <3>5, QueueMoves
    <3>7. /\ DOMAIN after.hops = DOMAIN hops \cup {at.id} /\ after.hops[at.id] = at.hop
          /\ \A x \in DOMAIN hops : after.hops[x] = hops[x]
      BY <2>8, <3>1 DEF Put
    <3>8. Exact(after.hops, Within, depth)
      <4> SUFFICES ASSUME NEW x \in DOMAIN after.hops
                   PROVE  /\ after.hops[x] <= depth /\ x \in Within[after.hops[x]]
                          /\ \A m \in Nat : m < after.hops[x] => x \notin Within[m]
          BY DEF Exact
      <4>1. CASE x \in DOMAIN hops BY <1>2, <3>7, <4>1 DEF Exact
      <4>2. CASE x = at.id
        <5>1. ASSUME NEW m \in Nat, m < at.hop PROVE at.id \notin Within[m]
          <6>1. m \in 0..depth BY <2>3, <2>4, <5>1
          <6>2. Within[m] \subseteq DOMAIN hops BY <1>5, <5>1, <6>1, Covered DEF hops, queue, at
          <6> QED BY <2>8, <6>2
        <5> QED BY <2>4, <3>7, <4>2, <5>1
      <4> QED BY <3>7, <4>1, <4>2
    <3>9. Seeded(after.queue, after.hops, Within) BY <1>2, <3>6, <3>7 DEF Seeded
    <3>10. Followed(after.queue, after.hops, edges, depth)
      <4> SUFFICES ASSUME NEW e \in edges, e.target \in DOMAIN after.hops, after.hops[e.target] < depth
                   PROVE  e.source \in DOMAIN after.hops \/ Queued(after.queue, e.source, after.hops[e.target] + 1)
          BY DEF Followed
      <4>1. CASE e.target \in DOMAIN hops
        <5>1. e.source \in DOMAIN hops \/ Queued(queue, e.source, hops[e.target] + 1) BY <1>2, <3>7, <4>1 DEF Followed
        <5>2. hops[e.target] + 1 \in Nat BY <2>6, <4>1
        <5> QED BY <3>6, <3>7, <4>1, <5>1, <5>2
      <4>2. CASE e.target = at.id
        <5>1. at.hop < depth /\ e.source \in Callers(edges, at.id) BY <3>7, <4>2 DEF Callers
        <5>2. PICK i \in 1..Len(new) : new[i].id = e.source BY <3>2, <5>1
        <5>3. new[i].hop = at.hop + 1 BY <3>2
        <5> DEFINE j == (Len(queue) - 1) + i
        <5>4. j \in 1..Len(after.queue) /\ ~(j <= Len(queue) - 1) /\ j - (Len(queue) - 1) = i BY <2>1, <3>2, <3>3
        <5>5. after.queue[j] = new[i] BY <3>3, <5>4
        <5> HIDE DEF j
        <5>7. after.queue[j].hop <= at.hop + 1 /\ after.queue[j].id = e.source BY <2>3, <5>2, <5>3, <5>5
        <5>6. Queued(after.queue, e.source, at.hop + 1) BY <5>4, <5>7, Zenon DEF Queued
        <5> QED BY <3>7, <4>2, <5>6
      <4> QED BY <3>7, <4>1, <4>2
    <3> QED BY <3>6, <3>8, <3>9, <3>10 DEF Searching, after
  <2> QED BY <2>7, <2>8
<1> QED BY <1>4, <1>5

\* Each step leaves less to do: an entry goes, and those that come with a chunk
\* are no more than the edges to it.
ToFollow(hops, edges) == {e \in edges : e.target \notin DOMAIN hops}
Ahead(acc, edges) == Len(acc.queue) + Cardinality(ToFollow(acc.hops, edges))

LEMMA StepShortens ==
    ASSUME NEW edges, IsFiniteSet(edges), NEW Id, Sources(edges, Id), NEW depth \in Nat, NEW acc \in State(Id)
    PROVE  LET after == G!ImpactStep(edges, depth, acc)
           IN  /\ Ahead(acc, edges) \in Nat /\ Len(acc.queue) <= Ahead(acc, edges)
               /\ acc.queue # <<>> => Ahead(after, edges) < Ahead(acc, edges)
<1> DEFINE after == G!ImpactStep(edges, depth, acc)
           queue == acc.queue
           hops == acc.hops
           at == Head(queue)
           list == G!SetToSeq(Callers(edges, at.id))
           new == NextEntries(edges, depth, at, list)
           A == ToFollow(hops, edges)
           B == ToFollow(after.hops, edges)
<1>1. queue \in Seq(Entry(Id)) /\ hops \in UNION {[D -> Nat] : D \in SUBSET Id} BY DEF State
<1>2. IsFiniteSet(A) /\ Cardinality(A) \in Nat
  <2>1. A \in SUBSET edges BY DEF ToFollow
  <2> QED BY <2>1, FS_Subset, FS_CardinalityType
<1>3. Len(queue) \in Nat BY <1>1, QueueIs
<1>4. Ahead(acc, edges) \in Nat /\ Len(queue) <= Ahead(acc, edges) BY <1>2, <1>3 DEF Ahead
<1>5. /\ after \in State(Id)
      /\ queue = <<>> => after = acc
      /\ queue # <<>> => at \in Entry(Id)
      /\ queue # <<>> /\ (at.hop > depth \/ at.id \in DOMAIN hops) => after.queue = Tail(queue) /\ after.hops = hops
      /\ queue # <<>> /\ ~(at.hop > depth \/ at.id \in DOMAIN hops)
             => after.queue = Tail(queue) \o new /\ after.hops = Put(hops, at)
  BY StepIs, Zenon
<1>6. ASSUME queue # <<>> PROVE Ahead(after, edges) < Ahead(acc, edges)
  <2>1. Tail(queue) \in Seq(Entry(Id)) /\ Len(Tail(queue)) = Len(queue) - 1 /\ at \in Entry(Id)
    BY <1>1, <1>5, <1>6, HeadTailProperties
  <2> HIDE DEF after, at, list, new, A, B
  <2>2. CASE at.hop > depth \/ at.id \in DOMAIN hops
    <3>1. after.queue = Tail(queue) /\ after.hops = hops BY <1>5, <1>6, <2>2
    <3>2. Ahead(after, edges) = (Len(queue) - 1) + Cardinality(A) BY <2>1, <3>1 DEF Ahead, A
    <3>3. Ahead(acc, edges) = Len(queue) + Cardinality(A) BY DEF Ahead, A
    <3> QED BY <1>2, <1>3, <3>2, <3>3
  <2>3. CASE ~(at.hop > depth \/ at.id \in DOMAIN hops)
    <3>1. after.queue = Tail(queue) \o new /\ after.hops = Put(hops, at) BY <1>5, <1>6, <2>3
    <3>2. OneOn(new, edges, Id, depth, at) BY <2>1, NextEntriesAre DEF new, list
    <3>3. new \in Seq(Entry(Id)) /\ Len(new) \in Nat /\ Len(new) <= Cardinality(Callers(edges, at.id)) BY <3>2 DEF OneOn
    <3>4. Len(after.queue) = (Len(queue) - 1) + Len(new) BY <2>1, <3>1, <3>3, ConcatProperties
    <3>5. A = B \cup Into(edges, at.id) /\ B \cap Into(edges, at.id) = {}
      <4>1. DOMAIN after.hops = DOMAIN hops \cup {at.id} BY <3>1 DEF Put
      <4> QED BY <2>3, <4>1 DEF A, B, ToFollow, Into
    <3>6. IsFiniteSet(B) /\ Cardinality(B) \in Nat
      <4>1. B \in SUBSET A BY <3>5
      <4> QED BY <1>2, <4>1, FS_Subset, FS_CardinalityType
    <3>7. /\ IsFiniteSet(Into(edges, at.id)) /\ Cardinality(Into(edges, at.id)) \in Nat
          /\ Cardinality(Callers(edges, at.id)) \in Nat
          /\ Cardinality(Callers(edges, at.id)) <= Cardinality(Into(edges, at.id))
      BY CallersFinite
    <3>8. Cardinality(A) = Cardinality(B) + Cardinality(Into(edges, at.id))
      <4>1. Cardinality(B \cup Into(edges, at.id))
                = Cardinality(B) + Cardinality(Into(edges, at.id)) - Cardinality(B \cap Into(edges, at.id))
        BY <3>6, <3>7, FS_Union
      <4> QED BY <3>5, <3>6, <3>7, <4>1, FS_EmptySet
    <3>9. Ahead(after, edges) = (Len(queue) - 1) + Len(new) + Cardinality(B) BY <3>4 DEF Ahead, B
    <3>10. Ahead(acc, edges) = Len(queue) + Cardinality(A) BY DEF Ahead, A
    <3> HIDE DEF queue, hops
    <3> QED BY <1>2, <1>3, <3>3, <3>6, <3>7, <3>8, <3>9, <3>10
  <2> QED BY <2>2, <2>3
<1> QED BY <1>4, <1>6, Zenon DEF queue, after

\* Impact takes as many steps as there are seeds and edges.
Start(seeds) == [queue |-> [i \in DOMAIN seeds |-> [id |-> seeds[i], hop |-> 0]], hops |-> <<>>]

Shown(hops, seeds, chunks) ==
    {id \in DOMAIN hops : ~(id \in G!ToSet(seeds) /\ hops[id] = 0) /\ G!PathOf(chunks, id) # {}}

Searched(n, acc, edges, depth, seeds, chunks) ==
    /\ n = Len(seeds) + Cardinality(edges) /\ acc[0] = Start(seeds)
    /\ \A k \in 1..n : acc[k] = G!ImpactStep(edges, depth, acc[k - 1])
    /\ G!Impact(edges, chunks, seeds, depth) = [id \in Shown(acc[n].hops, seeds, chunks) |-> acc[n].hops[id]]

LEMMA ImpactRuns ==
    ASSUME NEW edges, IsFiniteSet(edges), NEW Id, Sources(edges, Id), NEW depth \in Nat, NEW seeds \in Seq(Id), NEW chunks
    PROVE  \E n \in Nat : \E acc \in [0..n -> State(Id)] : Searched(n, acc, edges, depth, seeds, chunks)
<1> DEFINE n == Len(seeds) + G!Cardinality(edges)
           A == State(Id)
           empty == Start(seeds)
           walk == [i \in 1..n |-> i]
           step == [p \in A \X (1..n) |-> G!ImpactStep(edges, depth, p[1])]
           next(f, s) == IF s = {} THEN empty ELSE G!ImpactStep(edges, depth, f[s \ {G!Max(s)}])
           iter == CHOOSE f : f = [s \in SUBSET DOMAIN walk |-> next(f, s)]
           hops == iter[DOMAIN walk].hops
<1>1. G!Impact(edges, chunks, seeds, depth) = [id \in Shown(hops, seeds, chunks) |-> hops[id]]
  BY Zenon DEF Shown, G!Impact, G!FoldLeft, G!MapThenFoldSet, Start
<1>2. n \in Nat /\ empty \in A
  <2>1. G!Cardinality(edges) \in Nat BY SameCount, FS_CardinalityType
  <2>2. empty.queue \in Seq(Entry(Id))
    <3>1. DOMAIN seeds = 1..Len(seeds) /\ Len(seeds) \in Nat /\ \A i \in 1..Len(seeds) : seeds[i] \in Id OBVIOUS
    <3>2. \A i \in 1..Len(seeds) : [id |-> seeds[i], hop |-> 0] \in Entry(Id) BY <3>1 DEF Entry
    <3>3. empty.queue = [i \in 1..Len(seeds) |-> [id |-> seeds[i], hop |-> 0]] BY <3>1 DEF Start
    <3> QED BY <3>1, <3>2, <3>3
  <2>3. empty.hops \in UNION {[D -> Nat] : D \in SUBSET Id}
    <3>1. empty.hops \in [{} -> Nat] BY DEF Start
    <3> QED BY <3>1
  <2>4. empty = [queue |-> empty.queue, hops |-> empty.hops] BY DEF Start
  <2> HIDE DEF empty
  <2> QED BY <2>1, <2>2, <2>3, <2>4 DEF State
<1>3. \A state \in A : G!ImpactStep(edges, depth, state) \in A BY StepIs, Zenon
<1>4. DOMAIN walk = 1..n OBVIOUS
<1> HIDE DEF n, A, empty, walk
<1>5. step \in [A \X (1..n) -> A] BY <1>3
<1>6. \A state \in A, k \in 1..n : step[<<state, k>>] = G!ImpactStep(edges, depth, state) OBVIOUS
<1>7. \A s : G!Max(s) = Top(s) BY Zenon DEF G!Max, Top
<1> HIDE DEF step
<1>8. PICK f \in [SUBSET (1..n) -> A] : Folds(f, n, empty, step) BY <1>2, <1>5, FoldExists
<1>9. ASSUME NEW s \in SUBSET (1..n), NEW g, s # {} => g[s \ {Top(s)}] \in A
      PROVE  next(g, s) = IF s = {} THEN empty ELSE step[<<g[s \ {Top(s)}], Top(s)>>]
  <2>1. s # {} => Top(s) \in 1..n BY <1>2, TopIs
  <2> QED BY <1>6, <1>7, <1>9, <2>1
<1>10. \A s \in SUBSET (1..n) : f[s] = next(f, s)
  <2> TAKE s \in SUBSET (1..n)
  <2>1. s # {} => s \ {Top(s)} \in SUBSET (1..n) BY <1>2, TopIs
  <2>2. s # {} => f[s \ {Top(s)}] \in A BY <1>8, <2>1
  <2> HIDE DEF next
  <2> QED BY <1>8, <1>9, <2>2 DEF Folds
<1> HIDE DEF next
<1>11. f = [s \in SUBSET DOMAIN walk |-> next(f, s)] BY <1>4, <1>8, <1>10
<1>12. iter = [s \in SUBSET DOMAIN walk |-> next(iter, s)] BY <1>11
<1> HIDE DEF iter
<1>13. ASSUME NEW s \in SUBSET (1..n)
       PROVE  IF s = {} THEN iter[s] = empty
              ELSE iter[s \ {Top(s)}] \in A => iter[s] = step[<<iter[s \ {Top(s)}], Top(s)>>]
  <2>1. iter[s] = next(iter, s) BY <1>4, <1>12
  <2>2. CASE s = {} BY <1>9, <2>1, <2>2
  <2>3. CASE s # {} /\ iter[s \ {Top(s)}] \in A BY <1>9, <2>1, <2>3
  <2> QED BY <2>2, <2>3
<1>14. Steps(iter, n, A, empty, step) BY <1>13 DEF Steps
<1>15. ComesTo(iter[1..n], n, A, empty, step) BY <1>2, <1>5, <1>14, FoldSteps
<1>16. PICK acc \in [0..n -> A] : /\ acc[0] = empty /\ acc[n] = iter[1..n]
                                  /\ \A k \in 1..n : acc[k] = step[<<acc[k - 1], k>>]
  BY <1>15 DEF ComesTo
<1>17. \A k \in 1..n : acc[k] = G!ImpactStep(edges, depth, acc[k - 1])
  <2> TAKE k \in 1..n
  <2>1. acc[k - 1] \in A BY <1>2, <1>16
  <2> QED BY <1>6, <1>16, <2>1
<1>18. hops = acc[n].hops BY <1>4, <1>16
<1> HIDE DEF hops
<1>19. G!Impact(edges, chunks, seeds, depth) = [id \in Shown(acc[n].hops, seeds, chunks) |-> acc[n].hops[id]] BY <1>1, <1>18
<1>20. n = Len(seeds) + Cardinality(edges) BY SameCount DEF n
<1> QED BY <1>2, <1>16, <1>17, <1>19, <1>20, Zenon DEF Searched, A, empty

LEMMA StartSearches ==
    ASSUME NEW edges, NEW Id, NEW depth \in Nat, NEW seeds \in Seq(Id), NEW Within, Within[0] = G!ToSet(seeds)
    PROVE  /\ Searching(Start(seeds), edges, Within, depth)
           /\ Ahead(Start(seeds), edges) = Len(seeds) + Cardinality(edges)
<1> DEFINE queue == Start(seeds).queue
           hops == Start(seeds).hops
<1>1. Len(seeds) \in Nat /\ DOMAIN seeds = 1..Len(seeds) OBVIOUS
<1>2. queue = [i \in 1..Len(seeds) |-> [id |-> seeds[i], hop |-> 0]] BY <1>1 DEF Start
<1>3. hops = <<>> /\ DOMAIN hops = {} BY DEF Start
<1> HIDE DEF queue, hops
<1>4. Len(queue) = Len(seeds) /\ \A i \in 1..Len(seeds) : queue[i].hop = 0 /\ queue[i].id = seeds[i] BY <1>1, <1>2
<1>5. NearestFirst(queue) BY <1>4 DEF NearestFirst
<1>6. \A i \in 1..Len(seeds) : seeds[i] \in Within[0] BY <1>1 DEF G!ToSet
<1>7. AllNear(queue, Within, depth) BY <1>4, <1>6 DEF AllNear
<1>8. \A x \in Within[0] : Queued(queue, x, 0)
  <2> SUFFICES ASSUME NEW x \in Within[0] PROVE Queued(queue, x, 0) OBVIOUS
  <2>1. PICK i \in 1..Len(seeds) : seeds[i] = x BY <1>1 DEF G!ToSet
  <2> QED BY <1>4, <2>1 DEF Queued
<1>9. Exact(hops, Within, depth) /\ Seeded(queue, hops, Within) /\ Followed(queue, hops, edges, depth)
  BY <1>3, <1>8 DEF Exact, Seeded, Followed
<1>10. ToFollow(hops, edges) = edges BY <1>3 DEF ToFollow
<1> QED BY <1>4, <1>5, <1>7, <1>9, <1>10 DEF Searching, Ahead, queue, hops

\* impact_radius finds the chunks that depend on the seeds, through as many
\* edges as it is told to follow at most, and gives each the least number of
\* edges on a way to a seed, whatever the graph (impact, the loop over queue).
THEOREM ImpactExact ==
    ASSUME NEW edges, IsFiniteSet(edges), NEW Id, Sources(edges, Id), NEW depth \in Nat, NEW seeds \in Seq(Id),
           NEW chunks, NEW Within, Within[0] = G!ToSet(seeds), Widens(edges, Within)
    PROVE  LET impact == G!Impact(edges, chunks, seeds, depth)
           IN  /\ DOMAIN impact = {id \in Within[depth] \ Within[0] : G!PathOf(chunks, id) # {}}
               /\ \A id \in DOMAIN impact : impact[id] \in 1..depth /\ id \in Within[impact[id]] \ Within[impact[id] - 1]
<1> DEFINE impact == G!Impact(edges, chunks, seeds, depth)
           shown(hops) == Shown(hops, seeds, chunks)
<1>1. PICK n \in Nat : \E acc \in [0..n -> State(Id)] : Searched(n, acc, edges, depth, seeds, chunks) BY ImpactRuns
<1>16. PICK acc \in [0..n -> State(Id)] : Searched(n, acc, edges, depth, seeds, chunks) BY <1>1
<1>2. /\ n = Len(seeds) + Cardinality(edges) /\ acc[0] = Start(seeds)
      /\ \A k \in 1..n : acc[k] = G!ImpactStep(edges, depth, acc[k - 1])
      /\ impact = [id \in shown(acc[n].hops) |-> acc[n].hops[id]]
  BY <1>16, Zenon DEF Searched
<1> HIDE DEF impact, shown
<1> DEFINE good == {k \in 0..n : /\ Searching(acc[k], edges, Within, depth)
                                 /\ acc[k].queue = <<>> \/ Ahead(acc[k], edges) <= n - k}
<1>3. 0 \in good
  <2>1. 0 \in 0..n /\ n <= n - 0 OBVIOUS
  <2>2. Searching(acc[0], edges, Within, depth) /\ Ahead(acc[0], edges) = n BY <1>2, StartSearches
  <2> QED BY <2>1, <2>2
<1>4. ASSUME NEW k \in 0..n - 1, k \in good PROVE k + 1 \in good
  <2>1. k \in 0..n /\ k + 1 \in 1..n /\ k + 1 \in 0..n /\ (k + 1) - 1 = k OBVIOUS
  <2>2. acc[k + 1] = G!ImpactStep(edges, depth, acc[k]) BY <1>2, <2>1
  <2>3. acc[k] \in State(Id) /\ acc[k + 1] \in State(Id) BY <2>1
  <2>4. Searching(acc[k], edges, Within, depth) BY <1>4
  <2>5. Searching(acc[k + 1], edges, Within, depth) BY <2>2, <2>3, <2>4, StepSearches
  <2>6. CASE acc[k].queue = <<>>
    <3>1. acc[k + 1] = acc[k] BY <2>2, <2>6 DEF G!ImpactStep
    <3> QED BY <2>1, <2>5, <2>6, <3>1
  <2>7. CASE acc[k].queue # <<>>
    <3>1. Ahead(acc[k], edges) <= n - k BY <1>4, <2>7
    <3>2. Ahead(acc[k], edges) \in Nat /\ Ahead(acc[k + 1], edges) \in Nat BY <2>3, StepShortens, Zenon
    <3>3. Ahead(acc[k + 1], edges) < Ahead(acc[k], edges) BY <2>2, <2>3, <2>7, StepShortens, Zenon
    <3>4. Ahead(acc[k + 1], edges) <= n - (k + 1) BY <3>1, <3>2, <3>3
    <3> QED BY <2>1, <2>5, <3>4
  <2> QED BY <2>6, <2>7
<1> HIDE DEF good
<1>5. n \in good
  <2>1. \A k \in 0..n - 1 : k \in good => k + 1 \in good BY <1>4
  <2>2. \A k \in 0..n : k \in good BY <1>3, <2>1, Upto
  <2> QED BY <2>2
<1> DEFINE end == acc[n]
           hops == end.hops
<1>6. end \in State(Id) /\ Searching(end, edges, Within, depth) BY <1>5 DEF good
<1>7. end.queue = <<>>
  <2>1. end.queue = <<>> \/ Ahead(end, edges) <= n - n BY <1>5 DEF good
  <2>2. Ahead(end, edges) \in Nat /\ Len(end.queue) <= Ahead(end, edges) BY <1>6, StepShortens, Zenon
  <2>3. end.queue \in Seq(Entry(Id)) BY <1>6 DEF State
  <2>4. Len(end.queue) \in Nat BY <2>3
  <2>5. end.queue = <<>> \/ Len(end.queue) = 0 BY <2>1, <2>2, <2>4
  <2> QED BY <2>3, <2>5
<1> HIDE DEF end
<1>8. \A x \in DOMAIN hops : hops[x] \in Nat
  <2>1. hops \in UNION {[D -> Nat] : D \in SUBSET Id} BY <1>6 DEF State
  <2> HIDE DEF hops
  <2> QED BY <2>1, HopsAre
<1>9. Exact(hops, Within, depth) BY <1>6 DEF Searching
<1>10. DOMAIN hops = Within[depth]
  <2>1. depth \in 0..depth OBVIOUS
  <2>2. Within[depth] \subseteq DOMAIN hops BY <1>6, <1>7, <2>1, Covered
  <2>3. ASSUME NEW x \in DOMAIN hops PROVE x \in Within[depth]
    <3>1. hops[x] \in 0..depth /\ x \in Within[hops[x]] BY <1>8, <1>9 DEF Exact
    <3> QED BY <3>1, WithinGrows
  <2> QED BY <2>2, <2>3
<1> HIDE DEF hops
<1>11. \A x \in DOMAIN hops : x \in Within[0] <=> hops[x] = 0
  <2> TAKE x \in DOMAIN hops
  <2>1. hops[x] \in Nat /\ x \in Within[hops[x]] /\ \A m \in Nat : m < hops[x] => x \notin Within[m] BY <1>8, <1>9 DEF Exact
  <2> QED BY <2>1
<1>12. shown(hops) = {id \in Within[depth] \ Within[0] : G!PathOf(chunks, id) # {}} BY <1>10, <1>11 DEF shown, Shown
<1>13. impact = [id \in shown(hops) |-> hops[id]] BY <1>2 DEF hops, end
<1>14. DOMAIN impact = {id \in Within[depth] \ Within[0] : G!PathOf(chunks, id) # {}} BY <1>12, <1>13
<1>15. ASSUME NEW id \in DOMAIN impact PROVE impact[id] \in 1..depth /\ id \in Within[impact[id]] \ Within[impact[id] - 1]
  <2>1. id \in Within[depth] \ Within[0] BY <1>14
  <2>2. id \in DOMAIN hops /\ impact[id] = hops[id] /\ hops[id] # 0 BY <1>10, <1>11, <1>12, <1>13, <2>1
  <2>3. hops[id] \in Nat /\ hops[id] <= depth /\ id \in Within[hops[id]] BY <1>8, <1>9, <2>2 DEF Exact
  <2>4. hops[id] - 1 \in Nat /\ hops[id] - 1 < hops[id] /\ hops[id] \in 1..depth BY <2>2, <2>3
  <2>5. id \notin Within[hops[id] - 1] BY <1>9, <2>2, <2>4 DEF Exact
  <2> QED BY <2>2, <2>3, <2>4, <2>5
<1> QED BY <1>14, <1>15, Zenon DEF impact

\* The sets of those within n steps: there are such sets, one for each n.
Reach(edges, first) ==
    LET within[n \in Nat] ==
            IF n = 0 THEN first ELSE within[n - 1] \cup {e.source : e \in {f \in edges : f.target \in within[n - 1]}}
    IN  within

LEMMA WithinIs ==
    ASSUME NEW edges, NEW first
    PROVE  Reach(edges, first)[0] = first /\ Widens(edges, Reach(edges, first))
<1> DEFINE more(X) == X \cup {e.source : e \in {f \in edges : f.target \in X}}
           A == SUBSET (first \cup {e.source : e \in edges})
           Wide(acc, n) == acc[0] = first /\ \A k \in 1..n : acc[k] = more(acc[k - 1])
           best(n) == CHOOSE acc \in [0..n -> A] : Wide(acc, n)
           w == [n \in Nat |-> best(n)[n]]
           rule(f, n) == IF n = 0 THEN first ELSE more(f[n - 1])
           within == CHOOSE f : f = [n \in Nat |-> rule(f, n)]
<1>1. \A X \in A : more(X) \in A OBVIOUS
<1>2. first \in A OBVIOUS
<1> HIDE DEF more, A
<1>3. ASSUME NEW n \in Nat PROVE best(n) \in [0..n -> A] /\ Wide(best(n), n)
  <2> DEFINE step == [p \in A \X (1..n) |-> more(p[1])]
  <2>1. step \in [A \X (1..n) -> A] BY <1>1
  <2>2. \A X \in A, k \in 1..n : step[<<X, k>>] = more(X) OBVIOUS
  <2> HIDE DEF step
  <2>3. PICK out : ComesTo(out, n, A, first, step) BY <1>2, <2>1, AnyFold
  <2>4. PICK acc \in [0..n -> A] : acc[0] = first /\ \A k \in 1..n : acc[k] = step[<<acc[k - 1], k>>] BY <2>3 DEF ComesTo
  <2>5. \A k \in 1..n : acc[k] = more(acc[k - 1])
    <3> TAKE k \in 1..n
    <3>1. k - 1 \in 0..n OBVIOUS
    <3>2. acc[k - 1] \in A BY <2>4, <3>1
    <3> QED BY <2>2, <2>4, <3>2
  <2>6. Wide(acc, n) BY <2>4, <2>5
  <2> HIDE DEF Wide
  <2> QED BY <2>4, <2>6
<1> HIDE DEF best
<1>4. ASSUME NEW n \in Nat PROVE best(n + 1)[n] = best(n)[n]
  <2> DEFINE same == {k \in 0..n : best(n + 1)[k] = best(n)[k]}
  <2>1. n + 1 \in Nat OBVIOUS
  <2>2. Wide(best(n), n) /\ Wide(best(n + 1), n + 1) BY <1>3, <2>1
  <2>3. 0 \in same BY <2>2
  <2>4. ASSUME NEW k \in 0..n - 1, k \in same PROVE k + 1 \in same
    <3>1. k + 1 \in 1..n /\ k + 1 \in 1..n + 1 /\ (k + 1) - 1 = k /\ k + 1 \in 0..n OBVIOUS
    <3>2. best(n)[k + 1] = more(best(n)[k]) /\ best(n + 1)[k + 1] = more(best(n + 1)[k]) BY <2>2, <3>1
    <3> QED BY <2>4, <3>1, <3>2
  <2> HIDE DEF same
  <2>5. \A k \in 0..n - 1 : k \in same => k + 1 \in same BY <2>4
  <2>6. n \in same BY <2>3, <2>5, Upto
  <2> QED BY <2>6 DEF same
<1>5. ASSUME NEW n \in Nat PROVE w[n] = rule(w, n)
  <2>1. CASE n = 0
    <3>1. Wide(best(0), 0) BY <1>3
    <3> QED BY <2>1, <3>1
  <2>2. CASE n # 0
    <3>1. n - 1 \in Nat /\ (n - 1) + 1 = n /\ n \in 1..n BY <2>2
    <3>2. best(n)[n - 1] = best(n - 1)[n - 1] BY <1>4, <3>1
    <3>3. Wide(best(n), n) BY <1>3
    <3>4. best(n)[n] = more(best(n)[n - 1]) BY <3>1, <3>3
    <3> QED BY <2>2, <3>1, <3>2, <3>4
  <2> QED BY <2>1, <2>2
<1> DEFINE v == w
<1>6. v = [n \in Nat |-> rule(v, n)]
  <2>1. \A n \in Nat : w[n] = rule(w, n) BY <1>5
  <2> HIDE DEF rule
  <2> QED BY <2>1
<1> HIDE DEF v
<1>7. within = [n \in Nat |-> rule(within, n)]
  <2> HIDE DEF rule
  <2> QED BY <1>6
<1> HIDE DEF within
<1>8. within[0] = first BY <1>7
<1>9. Widens(edges, within)
  <2> SUFFICES ASSUME NEW n \in Nat PROVE within[n + 1] = more(within[n]) BY Zenon DEF Widens, more
  <2>1. n + 1 \in Nat /\ n + 1 # 0 /\ (n + 1) - 1 = n OBVIOUS
  <2> QED BY <1>7, <2>1
<1>10. Reach(edges, first) = within BY Zenon DEF Reach, within, rule, more
<1> QED BY <1>8, <1>9, <1>10, Zenon

Counted(files) == FoldFunction(LAMBDA file, n : n + file.count, 0, files)
CountsEach(files, D, path) ==
    /\ DOMAIN files = {path[id] : id \in D}
    /\ \A p \in DOMAIN files : files[p].count = Cardinality({id \in D : path[id] = p})

\* The counts of all files come to the number of chunks: each is in one file.
LEMMA CountsAdd ==
    ASSUME NEW D, IsFiniteSet(D), NEW P, NEW path \in [D -> P], NEW files, CountsEach(files, D, path)
    PROVE  Counted(files) = Cardinality(D)
<1> DEFINE S == DOMAIN files
           On(s) == {id \in D : path[id] \in s}
           pick(s) == CHOOSE x \in s : TRUE
           next(f, s) == IF s = {} THEN 0 ELSE f[s \ {pick(s)}] + files[pick(s)].count
           iter == CHOOSE f : f = [s \in SUBSET S |-> next(f, s)]
           g == [s \in SUBSET S |-> Cardinality(On(s))]
<1>0. /\ DOMAIN files = {path[id] : id \in D}
      /\ \A p \in DOMAIN files : files[p].count = Cardinality({id \in D : path[id] = p})
  BY DEF CountsEach
<1>1. IsFiniteSet(S)
  <2>1. path \in Surjection(D, S) BY <1>0 DEF Surjection
  <2> QED BY <2>1, FS_Surjection
<1>2. Counted(files) = iter[S]
  BY Zenon DEF Counted, FoldFunction, FoldFunctionOnSet, MapThenFoldSet
<1> HIDE DEF iter
<1>3. \A s : IsFiniteSet(On(s)) /\ Cardinality(On(s)) \in Nat
  <2> TAKE s
  <2>1. IsFiniteSet(On(s)) BY FS_Subset
  <2> QED BY <2>1, FS_CardinalityType
<1>4. ASSUME NEW s \in SUBSET S, s # {}
      PROVE  /\ pick(s) \in s /\ s \ {pick(s)} \in SUBSET S
             /\ Cardinality(On(s)) = Cardinality(On(s \ {pick(s)})) + files[pick(s)].count
  <2> DEFINE x == pick(s)
             U == {id \in D : path[id] = x}
  <2>1. x \in s BY <1>4
  <2> HIDE DEF x
  <2>2. On(s) = On(s \ {x}) \cup U /\ On(s \ {x}) \cap U = {} BY <2>1
  <2>3. IsFiniteSet(U) /\ Cardinality(U) \in Nat
    <3>1. IsFiniteSet(U) BY FS_Subset
    <3> QED BY <3>1, FS_CardinalityType
  <2>4. files[x].count = Cardinality(U) BY <1>0, <2>1
  <2> HIDE DEF On, U
  <2>5. Cardinality(On(s \ {x}) \cup U) = Cardinality(On(s \ {x})) + Cardinality(U) - Cardinality(On(s \ {x}) \cap U)
    BY <1>3, <2>3, FS_Union
  <2>6. Cardinality(On(s \ {x}) \cap U) = 0 BY <2>2, FS_EmptySet, Zenon
  <2>7. Cardinality(On(s)) = Cardinality(On(s \ {x}) \cup U) BY <2>2, Zenon
  <2>8. Cardinality(On(s \ {x})) \in Nat BY <1>3
  <2> DEFINE a == Cardinality(On(s))
             b == Cardinality(On(s \ {x}))
             c == Cardinality(U)
  <2>9. a = b + c - 0 BY <2>5, <2>6, <2>7, Zenon
  <2>10. b \in Nat /\ c \in Nat /\ files[x].count = c BY <2>3, <2>4, <2>8
  <2> HIDE DEF a, b, c
  <2>11. a = b + files[x].count BY <2>9, <2>10
  <2> QED BY <2>1, <2>11 DEF x, a, b
<1>5. On({}) = {} /\ Cardinality(On({})) = 0
  <2>1. On({}) = {} OBVIOUS
  <2> QED BY <2>1, FS_EmptySet
<1> HIDE DEF On, S
<1>6. \A s \in SUBSET S : g[s] = next(g, s)
  <2> TAKE s \in SUBSET S
  <2>1. CASE s = {} BY <1>5, <2>1
  <2>2. CASE s # {}
    <3>1. pick(s) \in s /\ s \ {pick(s)} \in SUBSET S
          /\ Cardinality(On(s)) = Cardinality(On(s \ {pick(s)})) + files[pick(s)].count BY <1>4, <2>2
    <3> HIDE DEF pick
    <3> QED BY <2>2, <3>1
  <2> QED BY <2>1, <2>2
<1>7. \E f : f = [s \in SUBSET S |-> next(f, s)]
  <2> DEFINE h == g
  <2>1. h = [s \in SUBSET S |-> next(h, s)]
    <3> HIDE DEF next
    <3> QED BY <1>6
  <2> HIDE DEF h
  <2> QED BY <2>1
<1>8. iter = [s \in SUBSET S |-> next(iter, s)]
  <2> HIDE DEF next
  <2> QED BY <1>7 DEF iter
<1> DEFINE good == {k \in Nat : \A s \in SUBSET S : Cardinality(s) = k => iter[s] = Cardinality(On(s))}
           n == Cardinality(S)
<1>9. n \in Nat BY <1>1, FS_CardinalityType
<1>10. \A s \in SUBSET S : IsFiniteSet(s) /\ Cardinality(s) \in Nat
  <2> TAKE s \in SUBSET S
  <2>1. IsFiniteSet(s) BY <1>1, FS_Subset
  <2> QED BY <2>1, FS_CardinalityType
<1>11. 0 \in good
  <2>1. \A s \in SUBSET S : Cardinality(s) = 0 => s = {} BY <1>10, FS_EmptySet
  <2>2. iter[{}] = 0 BY <1>8
  <2> QED BY <1>5, <2>1, <2>2
<1>12. \A k \in 0..n - 1 : k \in good => k + 1 \in good
  <2> SUFFICES ASSUME NEW k \in 0..n - 1, k \in good, NEW s \in SUBSET S, Cardinality(s) = k + 1
               PROVE  iter[s] = Cardinality(On(s))
    BY <1>9
  <2> HIDE DEF n
  <2>0. k \in Nat BY <1>9
  <2>1. s # {}
    <3>1. k + 1 # 0 BY <2>0
    <3> QED BY <3>1, FS_EmptySet
  <2> DEFINE x == pick(s)
             t == s \ {x}
  <2>2. x \in s /\ t \in SUBSET S /\ Cardinality(On(s)) = Cardinality(On(t)) + files[x].count BY <1>4, <2>1
  <2> HIDE DEF x
  <2>3. Cardinality(t) = k
    <3>1. Cardinality(t) = Cardinality(s) - 1 BY <1>10, <2>2, FS_RemoveElement
    <3> QED BY <2>0, <3>1
  <2>4. iter[t] = Cardinality(On(t)) BY <2>2, <2>3 DEF good
  <2>5. iter[s] = iter[t] + files[x].count BY <1>8, <2>1 DEF x
  <2> QED BY <2>2, <2>4, <2>5
<1> HIDE DEF good
<1>13. n \in good
  <2> HIDE DEF n
  <2>1. \A k \in 0..n : k \in good BY <1>9, <1>11, <1>12, Upto
  <2> QED BY <1>9, <2>1
<1>14. iter[S] = Cardinality(On(S)) BY <1>13 DEF good
<1>15. On(S) = D BY <1>0 DEF On, S
<1> QED BY <1>2, <1>14, <1>15

\* The chunks of the task, each in its file, and the edges from one file into
\* another.
ChunksOf(home) == {[id |-> id, path |-> home[id]] : id \in DOMAIN home}
Ends(edges, home) == \A e \in edges : e.source \in DOMAIN home /\ e.target \in DOMAIN home
Sends(edges, home, p, q) == {e \in edges : home[e.source] = p /\ home[e.target] = q}
Row(q, sent, e) == [peer |-> q, outgoing |-> sent, edge |-> e]
Rows(edges, home, p, q) == {Row(q, TRUE, e) : e \in Sends(edges, home, p, q)}
                               \cup {Row(q, FALSE, e) : e \in Sends(edges, home, q, p)}
OfPeer(edges, chunks, p, q) == {row \in G!CouplingEdges(edges, chunks, p, FALSE) : row.peer = q}

LEMMA ChunksAre ==
    ASSUME NEW home
    PROVE  /\ \A c \in ChunksOf(home) : c.id \in DOMAIN home /\ c.path = home[c.id]
           /\ \A id \in DOMAIN home : \E c \in ChunksOf(home) : c.id = id /\ c.path = home[id]
<1>1. ASSUME NEW c \in ChunksOf(home) PROVE c.id \in DOMAIN home /\ c.path = home[c.id]
  <2>1. PICK id \in DOMAIN home : c = [id |-> id, path |-> home[id]] BY DEF ChunksOf
  <2>2. c.id = id /\ c.path = home[id] BY <2>1
  <2> QED BY <2>2
<1>2. ASSUME NEW id \in DOMAIN home PROVE \E c \in ChunksOf(home) : c.id = id /\ c.path = home[id]
  <2> DEFINE c == [id |-> id, path |-> home[id]]
  <2>1. c \in ChunksOf(home) BY DEF ChunksOf
  <2>2. c.id = id /\ c.path = home[id] OBVIOUS
  <2> HIDE DEF c
  <2> QED BY <2>1, <2>2
<1> QED BY <1>1, <1>2

LEMMA PathIs ==
    ASSUME NEW home, NEW id \in DOMAIN home
    PROVE  G!PathOf(ChunksOf(home), id) = {home[id]}
<1> DEFINE mine == {c \in ChunksOf(home) : c.id = id}
<1>1. G!PathOf(ChunksOf(home), id) = {c.path : c \in mine} BY Zenon DEF G!PathOf
<1>2. \A c \in mine : c.path = home[id] BY ChunksAre
<1>3. \E c \in mine : c.path = home[id] BY ChunksAre
<1> HIDE DEF mine
<1> QED BY <1>1, <1>2, <1>3

\* What couples p with q: the edges from p into q, outgoing, and those from q
\* into p.
LEMMA PeerRows ==
    ASSUME NEW home, NEW edges, Ends(edges, home), NEW p \in {home[id] : id \in DOMAIN home}, NEW q
    PROVE  OfPeer(edges, ChunksOf(home), p, q) = IF p = q THEN {} ELSE Rows(edges, home, p, q)
<1> DEFINE chunks == ChunksOf(home)
           paths == {c.path : c \in chunks}
           mine == {chunk.id : chunk \in {c \in chunks : c.path = p}}
           Other(edge) == IF edge.source \in mine THEN edge.target ELSE edge.source
           Joins(peer, edge) == /\ edge.source \in mine \/ edge.target \in mine
                                /\ G!PathOf(chunks, Other(edge)) = {peer} /\ peer # p
           all == G!CouplingEdges(edges, chunks, p, FALSE)
<1>1. all = {[peer |-> pair[1], outgoing |-> pair[2].source \in mine, edge |-> pair[2]] :
                 pair \in {x \in paths \X edges : Joins(x[1], x[2])}}
  BY Zenon DEF G!CouplingEdges
<1>2. \A id : id \in mine <=> id \in DOMAIN home /\ home[id] = p
  <2> DEFINE here == {c \in chunks : c.path = p}
  <2> TAKE id
  <2>1. ASSUME id \in mine PROVE id \in DOMAIN home /\ home[id] = p
    <3>1. PICK c \in here : c.id = id BY <2>1
    <3> QED BY <3>1, ChunksAre
  <2>2. ASSUME id \in DOMAIN home, home[id] = p PROVE id \in mine
    <3>1. PICK c \in chunks : c.id = id /\ c.path = home[id] BY <2>2, ChunksAre
    <3>2. c \in here BY <2>2, <3>1
    <3> QED BY <3>1, <3>2
  <2> QED BY <2>1, <2>2
<1>3. paths = {home[id] : id \in DOMAIN home}
  <2>1. \A c \in chunks : c.id \in DOMAIN home /\ c.path = home[c.id] BY ChunksAre
  <2>2. \A id \in DOMAIN home : \E c \in chunks : c.path = home[id] BY ChunksAre
  <2> HIDE DEF chunks
  <2> QED BY <2>1, <2>2
<1>4. \A e \in edges : e.source \in DOMAIN home /\ e.target \in DOMAIN home BY DEF Ends
<1>5. \A id \in DOMAIN home : G!PathOf(chunks, id) = {home[id]} BY PathIs
<1> HIDE DEF chunks, mine, paths, all
<1>6. \A peer : \A e \in edges : Joins(peer, e) <=>
          peer # p /\ (e \in Sends(edges, home, p, peer) \/ e \in Sends(edges, home, peer, p))
  <2> TAKE peer
  <2> TAKE e \in edges
  <2>1. e.source \in DOMAIN home /\ e.target \in DOMAIN home BY <1>4
  <2>2. CASE e.source \in mine
    <3>1. home[e.source] = p BY <1>2, <2>2
    <3>2. Joins(peer, e) <=> home[e.target] = peer /\ peer # p BY <1>5, <2>1, <2>2
    <3> QED BY <3>1, <3>2 DEF Sends
  <2>3. CASE e.source \notin mine
    <3>1. home[e.source] # p BY <1>2, <2>1, <2>3
    <3>2. Joins(peer, e) <=> e.target \in mine /\ home[e.source] = peer /\ peer # p BY <1>5, <2>1, <2>3
    <3> QED BY <1>2, <2>1, <3>1, <3>2 DEF Sends
  <2> QED BY <2>2, <2>3
<1>7. \A e \in edges : \A peer : peer # p =>
          /\ e \in Sends(edges, home, p, peer) => (e.source \in mine) = TRUE
          /\ e \in Sends(edges, home, peer, p) => (e.source \in mine) = FALSE
  BY <1>2, <1>4 DEF Sends
<1>8. \A peer : \A e \in Sends(edges, home, p, peer) \cup Sends(edges, home, peer, p) : e \in edges /\ peer \in paths
  BY <1>3, <1>4 DEF Sends
<1> HIDE DEF Joins
<1>9. \A row : row \in all /\ row.peer = q <=>
          \E e \in edges : Joins(q, e) /\ q \in paths /\ row = Row(q, e.source \in mine, e)
  <2> TAKE row
  <2>1. ASSUME row \in all, row.peer = q
        PROVE  \E e \in edges : Joins(q, e) /\ q \in paths /\ row = Row(q, e.source \in mine, e)
    <3>1. PICK pair \in {x \in paths \X edges : Joins(x[1], x[2])} :
              row = [peer |-> pair[1], outgoing |-> pair[2].source \in mine, edge |-> pair[2]]
      BY <1>1, <2>1, Zenon
    <3>2. row.peer = pair[1] BY <3>1
    <3>3. pair[1] = q /\ pair[2] \in edges /\ q \in paths /\ Joins(q, pair[2]) BY <2>1, <3>1, <3>2
    <3>4. row = Row(q, pair[2].source \in mine, pair[2]) BY <3>1, <3>3, Zenon DEF Row
    <3> QED BY <3>3, <3>4, Zenon
  <2>2. ASSUME NEW e \in edges, Joins(q, e), q \in paths, row = Row(q, e.source \in mine, e)
        PROVE  row \in all /\ row.peer = q
    <3> DEFINE pair == <<q, e>>
    <3>1. pair \in paths \X edges /\ pair[1] = q /\ pair[2] = e BY <2>2
    <3> HIDE DEF pair
    <3>2. pair \in {x \in paths \X edges : Joins(x[1], x[2])} BY <2>2, <3>1
    <3>3. row = [peer |-> pair[1], outgoing |-> pair[2].source \in mine, edge |-> pair[2]] BY <2>2, <3>1, Zenon DEF Row
    <3>4. row \in all BY <1>1, <3>2, <3>3, Zenon
    <3>5. row.peer = q BY <2>2 DEF Row
    <3> QED BY <3>4, <3>5
  <2> QED BY <2>1, <2>2, Zenon
<1>10. CASE p = q
  <2>1. \A e \in edges : ~Joins(q, e) BY <1>6, <1>10
  <2> QED BY <1>9, <1>10, <2>1 DEF OfPeer, all, chunks
<1>11. CASE p # q
  <2>1. \A row : row \in all /\ row.peer = q <=> row \in Rows(edges, home, p, q)
    <3> TAKE row
    <3>1. ASSUME row \in all, row.peer = q PROVE row \in Rows(edges, home, p, q)
      <4>1. PICK e \in edges : Joins(q, e) /\ row = Row(q, e.source \in mine, e) BY <1>9, <3>1, Zenon
      <4>2. CASE e \in Sends(edges, home, p, q)
        <5>1. (e.source \in mine) = TRUE BY <1>7, <1>11, <4>2
        <5>2. row = Row(q, TRUE, e) BY <4>1, <5>1, Zenon
        <5> QED BY <4>2, <5>2, Zenon DEF Rows
      <4>3. CASE e \in Sends(edges, home, q, p)
        <5>1. (e.source \in mine) = FALSE BY <1>7, <1>11, <4>3
        <5>2. row = Row(q, FALSE, e) BY <4>1, <5>1, Zenon
        <5> QED BY <4>3, <5>2, Zenon DEF Rows
      <4> QED BY <1>6, <4>1, <4>2, <4>3
    <3>2. ASSUME NEW e \in Sends(edges, home, p, q), row = Row(q, TRUE, e) PROVE row \in all /\ row.peer = q
      <4>1. e \in edges /\ q \in paths /\ Joins(q, e) BY <1>6, <1>8, <1>11
      <4>2. (e.source \in mine) = TRUE BY <1>7, <1>11, <4>1
      <4>3. row = Row(q, e.source \in mine, e) BY <3>2, <4>2, Zenon
      <4> QED BY <1>9, <4>1, <4>3, Zenon
    <3>3. ASSUME NEW e \in Sends(edges, home, q, p), row = Row(q, FALSE, e) PROVE row \in all /\ row.peer = q
      <4>1. e \in edges /\ q \in paths /\ Joins(q, e) BY <1>6, <1>8, <1>11
      <4>2. (e.source \in mine) = FALSE BY <1>7, <1>11, <4>1
      <4>3. row = Row(q, e.source \in mine, e) BY <3>3, <4>2, Zenon
      <4> QED BY <1>9, <4>1, <4>3, Zenon
    <3> QED BY <3>1, <3>2, <3>3, Zenon DEF Rows
  <2>2. OfPeer(edges, ChunksOf(home), p, q) = {row \in all : row.peer = q} BY Zenon DEF OfPeer, all, chunks
  <2> QED BY <1>11, <2>1, <2>2
<1> QED BY <1>10, <1>11

LEMMA SendsAre ==
    ASSUME NEW home, NEW edges, IsFiniteSet(edges), NEW p, NEW q
    PROVE  IsFiniteSet(Sends(edges, home, p, q)) /\ Cardinality(Sends(edges, home, p, q)) \in Nat
<1>1. IsFiniteSet(Sends(edges, home, p, q)) BY FS_Subset DEF Sends
<1> QED BY <1>1, FS_CardinalityType

LEMMA RowsCount ==
    ASSUME NEW home, NEW edges, IsFiniteSet(edges), NEW p, NEW q
    PROVE  Cardinality(Rows(edges, home, p, q))
               = Cardinality(Sends(edges, home, p, q)) + Cardinality(Sends(edges, home, q, p))
<1> DEFINE S == Sends(edges, home, p, q)
           U == Sends(edges, home, q, p)
           A == {Row(q, TRUE, e) : e \in S}
           B == {Row(q, FALSE, e) : e \in U}
<1>1. IsFiniteSet(S) /\ Cardinality(S) \in Nat /\ IsFiniteSet(U) /\ Cardinality(U) \in Nat BY SendsAre
<1>2. Rows(edges, home, p, q) = A \cup B BY Zenon DEF Rows
<1> HIDE DEF S, U
<1>3. IsFiniteSet(A) /\ Cardinality(A) = Cardinality(S)
  <2> DEFINE f == [e \in S |-> Row(q, TRUE, e)]
  <2>1. \A e \in S : Row(q, TRUE, e).edge = e BY DEF Row
  <2>2. f \in Bijection(S, A) BY <2>1 DEF Bijection, Injection, IsInjective, Surjection
  <2>3. ExistsBijection(S, A) BY <2>2, Zenon DEF ExistsBijection
  <2> QED BY <1>1, <2>3, FS_Bijection, Zenon
<1>4. IsFiniteSet(B) /\ Cardinality(B) = Cardinality(U)
  <2> DEFINE f == [e \in U |-> Row(q, FALSE, e)]
  <2>1. \A e \in U : Row(q, FALSE, e).edge = e BY DEF Row
  <2>2. f \in Bijection(U, B) BY <2>1 DEF Bijection, Injection, IsInjective, Surjection
  <2>3. ExistsBijection(U, B) BY <2>2, Zenon DEF ExistsBijection
  <2> QED BY <1>1, <2>3, FS_Bijection, Zenon
<1>5. A \cap B = {}
  <2>1. \A r \in A : r.outgoing = TRUE BY DEF Row
  <2>2. \A r \in B : r.outgoing = FALSE BY DEF Row
  <2> HIDE DEF A, B
  <2> QED BY <2>1, <2>2
<1> DEFINE a == Cardinality(A)
           b == Cardinality(B)
           c == Cardinality(A \cup B)
           d == Cardinality(A \cap B)
<1>6. c = a + b - d
  <2> HIDE DEF A, B
  <2> QED BY <1>3, <1>4, FS_Union
<1>7. d = 0 BY <1>5, FS_EmptySet, Zenon
<1>8. a \in Nat /\ b \in Nat BY <1>1, <1>3, <1>4
<1> HIDE DEF a, b, c, d
<1>9. c = a + b BY <1>6, <1>7, <1>8
<1> QED BY <1>2, <1>3, <1>4, <1>9, Zenon DEF a, b, c, S, U

\* What the rows say: out when an edge goes from p into q, in when one comes.
LEMMA RowsSay ==
    ASSUME NEW home, NEW edges, NEW p, NEW q
    PROVE  /\ (\E r \in Rows(edges, home, p, q) : r.outgoing) <=> Sends(edges, home, p, q) # {}
           /\ (\E r \in Rows(edges, home, p, q) : ~r.outgoing) <=> Sends(edges, home, q, p) # {}
<1> DEFINE S == Sends(edges, home, p, q)
           U == Sends(edges, home, q, p)
<1>1. \A e : Row(q, TRUE, e).outgoing = TRUE /\ Row(q, FALSE, e).outgoing = FALSE BY DEF Row
<1>2. \A r : r \in Rows(edges, home, p, q)
          <=> (\E e \in S : r = Row(q, TRUE, e)) \/ (\E e \in U : r = Row(q, FALSE, e)) BY Zenon DEF Rows
<1> HIDE DEF S, U
<1>3. ASSUME NEW r \in Rows(edges, home, p, q), r.outgoing PROVE S # {}
  <2>1. CASE \E e \in S : r = Row(q, TRUE, e) BY <2>1
  <2>2. ASSUME NEW e \in U, r = Row(q, FALSE, e) PROVE FALSE
    <3>1. r.outgoing = FALSE BY <1>1, <2>2, Zenon
    <3> QED BY <1>3, <3>1, Zenon
  <2> QED BY <1>2, <2>1, <2>2, Zenon
<1>4. ASSUME NEW r \in Rows(edges, home, p, q), ~r.outgoing PROVE U # {}
  <2>1. CASE \E e \in U : r = Row(q, FALSE, e) BY <2>1
  <2>2. ASSUME NEW e \in S, r = Row(q, TRUE, e) PROVE FALSE
    <3>1. r.outgoing = TRUE BY <1>1, <2>2, Zenon
    <3> QED BY <1>4, <3>1, Zenon
  <2> QED BY <1>2, <2>1, <2>2, Zenon
<1>5. ASSUME NEW e \in S PROVE \E r \in Rows(edges, home, p, q) : r.outgoing
  <2>1. Row(q, TRUE, e) \in Rows(edges, home, p, q) BY <1>2, Zenon
  <2> QED BY <1>1, <2>1, Zenon
<1>6. ASSUME NEW e \in U PROVE \E r \in Rows(edges, home, p, q) : ~r.outgoing
  <2>1. Row(q, FALSE, e) \in Rows(edges, home, p, q) BY <1>2, Zenon
  <2>2. ~Row(q, FALSE, e).outgoing BY <1>1, Zenon
  <2> QED BY <2>1, <2>2, Zenon
<1>7. S # {} => \E e : e \in S OBVIOUS
<1>8. U # {} => \E e : e \in U OBVIOUS
<1> QED BY <1>3, <1>4, <1>5, <1>6, <1>7, <1>8, Zenon DEF S, U

Homes(home) == {home[id] : id \in DOMAIN home}
Agree(a, b, p, q) ==
    /\ p \in DOMAIN b /\ a[q].count = b[p].count
    /\ a[q].direction = "depends_on" <=> b[p].direction = "depended_on_by"

\* coupling says of two files from either of them what it says from the other:
\* as many edges, the other way round.
THEOREM CouplingAgrees ==
    ASSUME NEW home, NEW edges, IsFiniteSet(edges), Ends(edges, home),
           NEW p \in Homes(home), NEW q \in Homes(home),
           q \in DOMAIN G!Coupling(edges, ChunksOf(home), p, FALSE)
    PROVE  LET from(path) == G!Coupling(edges, ChunksOf(home), path, FALSE)
           IN  Agree(from(p), from(q), p, q)
<1> DEFINE chunks == ChunksOf(home)
           paths == Homes(home)
           from(path) == G!Coupling(edges, chunks, path, FALSE)
           all(path) == G!CouplingEdges(edges, chunks, path, FALSE)
           Of(path, peer) == OfPeer(edges, chunks, path, peer)
           out(path, peer) == \E row \in Of(path, peer) : row.outgoing
           in(path, peer) == \E row \in Of(path, peer) : ~row.outgoing
           says(path, peer) == CASE out(path, peer) /\ in(path, peer) -> "bidirectional"
                                 [] out(path, peer) /\ ~in(path, peer) -> "depends_on"
                                 [] OTHER -> "depended_on_by"
           sends(path, peer) == Sends(edges, home, path, peer)
<1>1. \A path : from(path) = [peer \in {row.peer : row \in all(path)} |->
                                 [symbols |-> {row.edge.name : row \in Of(path, peer)},
                                  count |-> G!Cardinality(Of(path, peer)), direction |-> says(path, peer)]]
  BY Zenon DEF G!Coupling, OfPeer
<1>2. \A path, peer : peer \in {row.peer : row \in all(path)} <=> Of(path, peer) # {} BY DEF OfPeer
<1> HIDE DEF chunks, from, all, Of, says
<1>3. \A path, peer : peer \in DOMAIN from(path) <=> Of(path, peer) # {} BY <1>1, <1>2
<1>4. ASSUME NEW path, NEW peer, peer \in DOMAIN from(path)
      PROVE  from(path)[peer].count = Cardinality(Of(path, peer)) /\ from(path)[peer].direction = says(path, peer)
  <2>1. from(path)[peer] = [symbols |-> {row.edge.name : row \in Of(path, peer)},
                            count |-> G!Cardinality(Of(path, peer)), direction |-> says(path, peer)]
    BY <1>1, <1>4
  <2> QED BY <2>1, SameCount
<1>5. \A path \in paths : \A peer : Of(path, peer) = IF path = peer THEN {} ELSE Rows(edges, home, path, peer)
  BY PeerRows, Zenon DEF Of, chunks, Homes
<1>6. p # q
  <2>1. Of(p, q) # {} BY <1>3 DEF from, chunks
  <2> QED BY <1>5, <2>1
<1>7. Of(p, q) = Rows(edges, home, p, q) /\ Of(q, p) = Rows(edges, home, q, p) BY <1>5, <1>6
<1>8. Of(p, q) # {} BY <1>3 DEF from, chunks
<1>9. out(p, q) <=> sends(p, q) # {} BY <1>7, RowsSay
<1>10. in(p, q) <=> sends(q, p) # {} BY <1>7, RowsSay
<1>11. out(q, p) <=> sends(q, p) # {} BY <1>7, RowsSay
<1>12. in(q, p) <=> sends(p, q) # {} BY <1>7, RowsSay
<1> HIDE DEF sends
<1>13. out(p, q) \/ in(p, q) BY <1>8
<1>14. in(q, p) \/ out(q, p) BY <1>9, <1>10, <1>11, <1>12, <1>13
<1>15. Of(q, p) # {} BY <1>14
<1>16. p \in DOMAIN from(q) /\ q \in DOMAIN from(p) BY <1>3, <1>8, <1>15
<1>17. Cardinality(Of(p, q)) = Cardinality(Of(q, p))
  <2> DEFINE a == Cardinality(sends(p, q))
             b == Cardinality(sends(q, p))
  <2>1. a \in Nat /\ b \in Nat BY SendsAre DEF sends
  <2>2. Cardinality(Of(p, q)) = a + b BY <1>7, RowsCount, Zenon DEF sends
  <2>3. Cardinality(Of(q, p)) = b + a BY <1>7, RowsCount, Zenon DEF sends
  <2> HIDE DEF a, b
  <2> QED BY <2>1, <2>2, <2>3
<1> HIDE DEF out, in
<1>18. says(p, q) = "depends_on" <=> out(p, q) /\ ~in(p, q) BY DEF says
<1>19. says(q, p) = "depended_on_by" <=> ~out(q, p) BY DEF says
<1>20. says(p, q) = "depends_on" <=> says(q, p) = "depended_on_by" BY <1>9, <1>10, <1>11, <1>13, <1>18, <1>19
<1>21. from(p)[q].count = from(q)[p].count BY <1>4, <1>16, <1>17
<1>22. from(p)[q].direction = says(p, q) /\ from(q)[p].direction = says(q, p) BY <1>4, <1>16
<1>23. Agree(from(p), from(q), p, q) BY <1>16, <1>20, <1>21, <1>22 DEF Agree
<1> QED BY <1>23, Zenon DEF from, chunks

\* Where the search starts, and the graphs it is given.
LEMMA SeedsAre ==
    ASSUME NEW home, IsFiniteSet(DOMAIN home), NEW seed \in DOMAIN home, NEW by \in {"chunk", "document"}
    PROVE  G!Seeds(<<>>, ChunksOf(home), by, IF by = "chunk" THEN seed ELSE home[seed]) \in Seq(DOMAIN home)
<1> DEFINE what == IF by = "chunk" THEN seed ELSE home[seed]
           chunks == ChunksOf(home)
           seeds == G!Seeds(<<>>, chunks, by, what)
<1>1. CASE by = "chunk"
  <2>1. seeds = <<seed>> BY <1>1 DEF G!Seeds
  <2>2. <<seed>> \in Seq(DOMAIN home) OBVIOUS
  <2>3. seeds \in Seq(DOMAIN home) BY <2>1, <2>2, Zenon
  <2> QED BY <2>3
<1>2. CASE by = "document"
  <2> DEFINE here == {c \in chunks : c.path = home[seed]}
             S == {chunk.id : chunk \in here}
  <2>1. seeds = G!SetToSeq(S)
    <3>1. by # "chunk" /\ by # "symbol" BY <1>2
    <3>2. what = home[seed] BY <3>1
    <3> HIDE DEF what
    <3>3. seeds = G!SetToSeq({chunk.id : chunk \in {c \in chunks : c.path = what}}) BY <1>2, <3>1 DEF G!Seeds
    <3> QED BY <3>2, <3>3
  <2>2. S \subseteq DOMAIN home
    <3>1. \A c \in here : c.id \in DOMAIN home BY ChunksAre
    <3> HIDE DEF here
    <3> QED BY <3>1
  <2>3. IsFiniteSet(S) BY <2>2, FS_Subset
  <2> HIDE DEF S
  <2>4. G!SetToSeq(S) \in Seq(S) BY <2>3, Listed
  <2> QED BY <2>1, <2>2, <2>4
<1>3. seeds \in Seq(DOMAIN home) BY <1>1, <1>2
<1> QED BY <1>3

EdgesOf(pairs) == {G!Edge(pair[1], pair[2], "cross_file", "f") : pair \in pairs}

LEMMA EdgesAre ==
    ASSUME NEW home, IsFiniteSet(DOMAIN home), NEW pairs \in SUBSET ((DOMAIN home) \X (DOMAIN home))
    PROVE  IsFiniteSet(EdgesOf(pairs)) /\ Ends(EdgesOf(pairs), home)
<1> DEFINE X == DOMAIN home
           edge(pair) == G!Edge(pair[1], pair[2], "cross_file", "f")
           f == [pair \in pairs |-> edge(pair)]
<1>1. IsFiniteSet(X \X X) BY FS_Product
<1>2. IsFiniteSet(pairs) BY <1>1, FS_Subset
<1>3. EdgesOf(pairs) = {edge(pair) : pair \in pairs} BY Zenon DEF EdgesOf
<1>4. f \in Surjection(pairs, EdgesOf(pairs))
  <2> HIDE DEF edge
  <2> QED BY <1>3 DEF Surjection
<1>5. IsFiniteSet(EdgesOf(pairs))
  <2> HIDE DEF f
  <2> QED BY <1>2, <1>4, FS_Surjection
<1>6. \A pair \in pairs : edge(pair).source \in X /\ edge(pair).target \in X
  <2> TAKE pair \in pairs
  <2>1. pair[1] \in X /\ pair[2] \in X OBVIOUS
  <2>2. edge(pair) = [source |-> pair[1], target |-> pair[2], kind |-> "cross_file", name |-> "f"] BY Zenon DEF G!Edge
  <2> HIDE DEF edge
  <2> QED BY <2>1, <2>2
<1> HIDE DEF edge
<1> QED BY <1>3, <1>5, <1>6 DEF Ends

\* Whoever is within some steps is one of the chunks.
LEMMA WithinChunks ==
    ASSUME NEW edges, NEW Id, Sources(edges, Id), NEW Within, Widens(edges, Within), Within[0] \subseteq Id, NEW n \in Nat
    PROVE  Within[n] \subseteq Id
<1> DEFINE good == {k \in Nat : Within[k] \subseteq Id}
<1>1. 0 \in good OBVIOUS
<1>2. \A k \in 0..n - 1 : k \in good => k + 1 \in good
  <2> TAKE k \in 0..n - 1
  <2> HAVE k \in good
  <2>1. Within[k + 1] = Within[k] \cup {e.source : e \in {f \in edges : f.target \in Within[k]}} BY DEF Widens
  <2>2. \A e \in edges : e.source \in Id BY DEF Sources
  <2>3. Within[k + 1] \subseteq Id BY <2>1, <2>2
  <2> QED BY <2>3
<1> HIDE DEF good
<1>3. n \in good BY <1>1, <1>2, Upto
<1> QED BY <1>3 DEF good

LEMMA FilesCount ==
    ASSUME NEW home, NEW impact, IsFiniteSet(DOMAIN impact), DOMAIN impact \subseteq DOMAIN home
    PROVE  Counted(G!ImpactFiles(ChunksOf(home), impact)) = Cardinality(DOMAIN impact)
<1> DEFINE D == DOMAIN impact
           chunks == ChunksOf(home)
           files == G!ImpactFiles(chunks, impact)
           path == [id \in D |-> home[id]]
           In(p) == {id \in D : p \in G!PathOf(chunks, id)}
<1>1. \A id \in D : G!PathOf(chunks, id) = {home[id]} BY PathIs
<1>2. files = [p \in UNION {G!PathOf(chunks, id) : id \in D} |->
                  [count |-> G!Cardinality(In(p)), near |-> G!Min({impact[id] : id \in In(p)}),
                   far |-> G!Max({impact[id] : id \in In(p)})]]
  BY Zenon DEF G!ImpactFiles
<1> HIDE DEF files, chunks, D
<1>3. UNION {G!PathOf(chunks, id) : id \in D} = {path[id] : id \in D} BY <1>1
<1>4. DOMAIN files = {path[id] : id \in D} BY <1>2, <1>3
<1>5. \A p : In(p) = {id \in D : path[id] = p} BY <1>1
<1>6. \A p \in DOMAIN files : files[p].count = Cardinality({id \in D : path[id] = p})
  <2> TAKE p \in DOMAIN files
  <2>1. files[p].count = G!Cardinality(In(p))
    <3> HIDE DEF In
    <3> QED BY <1>2
  <2> HIDE DEF path
  <2>2. In(p) = {id \in D : path[id] = p} BY <1>5
  <2> QED BY <2>1, <2>2, SameCount, Zenon
<1>7. path \in [D -> {home[id] : id \in D}] OBVIOUS
<1>8. IsFiniteSet(D) BY DEF D
<1>9. CountsEach(files, D, path) BY <1>4, <1>6, Zenon DEF CountsEach
<1> HIDE DEF path
<1>10. Counted(files) = Cardinality(D) BY <1>7, <1>8, <1>9, CountsAdd
<1> QED BY <1>10, Zenon DEF files, chunks, D

\* What ImpactIsDistance says of an answer: for either way to name the seeds,
\* the distances and the counts, and what coupling says.
Distances(edges, depth, first, impact, files) ==
    LET within == Reach(edges, first)
    IN  /\ DOMAIN impact = within[depth] \ within[0]
        /\ \A id \in DOMAIN impact : id \in within[impact[id]] \ within[impact[id] - 1]
        /\ Cardinality(DOMAIN impact) = FoldFunction(LAMBDA file, n : n + file.count, 0, files)
Mutual(coupling) ==
    \A p, q \in DOMAIN coupling : q \in DOMAIN coupling[p] =>
        /\ p \in DOMAIN coupling[q]
        /\ coupling[p][q].count = coupling[q][p].count
        /\ (coupling[p][q].direction = "depends_on") = (coupling[q][p].direction = "depended_on_by")
FollowFits(i, a) ==
    /\ \A by \in {"chunk", "document"} : Distances(i.edges, i.depth, a.seeds[by], a.impact[by], a.files[by])
    /\ Mutual(a.coupling)

GraphOf(i) == /\ i.depth \in Nat /\ i.seed \in DOMAIN ChunkPaths
              /\ IsFiniteSet(i.edges) /\ Ends(i.edges, ChunkPaths)
GraphInv ==
    /\ task = "impact" => GraphOf(input)
    /\ Answered("impact") => FollowFits(input, answer)

LEMMA DistancesFit ==
    ASSUME NEW home, IsFiniteSet(DOMAIN home), NEW edges, IsFiniteSet(edges), Ends(edges, home),
           NEW depth \in Nat, NEW seeds \in Seq(DOMAIN home)
    PROVE  LET impact == G!Impact(edges, ChunksOf(home), seeds, depth)
           IN  Distances(edges, depth, ToSet(seeds), impact, G!ImpactFiles(ChunksOf(home), impact))
<1> DEFINE Id == DOMAIN home
           chunks == ChunksOf(home)
           first == G!ToSet(seeds)
           Within == Reach(edges, first)
           impact == G!Impact(edges, chunks, seeds, depth)
<1>1. ToSet(seeds) = first BY Zenon DEF ToSet, G!ToSet
<1>2. Within[0] = first /\ Widens(edges, Within) BY WithinIs, Zenon
<1> HIDE DEF Within
<1>3. Sources(edges, Id) BY DEF Sources, Ends
<1>4. first \subseteq Id BY DEF G!ToSet
<1> HIDE DEF Id
<1>5. /\ DOMAIN impact = {id \in Within[depth] \ Within[0] : G!PathOf(chunks, id) # {}}
      /\ \A id \in DOMAIN impact : impact[id] \in 1..depth /\ id \in Within[impact[id]] \ Within[impact[id] - 1]
  <2>1. seeds \in Seq(Id) BY DEF Id
  <2> HIDE DEF first, chunks
  <2>2. Within[0] = G!ToSet(seeds) BY <1>2 DEF first
  <2> QED BY <1>2, <1>3, <2>1, <2>2, ImpactExact
<1>6. Within[depth] \subseteq Id BY <1>2, <1>3, <1>4, WithinChunks
<1>7. \A id \in Id : G!PathOf(chunks, id) # {}
  <2> TAKE id \in Id
  <2>1. G!PathOf(chunks, id) = {home[id]} BY PathIs DEF Id
  <2> QED BY <2>1
<1> HIDE DEF impact, chunks
<1>8. DOMAIN impact = Within[depth] \ Within[0] BY <1>5, <1>6, <1>7
<1>9. DOMAIN impact \subseteq Id BY <1>6, <1>8
<1>10. IsFiniteSet(DOMAIN impact) BY <1>9, FS_Subset DEF Id
<1>11. Counted(G!ImpactFiles(chunks, impact)) = Cardinality(DOMAIN impact)
  BY <1>9, <1>10, FilesCount DEF Id, chunks
<1>12. Cardinality(DOMAIN impact) = FoldFunction(LAMBDA file, n : n + file.count, 0, G!ImpactFiles(chunks, impact))
  BY <1>11, SameCount, Zenon DEF Counted
<1>13. Distances(edges, depth, first, impact, G!ImpactFiles(chunks, impact))
  BY <1>5, <1>8, <1>12, Zenon DEF Distances, Within
<1> QED BY <1>1, <1>13, Zenon DEF impact, chunks

LEMMA CouplingFits ==
    ASSUME NEW home, NEW edges, IsFiniteSet(edges), Ends(edges, home)
    PROVE  Mutual([path \in {chunk.path : chunk \in ChunksOf(home)} |-> G!Coupling(edges, ChunksOf(home), path, FALSE)])
<1> DEFINE chunks == ChunksOf(home)
           paths == Homes(home)
           from(path) == G!Coupling(edges, chunks, path, FALSE)
           coupling == [path \in {chunk.path : chunk \in chunks} |-> from(path)]
<1>1. {chunk.path : chunk \in chunks} = paths
  <2>1. \A c \in chunks : c.id \in DOMAIN home /\ c.path = home[c.id] BY ChunksAre
  <2>2. \A id \in DOMAIN home : \E c \in chunks : c.path = home[id] BY ChunksAre
  <2> HIDE DEF chunks
  <2> QED BY <2>1, <2>2 DEF Homes
<1>2. ASSUME NEW p \in paths, NEW q \in paths, q \in DOMAIN from(p)
      PROVE  Agree(from(p), from(q), p, q)
  BY <1>2, CouplingAgrees, Zenon
<1> HIDE DEF from, chunks, paths
<1>3. DOMAIN coupling = paths /\ \A p \in paths : coupling[p] = from(p) BY <1>1
<1> HIDE DEF coupling
<1>4. ASSUME NEW p \in DOMAIN coupling, NEW q \in DOMAIN coupling, q \in DOMAIN coupling[p]
      PROVE  /\ p \in DOMAIN coupling[q]
             /\ coupling[p][q].count = coupling[q][p].count
             /\ (coupling[p][q].direction = "depends_on") = (coupling[q][p].direction = "depended_on_by")
  <2>1. p \in paths /\ q \in paths /\ coupling[p] = from(p) /\ coupling[q] = from(q) BY <1>3
  <2>2. Agree(coupling[p], coupling[q], p, q) BY <1>2, <1>4, <2>1
  <2> QED BY <2>2 DEF Agree
<1>5. Mutual(coupling) BY <1>4, Zenon DEF Mutual
<1> QED BY <1>5, Zenon DEF coupling, from, chunks

LEMMA GraphStarts ==
    ASSUME IsFiniteSet(DOMAIN ChunkPaths), Depths \subseteq Nat,
           Referrals \subseteq SUBSET ((DOMAIN ChunkPaths) \X (DOMAIN ChunkPaths)), GraphInputs
    PROVE  GraphInv
<1>1. ~Answered("impact") BY DEF GraphInputs, Chosen, Answered
<1>2. ASSUME task = "impact" PROVE GraphOf(input)
  <2>2. ~Chosen("edges") BY <1>2 DEF Chosen
  <2>3. PICK pairs \in Referrals, seed \in DOMAIN ChunkPaths, depth \in Depths :
            input = [edges |-> {G!Edge(pair[1], pair[2], "cross_file", "f") : pair \in pairs}, seed |-> seed, depth |-> depth]
    BY <2>2, Zenon DEF GraphInputs
  <2>4. input = [edges |-> EdgesOf(pairs), seed |-> seed, depth |-> depth] BY <2>3, Zenon DEF EdgesOf
  <2>5. input.edges = EdgesOf(pairs) /\ input.seed = seed /\ input.depth = depth BY <2>4
  <2>6. pairs \in SUBSET ((DOMAIN ChunkPaths) \X (DOMAIN ChunkPaths)) OBVIOUS
  <2>7. IsFiniteSet(EdgesOf(pairs)) /\ Ends(EdgesOf(pairs), ChunkPaths) BY <2>6, EdgesAre
  <2>8. depth \in Nat OBVIOUS
  <2> QED BY <2>5, <2>7, <2>8 DEF GraphOf
<1> QED BY <1>1, <1>2 DEF GraphInv

LEMMA GraphAnswers ==
    ASSUME IsFiniteSet(DOMAIN ChunkPaths), GraphOf(input), Follow
    PROVE  FollowFits(input, answer')
<1> DEFINE chunks == ChunksOf(ChunkPaths)
           seeds(by) == G!Seeds(<<>>, chunks, by, IF by = "chunk" THEN input.seed ELSE ChunkPaths[input.seed])
           both == {"chunk", "document"}
           impact(by) == G!Impact(input.edges, chunks, seeds(by), input.depth)
           files(by) == G!ImpactFiles(chunks, impact(by))
           coupling == [path \in {chunk.path : chunk \in chunks} |-> G!Coupling(input.edges, chunks, path, FALSE)]
<1>1. answer' = [impact |-> [by \in both |-> impact(by)], files |-> [by \in both |-> files(by)],
                 seeds |-> [by \in both |-> ToSet(seeds(by))], coupling |-> coupling]
  BY Zenon DEF Follow, ChunksOf
<1>2. input.depth \in Nat /\ input.seed \in DOMAIN ChunkPaths /\ IsFiniteSet(input.edges) /\ Ends(input.edges, ChunkPaths)
  BY DEF GraphOf
<1>3. \A by \in both : seeds(by) \in Seq(DOMAIN ChunkPaths) BY <1>2, SeedsAre
<1> HIDE DEF seeds
<1>4. ASSUME NEW by \in both
      PROVE  Distances(input.edges, input.depth, ToSet(seeds(by)), impact(by), files(by))
  <2>1. seeds(by) \in Seq(DOMAIN ChunkPaths) BY <1>3
  <2> QED BY <1>2, <2>1, DistancesFit, Zenon
<1>5. Mutual(coupling) BY <1>2, CouplingFits, Zenon
<1> HIDE DEF impact, files, coupling
<1>6. /\ answer'.coupling = coupling
      /\ \A by \in both : answer'.impact[by] = impact(by) /\ answer'.files[by] = files(by)
                          /\ answer'.seeds[by] = ToSet(seeds(by))
  BY <1>1
<1> QED BY <1>4, <1>5, <1>6, Zenon DEF FollowFits

\* impact_radius, coupling: whatever is referred to from where, each chunk
\* that depends on the seeds is given its distance, none that is near enough is
\* left out, each is counted in one file, and two files are told the same of
\* one another.
THEOREM ImpactTold == GraphInputs /\ [][BuildEdges \/ Follow]_taskVars => []ImpactIsDistance
<1>1. GraphInputs => GraphInv BY ReferralsAssumption, GraphStarts
<1>2. GraphInv /\ [BuildEdges \/ Follow]_taskVars => GraphInv'
  <2> SUFFICES ASSUME GraphInv, [BuildEdges \/ Follow]_taskVars PROVE GraphInv' OBVIOUS
  <2>1. CASE BuildEdges
    <3>1. task' = "edges" BY <2>1 DEF BuildEdges, Runs
    <3> QED BY <3>1 DEF GraphInv, Answered
  <2>2. CASE Follow
    <3>1. task = "impact" /\ ~done /\ done' = TRUE /\ task' = task /\ input' = input BY <2>2 DEF Follow, Runs
    <3>2. GraphOf(input) BY <3>1 DEF GraphInv
    <3>3. FollowFits(input, answer') BY <2>2, <3>2, ReferralsAssumption, GraphAnswers
    <3> QED BY <3>1, <3>2, <3>3 DEF GraphInv
  <2>3. CASE UNCHANGED taskVars BY <2>3 DEF taskVars, GraphInv, Answered
  <2> QED BY <2>1, <2>2, <2>3
<1>3. GraphInv => ImpactIsDistance BY Zenon DEF GraphInv, ImpactIsDistance, FollowFits, Distances, Reach, Mutual
<1> QED BY <1>1, <1>2, <1>3, PTL
===============================================================================
