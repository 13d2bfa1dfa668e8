--------------------------- MODULE Signatures_proofs ---------------------------
(***************************************************************************)
(* Proofs about Signatures, for any files and bounds: every save leaves a  *)
(* row for each chunk, and a process that only adds chunks ranks each of   *)
(* them by its own signature, although rows and chunks are tied by their   *)
(* positions alone.                                                        *)
(***************************************************************************)
EXTENDS Signatures, SequenceTheorems, FiniteSetTheorems, WellFoundedInduction, TLAPS

USE SignaturesAssumption DEF SignaturesAssumption

-------------------------------------------------------------------------------
\* What retain keeps: the n-th position kept is well defined.

\* A non-empty set of numbers has a least element.
LEMMA Least ==
    ASSUME NEW S \in SUBSET Nat, S # {}
    PROVE  \E m \in S : \A n \in S : m <= n
<1>1. PICK m \in S : \A n \in S : ~ (<<n, m>> \in OpToRel(<, Nat))
  BY WFMin, NatLessThanWellFounded, Zenon
<1>2. \A n \in S : ~ (n < m)
  BY <1>1, Zenon DEF OpToRel
<1>3. \A n \in S : m <= n
  BY <1>2
<1> QED BY <1>3

LEMMA Below ==
    ASSUME NEW keep \in SUBSET Nat, NEW m \in Nat
    PROVE  /\ m = 0 => {j \in keep : j < m} = {}
           /\ m # 0 => {j \in keep : j < m} = {j \in keep : j <= m - 1}
           /\ m \in keep => {j \in keep : j <= m} = {j \in keep : j < m} \cup {m}
           /\ m \notin keep => {j \in keep : j <= m} = {j \in keep : j < m}
<1>1. \A j \in keep : j \in Nat
  OBVIOUS
<1>2. \A j \in keep : (m = 0 => ~ (j < m)) /\ (j <= m <=> j < m \/ j = m)
                      /\ (j < m <=> j <= m - 1)
  BY <1>1
<1> QED BY <1>2

LEMMA NthExists ==
    ASSUME NEW keep \in SUBSET Nat, IsFiniteSet(keep), NEW n \in 1..Cardinality(keep),
           NEW top \in Nat, \A i \in keep : i <= top
    PROVE  \E i \in keep : Cardinality({j \in keep : j < i}) = n - 1
<1> DEFINE upto(m) == {j \in keep : j <= m}
           below(m) == {j \in keep : j < m}
           many == {m \in Nat : Cardinality(upto(m)) >= n}
<1>1. \A m \in Nat : /\ IsFiniteSet(below(m)) /\ Cardinality(below(m)) \in Nat
                     /\ IsFiniteSet(upto(m)) /\ Cardinality(upto(m)) \in Nat
  BY FS_Subset, FS_CardinalityType
<1>2. upto(top) = keep
  OBVIOUS
<1>3. Cardinality(keep) \in Nat
  BY FS_CardinalityType
<1>4. top \in many
  BY <1>2, <1>3
<1>5. PICK m \in many : \A k \in many : m <= k
  BY <1>4, Least
<1>6. /\ m \in Nat /\ n \in Nat /\ n # 0
      /\ Cardinality(upto(m)) >= n
      /\ \A k \in Nat : k < m => ~ (Cardinality(upto(k)) >= n)
  BY <1>3, <1>5
<1>7. m = 0 => below(m) = {}
  BY <1>6, Below
<1>8. m # 0 => m - 1 \in Nat /\ m - 1 < m /\ below(m) = upto(m - 1)
  <2>1. m # 0 => m - 1 \in Nat /\ m - 1 < m
    BY <1>6
  <2> QED BY <1>6, <2>1, Below
<1>9. /\ m \in keep => upto(m) = below(m) \cup {m} /\ m \notin below(m)
      /\ m \notin keep => upto(m) = below(m)
  <2>1. m \notin below(m)
    BY <1>6
  <2> QED BY <1>6, <2>1, Below
<1> HIDE DEF upto, below, many
<1>10. Cardinality(below(m)) < n
  BY <1>1, <1>6, <1>7, <1>8, FS_EmptySet
<1>11. m \in keep
  BY <1>1, <1>6, <1>9, <1>10
<1>12. Cardinality(upto(m)) = Cardinality(below(m)) + 1
  BY <1>1, <1>6, <1>9, <1>11, FS_AddElement
<1>13. Cardinality(below(m)) = n - 1
  BY <1>1, <1>6, <1>10, <1>12
<1> QED BY <1>11, <1>13 DEF below

\* Dropping documents leaves a list of chunks.
LEMMA WithoutType ==
    ASSUME chunks \in Seq(Chunk), NEW paths
    PROVE  Without(paths) \in Seq(Chunk)
<1> DEFINE keep == {i \in DOMAIN chunks : chunks[i].path \notin paths}
           Nth(n) == CHOOSE i \in keep : Cardinality({j \in keep : j < i}) = n - 1
<1>1. keep \in SUBSET Nat /\ keep \subseteq 1..Len(chunks) /\ Len(chunks) \in Nat
  OBVIOUS
<1>2. IsFiniteSet(keep) /\ Cardinality(keep) \in Nat
  <2>1. IsFiniteSet(1..Len(chunks))
    BY <1>1, FS_Interval
  <2> HIDE DEF keep
  <2> QED BY <1>1, <2>1, FS_Subset, FS_CardinalityType
<1>3. ASSUME NEW n \in 1..Cardinality(keep) PROVE chunks[Nth(n)] \in Chunk
  <2> HIDE DEF keep
  <2>1. \A i \in keep : i <= Len(chunks)
    BY <1>1
  <2>2. \E i \in keep : Cardinality({j \in keep : j < i}) = n - 1
    BY <1>1, <1>2, <2>1, NthExists
  <2>3. Nth(n) \in keep
    BY <2>2
  <2>4. \A i \in keep : chunks[i] \in Chunk
    BY <1>1
  <2> HIDE DEF Nth
  <2> QED BY <2>3, <2>4
<1>4. Without(paths) = [n \in 1..Cardinality(keep) |-> chunks[Nth(n)]]
  BY DEF Without
<1> HIDE DEF keep, Nth
<1> QED BY <1>2, <1>3, <1>4, IsASeq

LEMMA PiecesType ==
    ASSUME made \in 0..MaxVersions, made < MaxVersions,
           NEW f \in File, NEW n \in 1..MaxPieces
    PROVE  /\ Pieces(f, n) \in Seq(Chunk) /\ Len(Pieces(f, n)) = n /\ n \in Nat
           /\ \A i \in 1..n : Pieces(f, n)[i] \in Chunk
<1> DEFINE piece(i) == [path |-> f, made |-> made + 1, at |-> i, embedded |-> FALSE]
<1>1. made + 1 \in 1..MaxVersions /\ n \in Nat /\ \A i \in 1..n : i \in 1..MaxPieces
  OBVIOUS
<1>2. \A i \in 1..n : piece(i) \in Chunk
  BY <1>1 DEF Chunk
<1>3. Pieces(f, n) = [i \in 1..n |-> piece(i)]
  BY DEF Pieces
<1> HIDE DEF piece
<1> QED BY <1>1, <1>2, <1>3

LEMMA SignatureType ==
    ASSUME NEW c \in Chunk PROVE Signature(c) \in RowType
BY DEF Chunk, Signature, RowType

\* ensure_sigs makes one row for each chunk.
LEMMA EnsuredType ==
    ASSUME TypeOK
    PROVE  /\ Ensured(chunks, sigs) \in Seq(RowType)
           /\ Len(Ensured(chunks, sigs)) = Len(chunks)
<1> DEFINE row(i) == IF chunks[i] \in hex THEN Signature(chunks[i]) ELSE Zero
           fresh == [i \in 1..Len(chunks) |-> row(i)]
<1>1. Len(chunks) \in Nat /\ \A i \in 1..Len(chunks) : chunks[i] \in Chunk
  BY DEF TypeOK
<1>2. \A i \in 1..Len(chunks) : row(i) \in RowType
  BY <1>1, SignatureType DEF RowType
<1>3. fresh \in Seq(RowType) /\ Len(fresh) = Len(chunks)
  <2> HIDE DEF row
  <2> QED BY <1>1, <1>2
<1>4. Len(file) >= Len(chunks) =>
        /\ SubSeq(file, 1, Len(chunks)) \in Seq(RowType)
        /\ Len(SubSeq(file, 1, Len(chunks))) = Len(chunks)
  BY <1>1, SubSeqProperties DEF TypeOK
<1>5. Ensured(chunks, sigs) =
        IF Len(sigs) = Len(chunks) THEN sigs
        ELSE IF Len(file) >= Len(chunks) THEN SubSeq(file, 1, Len(chunks)) ELSE fresh
  BY DEF Ensured
<1> HIDE DEF fresh
<1> QED BY <1>3, <1>4, <1>5 DEF TypeOK

-------------------------------------------------------------------------------
(* The types, and a row for each chunk.                                        *)

\* The file has a row for each chunk of the snapshot, except between the two
\* writes of a save, and after one stopped there; a save between its writes
\* is not whole yet.
RowsSaved == /\ ~torn => Len(file) = Len(saved)
             /\ pc = "rename" => torn

\* A chunk that an agent embedded is ranked by its own vector whatever its row.
OwnRow(c, row) == c.embedded \/ row = Signature(c)

\* A process that only adds chunks knows the signature of each, has never more
\* rows than chunks, and every row it wrote, or would rank by, is the chunk's
\* own.
OwnRows ==
    appended =>
        /\ \A i \in DOMAIN chunks : chunks[i].embedded \/ chunks[i] \in hex
        /\ Len(sigs) <= Len(chunks) /\ Len(file) <= Len(chunks)
        /\ Len(sigs) = Len(chunks) => \A i \in DOMAIN sigs : OwnRow(chunks[i], sigs[i])
        /\ \A i \in DOMAIN file : OwnRow(chunks[i], file[i])

Inv == TypeOK /\ RowsSaved /\ OwnRows

LEMMA InitInv == Init => Inv
<1> SUFFICES ASSUME Init PROVE Inv
  OBVIOUS
<1>1. /\ chunks = <<>> /\ sigs = <<>> /\ hex = {} /\ saved = <<>> /\ file = <<>>
      /\ pc = "ready" /\ made = 0 /\ loads = 0 /\ kills = 0
      /\ appended = TRUE /\ torn = FALSE
  BY DEF Init
<1>2. TypeOK
  <2>1. chunks \in Seq(Chunk) /\ saved \in Seq(Chunk)
    BY <1>1
  <2>2. sigs \in Seq(RowType) /\ file \in Seq(RowType)
    BY <1>1
  <2>3. made \in 0..MaxVersions /\ loads \in 0..MaxLoads /\ kills \in 0..MaxKills
    BY <1>1
  <2> QED BY <1>1, <2>1, <2>2, <2>3 DEF TypeOK
<1>3. RowsSaved
  BY <1>1 DEF RowsSaved
<1>4. OwnRows
  BY <1>1 DEF OwnRows
<1> QED BY <1>2, <1>3, <1>4 DEF Inv

\* Chunks are dropped: what is left is well typed, and nothing is claimed of
\* the rows any more.
LEMMA DropStep ==
    ASSUME Inv, NEW paths, NEW next \in {"save", "ready"},
           Changed(Without(paths), sigs, next), appended' = FALSE,
           UNCHANGED <<hex, made>>
    PROVE  Inv'
<1>1. /\ pc = "ready" /\ pc' = next /\ chunks' \in Seq(Chunk)
      /\ UNCHANGED <<sigs, saved, file, loads, kills, torn>>
  BY WithoutType DEF Changed, Inv, TypeOK
<1> QED BY <1>1 DEF Inv, TypeOK, RowsSaved, OwnRows

\* Pushing leaves the places of what was there before.
LEMMA AddedAtEnd ==
    ASSUME NEW list \in Seq(Chunk), NEW new \in Seq(Chunk)
    PROVE  /\ Len(list \o new) = Len(list) + Len(new)
           /\ Len(list) \in Nat /\ Len(new) \in Nat
           /\ \A i \in 1..Len(list) : (list \o new)[i] = list[i]
           /\ \A i \in 1..Len(list \o new) :
                i > Len(list) => \E j \in 1..Len(new) : (list \o new)[i] = new[j]
<1>1. Len(list) \in Nat /\ Len(new) \in Nat
  OBVIOUS
<1>2. /\ Len(list \o new) = Len(list) + Len(new)
      /\ \A i \in 1..(Len(list) + Len(new)) : (list \o new)[i] =
            IF i <= Len(list) THEN list[i] ELSE new[i - Len(list)]
  BY ConcatProperties
<1>3. ASSUME NEW i \in 1..(Len(list) + Len(new)), i > Len(list)
      PROVE  i - Len(list) \in 1..Len(new) /\ ~ (i <= Len(list))
  BY <1>1, <1>3
<1>4. \A i \in 1..Len(list) : i \in 1..(Len(list) + Len(new)) /\ i <= Len(list)
  BY <1>1
<1> QED BY <1>1, <1>2, <1>3, <1>4

\* Chunks are added to what is left.
LEMMA ReindexStep ==
    ASSUME Inv, NEW f \in File, NEW n \in 1..MaxPieces, NEW whole \in BOOLEAN,
           NEW next \in {"save", "ready"}, Reindex(f, n, whole, next)
    PROVE  Inv'
<1> DEFINE left == Without({f} \cup Unseen(whole))
           new == Pieces(f, n)
<1>1. /\ made < MaxVersions /\ made' = made + 1 /\ pc = "ready" /\ pc' = next
      /\ chunks' = left \o new /\ hex' = hex \cup {new[i] : i \in 1..n}
      /\ appended' = (appended /\ left = chunks)
      /\ UNCHANGED <<sigs, saved, file, loads, kills, torn>>
  BY DEF Reindex, Changed
<1>2. left \in Seq(Chunk)
  BY WithoutType DEF Inv, TypeOK
<1>3. new \in Seq(Chunk) /\ Len(new) = n /\ n \in Nat /\ \A i \in 1..n : new[i] \in Chunk
  BY <1>1, PiecesType DEF Inv, TypeOK
<1>4. n >= 1
  OBVIOUS
<1> HIDE DEF left, new
<1>5. TypeOK'
  BY <1>1, <1>2, <1>3 DEF Inv, TypeOK
<1>6. RowsSaved'
  BY <1>1 DEF Inv, RowsSaved
<1>7. OwnRows'
  <2> SUFFICES ASSUME appended' PROVE OwnRows'
    BY DEF OwnRows
  <2>1. appended /\ chunks' = chunks \o new /\ chunks \in Seq(Chunk)
    BY <1>1 DEF Inv, TypeOK
  <2>2. /\ Len(chunks') = Len(chunks) + n /\ Len(chunks) \in Nat
        /\ \A i \in 1..Len(chunks) : chunks'[i] = chunks[i]
        /\ \A i \in 1..Len(chunks') :
            i > Len(chunks) => \E j \in 1..n : chunks'[i] = new[j]
    <3>1. /\ Len(chunks \o new) = Len(chunks) + Len(new)
          /\ Len(chunks) \in Nat
          /\ \A i \in 1..Len(chunks) : (chunks \o new)[i] = chunks[i]
          /\ \A i \in 1..Len(chunks \o new) :
                i > Len(chunks) => \E j \in 1..Len(new) : (chunks \o new)[i] = new[j]
      BY <1>3, <2>1, AddedAtEnd
    <3> QED BY <1>3, <2>1, <3>1
  <2>3. \A i \in DOMAIN chunks' : chunks'[i].embedded \/ chunks'[i] \in hex'
    <3> SUFFICES ASSUME NEW i \in DOMAIN chunks'
                 PROVE  chunks'[i].embedded \/ chunks'[i] \in hex'
      OBVIOUS
    <3>1. i \in 1..Len(chunks') /\ (i \in 1..Len(chunks) \/ i > Len(chunks))
      BY <1>5, <2>2 DEF TypeOK
    <3>2. CASE i \in 1..Len(chunks)
      <4>1. i \in DOMAIN chunks /\ chunks'[i] = chunks[i]
        BY <2>1, <2>2, <3>2
      <4>2. chunks[i].embedded \/ chunks[i] \in hex
        BY <2>1, <4>1 DEF Inv, OwnRows
      <4> QED BY <1>1, <4>1, <4>2
    <3>3. CASE i > Len(chunks)
      <4>1. \E j \in 1..n : chunks'[i] = new[j]
        BY <2>2, <3>1, <3>3
      <4> QED BY <1>1, <4>1
    <3> QED BY <3>1, <3>2, <3>3
  <2>4. Len(sigs) \in Nat /\ Len(file) \in Nat
    BY DEF Inv, TypeOK
  <2>5. Len(sigs) < Len(chunks') /\ Len(file) < Len(chunks')
    BY <1>3, <1>4, <2>1, <2>2, <2>4 DEF Inv, OwnRows
  <2>6. \A i \in DOMAIN file : OwnRow(chunks'[i], file[i])
    BY <2>1, <2>2, <2>4 DEF Inv, TypeOK, OwnRows
  <2> QED BY <1>1, <2>3, <2>4, <2>5, <2>6 DEF OwnRows
<1> QED BY <1>5, <1>6, <1>7 DEF Inv

\* A memory chunk and its row of zeros: equal lengths stay equal.
LEMMA EmbedStep == ASSUME Inv, EmbedMemory PROVE Inv'
<1> DEFINE c == [path |-> "memory", made |-> made + 1, at |-> 1, embedded |-> TRUE]
<1>1. /\ made < MaxVersions /\ made' = made + 1 /\ pc = "ready" /\ pc' = "save"
      /\ chunks' = Append(chunks, c) /\ sigs' = Append(sigs, Zero)
      /\ UNCHANGED <<hex, appended, saved, file, loads, kills, torn>>
  BY DEF EmbedMemory, Changed
<1>2. c \in Chunk /\ c.embedded
  BY <1>1 DEF Chunk, Inv, TypeOK
<1> HIDE DEF c
<1>3. Zero \in RowType
  BY DEF RowType
<1>4. /\ chunks \in Seq(Chunk) /\ sigs \in Seq(RowType) /\ file \in Seq(RowType)
  BY DEF Inv, TypeOK
<1>5. /\ chunks' \in Seq(Chunk) /\ Len(chunks') = Len(chunks) + 1
      /\ \A i \in 1..Len(chunks) : chunks'[i] = chunks[i]
      /\ chunks'[Len(chunks) + 1] = c
  BY <1>1, <1>2, <1>4, AppendProperties
<1>6. /\ sigs' \in Seq(RowType) /\ Len(sigs') = Len(sigs) + 1
      /\ \A i \in 1..Len(sigs) : sigs'[i] = sigs[i]
  BY <1>1, <1>3, <1>4, AppendProperties
<1>7. Len(chunks) \in Nat /\ Len(sigs) \in Nat /\ Len(file) \in Nat
  BY <1>4
<1>8. TypeOK'
  BY <1>1, <1>5, <1>6 DEF Inv, TypeOK
<1>9. RowsSaved'
  BY <1>1 DEF Inv, RowsSaved
<1>10. OwnRows'
  <2> SUFFICES ASSUME appended PROVE OwnRows'
    BY <1>1 DEF OwnRows
  <2>1. \A i \in 1..Len(chunks') : i \in 1..Len(chunks) \/ i = Len(chunks) + 1
    BY <1>5, <1>7
  <2>2. \A i \in DOMAIN chunks' : chunks'[i].embedded \/ chunks'[i] \in hex'
    BY <1>1, <1>2, <1>4, <1>5, <2>1 DEF Inv, OwnRows
  <2>3. Len(sigs') <= Len(chunks') /\ Len(file) <= Len(chunks')
    BY <1>5, <1>6, <1>7 DEF Inv, OwnRows
  <2>4. ASSUME Len(sigs') = Len(chunks'), NEW i \in DOMAIN sigs'
        PROVE  OwnRow(chunks'[i], sigs'[i])
    <3>1. Len(sigs) = Len(chunks) /\ i \in 1..Len(chunks')
      BY <1>5, <1>6, <1>7, <2>4
    <3>2. CASE i \in 1..Len(chunks)
      BY <1>4, <1>5, <1>6, <3>1, <3>2 DEF Inv, OwnRows
    <3>3. CASE i = Len(chunks) + 1
      BY <1>2, <1>5, <3>3 DEF OwnRow
    <3> QED BY <2>1, <3>1, <3>2, <3>3
  <2>5. ASSUME NEW i \in DOMAIN file PROVE OwnRow(chunks'[i], file[i])
    <3>1. OwnRow(chunks[i], file[i]) /\ Len(file) <= Len(chunks)
      BY DEF Inv, OwnRows
    <3>2. i \in 1..Len(chunks)
      BY <1>4, <1>7, <3>1
    <3> QED BY <1>5, <3>1, <3>2
  <2> QED BY <1>1, <2>2, <2>3, <2>4, <2>5 DEF OwnRows
<1> QED BY <1>8, <1>9, <1>10 DEF Inv

\* The rows ensure_sigs makes are the chunks' own as long as chunks were only
\* added: it keeps a list of the right length, takes a file that has a row for
\* each chunk, or reads the signatures the chunks carry.
LEMMA EnsuredOwn ==
    ASSUME Inv, appended
    PROVE  \A i \in DOMAIN chunks : OwnRow(chunks[i], Ensured(chunks, sigs)[i])
<1>1. /\ chunks \in Seq(Chunk) /\ sigs \in Seq(RowType) /\ file \in Seq(RowType)
      /\ Len(chunks) \in Nat /\ Len(file) \in Nat /\ Len(sigs) \in Nat
  BY DEF Inv, TypeOK
<1>2. CASE Len(sigs) = Len(chunks)
  BY <1>1, <1>2 DEF Ensured, Inv, OwnRows
<1>3. CASE Len(sigs) # Len(chunks) /\ Len(file) >= Len(chunks)
  <2>1. Len(file) = Len(chunks)
    BY <1>1, <1>3 DEF Inv, OwnRows
  <2>2. \A i \in 1..Len(chunks) : SubSeq(file, 1, Len(chunks))[i] = file[i]
    BY <1>1, <2>1
  <2> QED BY <1>1, <1>3, <2>1, <2>2 DEF Ensured, Inv, OwnRows
<1>4. CASE Len(sigs) # Len(chunks) /\ ~ (Len(file) >= Len(chunks))
  BY <1>1, <1>4 DEF Ensured, Inv, OwnRows, OwnRow
<1> QED BY <1>2, <1>3, <1>4

\* Where the write of the rows stops, the file is as it was or has the first of
\* the rows; its length fits the snapshot if nothing changed.
LEMMA CutShortStep ==
    ASSUME Inv, pc = "save", CutShort(Ensured(chunks, sigs))
    PROVE  /\ file' \in Seq(RowType) /\ torn' \in BOOLEAN
           /\ ~torn' => file' = file /\ ~torn
           /\ \/ file' = file
              \/ /\ Len(file') <= Len(chunks)
                 /\ \A i \in DOMAIN file' :
                        i \in DOMAIN chunks /\ file'[i] = Ensured(chunks, sigs)[i]
<1> DEFINE rows == Ensured(chunks, sigs)
<1>1. rows \in Seq(RowType) /\ Len(rows) = Len(chunks) /\ Len(chunks) \in Nat
  BY EnsuredType DEF Inv, TypeOK
<1>2. /\ file' \in {file} \cup {SubSeq(rows, 1, n) : n \in 0..Len(rows)}
      /\ torn' = (torn \/ file' # file)
  BY DEF CutShort
<1> HIDE DEF rows
<1>3. ASSUME NEW n \in 0..Len(rows), file' = SubSeq(rows, 1, n)
      PROVE  /\ file' \in Seq(RowType) /\ Len(file') <= Len(chunks)
             /\ \A i \in DOMAIN file' : i \in DOMAIN chunks /\ file'[i] = rows[i]
  <2>1. n \in Nat /\ n <= Len(rows)
    BY <1>1
  <2>2. /\ SubSeq(rows, 1, n) \in Seq(RowType) /\ Len(SubSeq(rows, 1, n)) = n
        /\ \A i \in 1..n : SubSeq(rows, 1, n)[i] = rows[i]
    BY <1>1, <2>1, SubSeqProperties
  <2>3. DOMAIN file' = 1..n /\ DOMAIN chunks = 1..Len(chunks)
    BY <1>3, <2>2 DEF Inv, TypeOK
  <2> QED BY <1>1, <1>3, <2>1, <2>2, <2>3
<1>4. file' = file => file' \in Seq(RowType)
  BY DEF Inv, TypeOK
<1>5. torn' \in BOOLEAN /\ (~torn' => file' = file /\ ~torn)
  BY <1>2 DEF Inv, TypeOK
<1> QED BY <1>2, <1>3, <1>4, <1>5 DEF rows

\* A hybrid query, and the first write of a save, whole or cut short.
LEMMA EnsuredStep ==
    ASSUME Inv, HybridQuery \/ WriteSigs \/ WriteSigsFails PROVE Inv'
<1> DEFINE rows == Ensured(chunks, sigs)
<1>1. /\ rows \in Seq(RowType) /\ Len(rows) = Len(chunks)
      /\ Len(chunks) \in Nat /\ chunks \in Seq(Chunk) /\ file \in Seq(RowType)
  BY EnsuredType DEF Inv, TypeOK
<1>2. appended => \A i \in DOMAIN chunks : OwnRow(chunks[i], rows[i])
  BY EnsuredOwn
<1>3. sigs' = rows /\ UNCHANGED <<chunks, hex, saved, made, loads, kills, appended>>
  BY DEF HybridQuery, WriteSigs, WriteSigsFails
<1>4. \/ pc = "ready" /\ UNCHANGED <<file, pc, torn>>
      \/ pc = "save" /\ file' = rows /\ pc' = "rename" /\ torn' = TRUE
      \/ /\ pc = "save" /\ pc' = "ready"
         /\ file' \in Seq(RowType) /\ torn' \in BOOLEAN
         /\ ~torn' => file' = file /\ ~torn
         /\ \/ file' = file
            \/ /\ Len(file') <= Len(chunks)
               /\ \A i \in DOMAIN file' : i \in DOMAIN chunks /\ file'[i] = rows[i]
  BY CutShortStep DEF HybridQuery, WriteSigs, WriteSigsFails
<1> HIDE DEF rows
<1>5. TypeOK'
  BY <1>1, <1>3, <1>4 DEF Inv, TypeOK
<1>6. RowsSaved'
  BY <1>3, <1>4 DEF Inv, RowsSaved
<1>7. OwnRows'
  <2>1. CASE file' = file
    BY <1>1, <1>2, <1>3, <2>1 DEF Inv, OwnRows
  <2>2. CASE file' = rows
    BY <1>1, <1>2, <1>3, <2>2 DEF Inv, OwnRows
  <2>3. CASE /\ Len(file') <= Len(chunks)
             /\ \A i \in DOMAIN file' : i \in DOMAIN chunks /\ file'[i] = rows[i]
    BY <1>1, <1>2, <1>3, <2>3 DEF Inv, OwnRows
  <2> QED BY <1>4, <2>1, <2>2, <2>3
<1> QED BY <1>5, <1>6, <1>7 DEF Inv

\* A process that read the store begins with no rows and no hex.
LEMMA LoadedStep ==
    ASSUME Inv, Loaded,
           loads' \in 0..MaxLoads, kills' \in 0..MaxKills,
           file' \in Seq(RowType), torn' \in BOOLEAN,
           ~torn' => file' = file /\ ~torn
    PROVE  Inv'
<1>1. /\ chunks' = saved /\ sigs' = <<>> /\ hex' = {} /\ pc' = "ready"
      /\ appended' = FALSE /\ UNCHANGED <<saved, made>>
  BY DEF Loaded
<1>2. TypeOK'
  <2>1. <<>> \in Seq(RowType)
    OBVIOUS
  <2> QED BY <1>1, <2>1 DEF Inv, TypeOK
<1>3. RowsSaved'
  BY <1>1 DEF Inv, RowsSaved
<1>4. OwnRows'
  BY <1>1 DEF OwnRows
<1> QED BY <1>2, <1>3, <1>4 DEF Inv

LEMMA NextInv == Inv /\ [Next]_vars => Inv'
<1> SUFFICES ASSUME Inv, [Next]_vars PROVE Inv'
  OBVIOUS
<1>1. CASE UNCHANGED vars
  BY <1>1 DEF vars, Inv, TypeOK, RowsSaved, OwnRows
<1>2. ASSUME NEW f \in File, NEW n \in 1..MaxPieces, NEW whole \in BOOLEAN,
             NEW next \in {"save", "ready"}, Reindex(f, n, whole, next)
      PROVE  Inv'
  BY <1>2, ReindexStep
<1>3. ASSUME NEW f \in File, NEW whole \in BOOLEAN, Remove(f, whole) PROVE Inv'
  BY <1>3, DropStep DEF Remove
<1>4. CASE IndexNothing
  BY <1>4, DropStep DEF IndexNothing
<1>5. CASE Rename \/ RenameFails
  <2>1. /\ pc = "rename" /\ pc' = "ready"
        /\ UNCHANGED <<chunks, sigs, hex, file, made, loads, kills, appended>>
        /\ (saved' = chunks /\ torn' = FALSE) \/ UNCHANGED <<saved, torn>>
    BY <1>5 DEF Rename, RenameFails
  <2>2. TypeOK'
    BY <2>1 DEF Inv, TypeOK
  <2>3. RowsSaved'
    BY <2>1 DEF Inv, TypeOK, RowsSaved
  <2>4. OwnRows'
    BY <2>1 DEF Inv, OwnRows
  <2> QED BY <2>2, <2>3, <2>4 DEF Inv
<1>6. CASE Load
  <2>1. loads' \in 0..MaxLoads /\ UNCHANGED <<file, kills, torn>>
    BY <1>6 DEF Load, Inv, TypeOK
  <2> QED BY <1>6, <2>1, LoadedStep DEF Load, Inv, TypeOK
<1>7. CASE Kill
  <2>1. kills' \in 0..MaxKills /\ UNCHANGED loads
    BY <1>7 DEF Kill, Inv, TypeOK
  <2>2. \/ pc = "save" /\ CutShort(Ensured(chunks, sigs))
        \/ UNCHANGED <<file, torn>>
    BY <1>7 DEF Kill
  <2>3. file' \in Seq(RowType) /\ torn' \in BOOLEAN /\ (~torn' => file' = file /\ ~torn)
    BY <2>2, CutShortStep DEF Inv, TypeOK
  <2> QED BY <1>7, <2>1, <2>3, LoadedStep DEF Kill, Inv, TypeOK
<1> QED BY <1>1, <1>2, <1>3, <1>4, <1>5, <1>6, <1>7, EmbedStep, EnsuredStep DEF Next

LEMMA Invariance == Spec => []Inv
BY InitInv, NextInv, PTL DEF Spec

\* Unless the last save stopped between its writes, the file has one row for
\* each chunk of the snapshot, whatever was indexed, removed, embedded, loaded
\* or left half-written before (ensure_sigs, Store::save).
THEOREM RowsComplete == Spec => []RowForEach
<1>1. Inv => RowForEach
  BY DEF Inv, RowsSaved, RowForEach
<1> QED BY <1>1, Invariance, PTL

\* One process that only adds chunks compares each by its own signature.
THEOREM OwnVectors == Spec => []OwnWhileAppending
<1>1. Inv => OwnWhileAppending
  <2> SUFFICES ASSUME Inv, appended, UpToDate, NEW i \in DOMAIN chunks
               PROVE  Vector(i) = Signature(chunks[i])
    BY DEF OwnWhileAppending
  <2>1. i \in DOMAIN sigs /\ Len(sigs) = Len(chunks)
    BY DEF UpToDate, Inv, TypeOK
  <2>2. chunks[i].embedded \/ sigs[i] = Signature(chunks[i])
    BY <2>1 DEF Inv, OwnRows, OwnRow
  <2> QED BY <2>2 DEF Vector
<1> QED BY <1>1, Invariance, PTL
===============================================================================
