------------------------- MODULE VectorStoreProofs -------------------------
(***************************************************************************)
(* Proofs about VectorStore, for every chunk size, overlap, set of         *)
(* documents and set of embedding dimensions: the windows of the chunker   *)
(* cover the text, and in memory vectors match chunks whatever was refused,*)
(* interrupted, restarted and loaded before.                               *)
(***************************************************************************)
EXTENDS VectorStore, FiniteSetTheorems, SequenceTheorems, TLAPS

(***************************************************************************)
(* The chunker.                                                            *)
(***************************************************************************)

\* Division by a positive number, the form in which the chunker uses it.
LEMMA DivisionBounds ==
    ASSUME NEW a \in Nat, NEW s \in Nat \ {0}
    PROVE  /\ a \div s \in Nat
           /\ (a \div s) * s <= a
           /\ a < (a \div s) * s + s
  BY Z3

\* The overlap is smaller than a chunk, so that the chunker moves on.
LEMMA StrideMovesOn == Stride \in Nat \ {0} /\ Stride <= ChunkSize
  BY StoreAssumption DEF Stride

\* The number of the last window is a number.
LEMMA LastWindowType == ASSUME NEW length \in Nat PROVE LastWindow(length) \in Nat
  <1>1. CASE length <= ChunkSize
    BY <1>1 DEF LastWindow
  <1>2. CASE ~(length <= ChunkSize)
    <2>1. length - ChunkSize + Stride - 1 \in Nat
      BY <1>2, StrideMovesOn, StoreAssumption
    <2>2. (length - ChunkSize + Stride - 1) \div Stride \in Nat
      BY <2>1, StrideMovesOn, DivisionBounds
    <2> QED BY <1>2, <2>2 DEF LastWindow
  <1> QED BY <1>1, <1>2

\* The last window, and only it, reaches the end of a text that has one.
LEMMA LastWindowReachesEnd ==
    ASSUME NEW length \in Nat, length > 0
    PROVE  /\ LastWindow(length) * Stride + ChunkSize >= length
           /\ \A k \in 0 .. LastWindow(length) - 1 : k * Stride + ChunkSize < length
  <1> DEFINE last == LastWindow(length)
  <1>1. CASE length <= ChunkSize
    <2>1. last = 0
      BY <1>1 DEF LastWindow
    <2> QED BY <1>1, <2>1, StrideMovesOn, StoreAssumption
  <1>2. CASE ~(length <= ChunkSize)
    <2> DEFINE rest == length - ChunkSize + Stride - 1
    <2>1. rest \in Nat
      BY <1>2, StrideMovesOn, StoreAssumption
    <2>2. last = rest \div Stride
      BY <1>2 DEF LastWindow
    <2>3. /\ last \in Nat
          /\ last * Stride <= rest
          /\ rest < last * Stride + Stride
      BY <2>1, <2>2, StrideMovesOn, DivisionBounds
    <2>4. last * Stride + ChunkSize >= length
      <3>1. last * Stride \in Nat
        BY <2>3, StrideMovesOn
      <3> HIDE DEF last
      <3> QED BY <2>3, <3>1, StrideMovesOn, StoreAssumption
    <2>5. ASSUME NEW k \in 0 .. last - 1
          PROVE  k * Stride + ChunkSize < length
      <3>1. k + 1 <= last /\ k \in Nat
        BY <2>3
      <3>2. k * Stride \in Nat /\ last * Stride \in Nat /\ k * Stride + Stride <= last * Stride
        <4> HIDE DEF last
        <4> QED BY <2>3, <3>1, StrideMovesOn, Z3
      <3> HIDE DEF last
      <3> QED BY <2>3, <3>2, StrideMovesOn, StoreAssumption
    <2> QED BY <2>4, <2>5
  <1> QED BY <1>1, <1>2

\* SimpleTextChunker loses no text: every position of a text is in one of its
\* windows, the last of which reaches the end.
THEOREM WindowsCoverText ==
    ASSUME NEW length \in Nat, NEW pos \in 0 .. length - 1
    PROVE  \E k \in 0 .. LastWindow(length) : pos \in Window(length, k)
  <1> DEFINE last == LastWindow(length)
             k == pos \div Stride
  <1>1. /\ k \in Nat /\ k * Stride <= pos /\ pos < k * Stride + Stride
    BY StrideMovesOn, DivisionBounds
  <1>2. last \in Nat /\ last * Stride + ChunkSize >= length
    BY LastWindowType, LastWindowReachesEnd
  <1>3. CASE k <= last
    <2>1. k * Stride \in Nat
      BY <1>1, StrideMovesOn
    <2>2. pos \in Window(length, k)
      <3> HIDE DEF k
      <3> QED BY <1>1, <2>1, StrideMovesOn, StoreAssumption DEF Window, Least
    <2> QED BY <1>1, <1>2, <1>3, <2>2
  <1>4. CASE ~(k <= last)
    <2>1. last * Stride \in Nat /\ k * Stride \in Nat /\ last * Stride <= k * Stride
      <3> HIDE DEF last, k
      <3> QED BY <1>1, <1>2, <1>4, StrideMovesOn, Z3
    <2>2. pos \in Window(length, last)
      <3> HIDE DEF last, k
      <3> QED BY <1>1, <1>2, <2>1, StoreAssumption DEF Window, Least
    <2> QED BY <1>2, <2>2
  <1> QED BY <1>3, <1>4

\* All windows but the last are full, so that a chunk is never longer than
\* chunk_size and consecutive chunks share exactly chunk_overlap characters.
THEOREM WindowsOverlap ==
    ASSUME NEW length \in Nat, length > 0, NEW k \in 0 .. LastWindow(length) - 1
    PROVE  /\ Window(length, k) = k * Stride .. k * Stride + ChunkSize - 1
           /\ k * Stride + ChunkSize - (k + 1) * Stride = ChunkOverlap
  <1>1. k \in Nat /\ LastWindow(length) \in Nat
    BY LastWindowType
  <1>2. k * Stride \in Nat /\ (k + 1) * Stride = k * Stride + Stride
    BY <1>1, StrideMovesOn, Z3
  <1>3. k * Stride + ChunkSize < length
    BY LastWindowReachesEnd
  <1>4. Window(length, k) = k * Stride .. k * Stride + ChunkSize - 1
    BY <1>2, <1>3, StoreAssumption DEF Window, Least
  <1>5. k * Stride + ChunkSize - (k + 1) * Stride = ChunkOverlap
    BY <1>2, StrideMovesOn, StoreAssumption DEF Stride
  <1> QED BY <1>4, <1>5

(***************************************************************************)
(* The store.                                                              *)
(***************************************************************************)

\* What chunk_document returns is a sequence of chunks.
LEMMA ChunkDocumentType ==
    ASSUME NEW d \in Documents
    PROVE  ChunkDocument(d) \in Seq(Chunk)
  <1>1. d.length \in Nat
    BY StoreAssumption
  <1>2. IsFiniteSet(Kept(d))
    <2>1. LastWindow(d.length) \in Nat
      BY <1>1, LastWindowType
    <2>2. IsFiniteSet(0 .. LastWindow(d.length))
      BY <2>1, FS_Interval
    <2> QED BY <2>2, FS_Subset DEF Kept
  <1>3. Cardinality(Kept(d)) \in Nat
    BY <1>2, FS_CardinalityType
  <1>4. ASSUME NEW i \in 1 .. Cardinality(Kept(d))
        PROVE  ChunkDocument(d)[i] \in Chunk
    <2> DEFINE nth == CHOOSE k \in Kept(d) : Cardinality({j \in Kept(d) : j < k}) = i - 1
    <2>1. ChunkDocument(d)[i] =
             [document |-> d.id, chunk_index |-> i - 1, span |-> Window(d.length, nth)]
      BY <1>4 DEF ChunkDocument
    <2>2. Window(d.length, nth) \in SUBSET Int
      <3> HIDE DEF nth
      <3> QED BY DEF Window
    <2>3. i - 1 \in Nat
      BY <1>3, <1>4
    <2> HIDE DEF nth
    <2> QED BY <2>1, <2>2, <2>3 DEF Chunk
  <1>5. ChunkDocument(d) = [i \in 1 .. Cardinality(Kept(d)) |-> ChunkDocument(d)[i]]
    BY DEF ChunkDocument
  <1> DEFINE n == Cardinality(Kept(d))
             s == ChunkDocument(d)
  <1> HIDE DEF n, s
  <1>6. n \in Nat /\ s = [i \in 1 .. n |-> s[i]] /\ \A i \in 1 .. n : s[i] \in Chunk
    BY <1>3, <1>4, <1>5 DEF n, s
  <1>7. s \in [1 .. n -> Chunk]
    BY <1>6, Zenon
  <1>8. s \in Seq(Chunk)
    BY <1>6, <1>7, SeqDef, Zenon
  <1> QED BY <1>8 DEF s

\* The inductive invariant: types, and as many vectors as chunks.  load compares
\* the two files itself, so that nothing has to be known of them.
StoreInvariant == StoreTypeOK /\ IndexMatchesChunks

\* An empty store matches.
LEMMA StoreStarts == StoreInit => StoreInvariant
  <1> SUFFICES ASSUME StoreInit PROVE StoreInvariant
    OBVIOUS
  <1>1. <<>> \in Seq(Chunk)
    OBVIOUS
  <1>2. NoVectors(dimension) \in [dimension : Dimensions \cup {0}, items : Seq(Chunk)]
    BY <1>1 DEF NoVectors, StoreInit
  <1>3. Missing \in Files
    BY <1>1 DEF Missing, File, Files
  <1>4. disk \in [index : Files, metadata : Files]
    BY <1>3 DEF StoreInit
  <1>5. StoreTypeOK
    BY <1>1, <1>2, <1>4 DEF StoreInit, StoreTypeOK
  <1>6. IndexMatchesChunks
    BY DEF StoreInit, NoVectors, IndexMatchesChunks
  <1> QED BY <1>5, <1>6 DEF StoreInvariant

\* add_chunks appends to both lists or to none.
LEMMA AddKeepsStore ==
    ASSUME StoreInvariant, NEW d \in Documents, NEW n \in Nat, NEW size \in Dimensions,
           AddDocument(d, n, size)
    PROVE  StoreInvariant'
  <1> DEFINE new == ChunkDocument(d)
  <1>1. new \in Seq(Chunk)
    BY ChunkDocumentType
  <1> HIDE DEF new
  <1>2. /\ index \in [dimension : Dimensions \cup {0}, items : Seq(Chunk)]
        /\ chunks \in Seq(Chunk)
        /\ Len(index.items) = Len(chunks)
        /\ index.items \in Seq(Chunk)
    BY DEF StoreInvariant, StoreTypeOK, IndexMatchesChunks
  <1>3. UNCHANGED <<dimension, disk, saving>>
    BY DEF AddDocument
  <1>4. CASE /\ index' = [index EXCEPT !.items = @ \o new]
             /\ chunks' = chunks \o new
    <2>1. /\ index.items \o new \in Seq(Chunk)
          /\ Len(index.items \o new) = Len(index.items) + Len(new)
      BY <1>1, <1>2, ConcatProperties
    <2>2. /\ chunks \o new \in Seq(Chunk)
          /\ Len(chunks \o new) = Len(chunks) + Len(new)
      BY <1>1, <1>2, ConcatProperties
    <2>3. index'.items = index.items \o new
      BY <1>2, <1>4
    <2>4. index' \in [dimension : Dimensions \cup {0}, items : Seq(Chunk)]
      BY <1>2, <1>4, <2>1
    <2>5. StoreTypeOK'
      BY <1>3, <1>4, <2>2, <2>4 DEF StoreInvariant, StoreTypeOK
    <2>6. IndexMatchesChunks'
      BY <1>2, <1>4, <2>1, <2>2, <2>3 DEF IndexMatchesChunks
    <2> QED BY <2>5, <2>6 DEF StoreInvariant
  <1>5. CASE UNCHANGED <<index, chunks>>
    BY <1>3, <1>5 DEF StoreInvariant, StoreTypeOK, IndexMatchesChunks
  <1>6. \/ index' = [index EXCEPT !.items = @ \o new] /\ chunks' = chunks \o new
        \/ UNCHANGED <<index, chunks>>
    BY Zenon DEF AddDocument, new
  <1> QED BY <1>4, <1>5, <1>6

\* The files a save writes are files, whole or torn.
LEMMA SaveKeepsStore ==
    ASSUME StoreInvariant, SaveIndex \/ IndexSaved \/ SaveMetadata \/ Saved \/ SaveFails
    PROVE  StoreInvariant'
  <1>1. /\ Torn \in Files
        /\ File("whole", index.dimension, index.items) \in Files
        /\ File("whole", dimension, chunks) \in Files
    BY DEF Torn, File, Files, StoreInvariant, StoreTypeOK
  <1>2. disk' \in [index : Files, metadata : Files]
    BY <1>1 DEF SaveIndex, IndexSaved, SaveMetadata, Saved, SaveFails, StoreInvariant, StoreTypeOK
  <1>3. saving' \in {"none", "index", "files", "metadata"}
    BY DEF SaveIndex, IndexSaved, SaveMetadata, Saved, SaveFails
  <1>4. UNCHANGED <<dimension, index, chunks>>
    BY DEF SaveIndex, IndexSaved, SaveMetadata, Saved, SaveFails
  <1> QED BY <1>2, <1>3, <1>4 DEF StoreInvariant, StoreTypeOK, IndexMatchesChunks

\* clear and a restart leave an empty store.
LEMMA EmptyingKeepsStore ==
    ASSUME StoreInvariant, NEW d \in Dimensions, Clear \/ Restart(d)
    PROVE  StoreInvariant'
  <1>1. <<>> \in Seq(Chunk)
    OBVIOUS
  <1>2. /\ dimension' \in Dimensions /\ chunks' = <<>>
        /\ \E v \in Dimensions : index' = [dimension |-> v, items |-> <<>>]
    <2>1. CASE Clear
      BY <2>1 DEF Clear, NoVectors, StoreInvariant, StoreTypeOK
    <2>2. CASE Restart(d)
      BY <2>2 DEF Restart, NoVectors
    <2> QED BY <2>1, <2>2
  <1>4. index' \in [dimension : Dimensions \cup {0}, items : Seq(Chunk)] /\ index'.items = <<>>
    BY <1>1, <1>2
  <1>3. disk' = disk /\ saving' \in {"none", "index", "files", "metadata"}
    BY DEF Clear, Restart, StoreInvariant, StoreTypeOK
  <1> QED BY <1>1, <1>2, <1>3, <1>4 DEF StoreInvariant, StoreTypeOK, IndexMatchesChunks

\* load takes two files with equally many entries, or none.
LEMMA LoadKeepsStore == ASSUME StoreInvariant, Load PROVE StoreInvariant'
  <1>1. UNCHANGED <<dimension, disk, saving>>
    BY DEF Load
  <1>2. CASE Loadable
    <2>1. disk.index \in Files /\ disk.metadata \in Files
      BY DEF StoreInvariant, StoreTypeOK
    <2>2. /\ index' = [dimension |-> disk.index.dimension, items |-> disk.index.items]
          /\ chunks' = disk.metadata.items
      BY <1>2, Zenon DEF Load
    <2>3. /\ index' \in [dimension : Dimensions \cup {0}, items : Seq(Chunk)]
          /\ chunks' \in Seq(Chunk)
      BY <2>1, <2>2 DEF Files
    <2>4. Len(index'.items) = Len(chunks')
      BY <1>2, <2>2 DEF Loadable
    <2> QED BY <1>1, <2>3, <2>4 DEF StoreInvariant, StoreTypeOK, IndexMatchesChunks
  <1>3. CASE ~Loadable
    <2>1. UNCHANGED <<index, chunks>>
      BY <1>3, Zenon DEF Load
    <2> QED BY <1>1, <2>1 DEF StoreInvariant, StoreTypeOK, IndexMatchesChunks
  <1> QED BY <1>2, <1>3

\* Every step of the store keeps the invariant.
LEMMA StoreStepKeeps == StoreInvariant /\ [StoreNext]_storeVars => StoreInvariant'
  <1> SUFFICES ASSUME StoreInvariant, [StoreNext]_storeVars PROVE StoreInvariant'
    OBVIOUS
  <1>1. CASE \E d \in Documents, size \in Dimensions :
                \E n \in 0 .. Len(ChunkDocument(d)) : AddDocument(d, n, size)
    <2>1. PICK d \in Documents, size \in Dimensions :
                  \E n \in 0 .. Len(ChunkDocument(d)) : AddDocument(d, n, size)
      BY <1>1
    <2>2. PICK n \in 0 .. Len(ChunkDocument(d)) : AddDocument(d, n, size)
      BY <2>1
    <2>3. n \in Nat
      BY <2>2
    <2> QED BY <2>2, <2>3, AddKeepsStore
  <1>2. CASE SaveIndex \/ IndexSaved \/ SaveMetadata \/ Saved \/ SaveFails
    BY <1>2, SaveKeepsStore
  <1>3. CASE Clear
    <2>1. dimension \in Dimensions
      BY DEF StoreInvariant, StoreTypeOK
    <2> QED BY <1>3, <2>1, EmptyingKeepsStore
  <1>4. CASE \E d \in Dimensions : Restart(d)
    BY <1>4, EmptyingKeepsStore
  <1>5. CASE Load
    BY <1>5, LoadKeepsStore
  <1>6. CASE UNCHANGED storeVars
    BY <1>6 DEF storeVars, StoreInvariant, StoreTypeOK, IndexMatchesChunks
  <1> QED BY <1>1, <1>2, <1>3, <1>4, <1>5, <1>6 DEF StoreNext

\* The store and its files keep their types.
THEOREM StoreTypeCorrect == StoreSpec => []StoreTypeOK
  <1>1. StoreInvariant => StoreTypeOK
    BY DEF StoreInvariant
  <1> QED BY <1>1, StoreStarts, StoreStepKeeps, PTL DEF StoreSpec

\* FAISSVectorStore never answers with a chunk for which there is no vector, or has
\* a vector without a chunk: failed and interrupted saves, restarts and loads in any
\* order included.
THEOREM VectorsMatchChunks == StoreSpec => []IndexMatchesChunks
  <1>1. StoreInvariant => IndexMatchesChunks
    BY DEF StoreInvariant
  <1> QED BY <1>1, StoreStarts, StoreStepKeeps, PTL DEF StoreSpec
=============================================================================
