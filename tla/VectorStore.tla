---------------------------- MODULE VectorStore ----------------------------
(***************************************************************************)
(* FAISSDocumentStore (retrieval/faiss_store.py): the chunker that splits  *)
(* documents (retrieval/chunking.py) and the FAISSVectorStore that keeps a *)
(* vector for each chunk, in memory and in two files                       *)
(* (retrieval/vector_store.py).                                            *)
(*                                                                         *)
(* No operation suspends between its effects, so each is a step, except    *)
(* that the process may die inside save, while it writes either file.      *)
(* A vector is represented by the chunk it was computed from.              *)
(***************************************************************************)
EXTENDS Integers, Sequences, FiniteSets

CONSTANTS
    Documents,        \* [id, length, blank]: the text, stripped, and its blanks
    ChunkSize,        \* chunk_size
    ChunkOverlap,     \* chunk_overlap
    Dimensions,       \* of the embedding models
    MaxChunks         \* bound on the chunks in the store

ASSUME StoreAssumption ==
    /\ ChunkSize \in Nat \ {0} /\ ChunkOverlap \in 0 .. ChunkSize - 1
    /\ MaxChunks \in Nat
    /\ \A d \in Documents : d.length \in Nat /\ d.blank \subseteq 0 .. d.length - 1

VARIABLES
    dimension,  \* of the configured embedding model, and of the store
    index,      \* the FAISS index: [dimension, items]
    chunks,     \* _chunks
    disk,       \* [index, metadata]: the two files
    saving      \* the file save is writing, "files" between the two, or "none"

storeVars == <<dimension, index, chunks, disk, saving>>

-----------------------------------------------------------------------------
(* The chunker.                                                            *)

Least(a, b) == IF a <= b THEN a ELSE b
Stride == ChunkSize - ChunkOverlap

\* The number of the window that reaches the end of the text.
LastWindow(length) ==
    IF length <= ChunkSize THEN 0 ELSE (length - ChunkSize + Stride - 1) \div Stride

Window(length, k) == k * Stride .. Least(k * Stride + ChunkSize, length) - 1

\* Windows of blanks are left out, the others numbered without gaps.
Kept(d) ==
    {k \in 0 .. LastWindow(d.length) :
        d.length > 0 /\ ~(Window(d.length, k) \subseteq d.blank)}

ChunkDocument(d) ==
    [i \in 1 .. Cardinality(Kept(d)) |->
        LET nth == CHOOSE k \in Kept(d) : Cardinality({j \in Kept(d) : j < k}) = i - 1
        IN  [document |-> d.id, chunk_index |-> i - 1, span |-> Window(d.length, nth)]]

-----------------------------------------------------------------------------
(* The store.                                                              *)

Chunk == [document : {d.id : d \in Documents}, chunk_index : Nat, span : SUBSET Int]

NoVectors(d) == [dimension |-> d, items |-> <<>>]

\* A file is missing, torn while and after it was being written, or whole.
File(state, size, items) == [state |-> state, dimension |-> size, items |-> items]
Missing == File("missing", 0, <<>>)
Torn == File("torn", 0, <<>>)

StoreInit ==
    /\ dimension \in Dimensions
    /\ index = NoVectors(dimension) /\ chunks = <<>>
    /\ disk = [index |-> Missing, metadata |-> Missing]
    /\ saving = "none"

Calm == saving = "none"

\* add_documents with embeddings that are not one per chunk, or of another size
\* than those of the store or of the index it loaded, is refused before anything
\* is added.
AddDocument(d, embeddings, size) ==
    LET new == ChunkDocument(d)
    IN  /\ Calm /\ Len(chunks) + Len(new) <= MaxChunks
        /\ IF embeddings = Len(new) /\ size = dimension /\ size = index.dimension
           THEN /\ index' = [index EXCEPT !.items = @ \o new]
                /\ chunks' = chunks \o new
           ELSE UNCHANGED <<index, chunks>>
        /\ UNCHANGED <<dimension, disk, saving>>

Clear ==
    /\ Calm
    /\ index' = NoVectors(dimension) /\ chunks' = <<>>
    /\ UNCHANGED <<dimension, disk, saving>>

\* save: the index file, then the metadata; a file that is being written is torn.
SaveIndex ==
    /\ Calm
    /\ saving' = "index"
    /\ disk' = [disk EXCEPT !.index = Torn]
    /\ UNCHANGED <<dimension, index, chunks>>

IndexSaved ==
    /\ saving = "index"
    /\ saving' = "files"
    /\ disk' = [disk EXCEPT !.index = File("whole", index.dimension, index.items)]
    /\ UNCHANGED <<dimension, index, chunks>>

SaveMetadata ==
    /\ saving = "files"
    /\ saving' = "metadata"
    /\ disk' = [disk EXCEPT !.metadata = Torn]
    /\ UNCHANGED <<dimension, index, chunks>>

Saved ==
    /\ saving = "metadata"
    /\ saving' = "none"
    /\ disk' = [disk EXCEPT !.metadata = File("whole", dimension, chunks)]
    /\ UNCHANGED <<dimension, index, chunks>>

\* A write raises, and leaves its file torn, or the second file cannot be opened.
SaveFails ==
    /\ ~Calm
    /\ saving' = "none"
    /\ UNCHANGED <<dimension, index, chunks, disk>>

\* The process dies, in the middle of save or not, and starts with an empty
\* store and the embedding model of its configuration.
Restart(d) ==
    /\ saving' = "none"
    /\ dimension' = d
    /\ index' = NoVectors(d)
    /\ chunks' = <<>>
    /\ UNCHANGED disk

Whole(file) == file.state = "whole"

\* Mutant: load believes the two files to belong together.
LoadableUnchecked ==
    /\ Whole(disk.metadata) /\ Whole(disk.index)
    /\ disk.metadata.dimension = dimension

\* load: what it checks of the two files before it takes them.
Loadable ==
    /\ Whole(disk.metadata) /\ Whole(disk.index)
    /\ disk.metadata.dimension = dimension
    /\ Len(disk.index.items) = Len(disk.metadata.items)

\* A load that fails raises RetrievalError and leaves the store as it is.
Load ==
    /\ Calm
    /\ IF Loadable
       THEN /\ index' = [dimension |-> disk.index.dimension, items |-> disk.index.items]
            /\ chunks' = disk.metadata.items
       ELSE UNCHANGED <<index, chunks>>
    /\ UNCHANGED <<dimension, disk, saving>>

StoreNext ==
    \/ Clear \/ SaveIndex \/ IndexSaved \/ SaveMetadata \/ Saved \/ SaveFails \/ Load
    \/ \E d \in Dimensions : Restart(d)
    \/ \E d \in Documents, size \in Dimensions :
          \E n \in 0 .. Len(ChunkDocument(d)) : AddDocument(d, n, size)

StoreSpec == StoreInit /\ [][StoreNext]_storeVars

\* similarity_search: an empty store answers nothing; FAISS and the store refuse a
\* query of another size.  Which chunks are nearest is the score's.
Searchable == chunks = <<>> \/ index.dimension = dimension

-----------------------------------------------------------------------------
(* Properties.                                                             *)

Files == [state : {"missing", "torn", "whole"}, dimension : Dimensions \cup {0},
          items : Seq(Chunk)]

\* The store and its files keep their types.
StoreTypeOK ==
    /\ dimension \in Dimensions
    /\ index \in [dimension : Dimensions \cup {0}, items : Seq(Chunk)]
    /\ chunks \in Seq(Chunk)
    /\ disk \in [index : Files, metadata : Files]
    /\ saving \in {"none", "index", "files", "metadata"}

\* In memory there is a vector for each chunk and a chunk for each vector, whatever
\* was refused, interrupted, restarted and loaded before: load compares the two
\* files, and add_chunks checks before it touches either list.
IndexMatchesChunks == Len(index.items) = Len(chunks)
=============================================================================
