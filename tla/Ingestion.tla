----------------------------- MODULE Ingestion -----------------------------
(***************************************************************************)
(* The ingestion command (ingestion/ingest_pipeline.py) and what it leaves *)
(* on disk: the hash store, the Chroma collection and the pickled BM25     *)
(* index.  A run is a process of its own that may be killed, or end with   *)
(* an exception, between any two steps; the files it indexes are edited    *)
(* and deleted while it runs.                                              *)
(*                                                                         *)
(* A file's content is a version number, 0 for "no such file", and stands  *)
(* for its SHA-256 as well.  Version v of a file has ChunkCount[v] chunks, *)
(* and chunk i of a file has the same id in every version: the chunkers    *)
(* hash the path and a position, for which a number stands here whatever   *)
(* it is made of.  No two chunks of a version share an id.  Summaries,     *)
(* metadata and embeddings are functions of the chunk and left out.        *)
(***************************************************************************)
EXTENDS Integers, FiniteSets

CONSTANTS Files,        \* the files under the searched paths
          MaxVersion,   \* bound: versions of one file
          ChunkCount,   \* chunks the chunker makes of a version
          MayFail,      \* may a chunker raise?
          Forces,       \* values of --force-reindex that are used
          MaxRuns       \* bound: runs of the command

Versions == 1..MaxVersion

ASSUME MaxVersionAssumption == MaxVersion \in Nat \ {0}
ASSUME ChunkCountAssumption == ChunkCount \in [Versions -> Nat]
ASSUME MayFailAssumption == MayFail \in BOOLEAN
ASSUME ForcesAssumption == Forces \subseteq BOOLEAN
ASSUME MaxRunsAssumption == MaxRuns \in Nat

(* An id of the collection: a file and a position.  *)
Positions == UNION {1..ChunkCount[v] : v \in Versions}
Ids == Files \X Positions

VARIABLES disk,      \* per file: its version, 0 when it does not exist
          newest,    \* history, per file: the newest version since the last wipe
          reverted,  \* history: files that were taken back to an older version
          store,     \* data/.file_hashes.json: per file, 0 when it has no entry
          storeTorn, \* is that file half written?
          chroma,    \* per id: the version of the chunk stored there, 0 for none
          sparse,    \* data/bm25_index.pkl: the ids and versions it holds
          sparseAt,  \* and its condition: "missing", "torn" or "good"
          pc,        \* where the run is; "off" when there is none
          force,     \* its force_reindex
          mem,       \* its _hashes
          found,     \* files discovered and still to be examined
          picked,    \* files that need indexing and are still to be chunked
          batch,     \* all_chunks, as the files and the versions read
          failed,    \* history: files of this run whose chunking failed
          edited,    \* history: files changed since this run began
          lost,      \* history: <<file, version>> whose hash was saved though
                     \* the version's chunking failed
          runs       \* history: runs started

onDisk == <<store, storeTorn, chroma, sparse, sparseAt, lost>>
run == <<force, mem, found, picked, batch, failed>>
vars == <<disk, newest, reverted, onDisk, pc, run, edited, runs>>

Init ==
    /\ disk \in [Files -> {0, 1}]
    /\ newest = disk /\ reverted = {}
    /\ store = [f \in Files |-> 0] /\ storeTorn = FALSE
    /\ chroma = [id \in Ids |-> 0]
    /\ sparse = {} /\ sparseAt = "missing"
    /\ pc = "off" /\ force = FALSE /\ mem = store
    /\ found = {} /\ picked = {} /\ batch = {} /\ failed = {}
    /\ edited = {} /\ lost = {} /\ runs = 0

-----------------------------------------------------------------------------
(* The repository changes under the command: a file gets a new content, or *)
(* one that it had before, or is deleted.                                  *)
Change(f, v) ==
    /\ v # disk[f]
    /\ disk' = [disk EXCEPT ![f] = v]
    /\ newest' = [newest EXCEPT ![f] = IF v > @ THEN v ELSE @]
    /\ reverted' = IF 0 < v /\ v < newest[f] THEN reverted \union {f} ELSE reverted
    /\ edited' = edited \union {f}
    /\ UNCHANGED <<onDisk, pc, run, runs>>

Edit(f) == \E v \in (1..newest[f] + 1) \intersect Versions : Change(f, v)
Delete(f) == Change(f, 0)

-----------------------------------------------------------------------------
LoadsWhole == ~storeTorn

(* _load_hashes: a missing store is an empty one, a torn one raises before *)
(* the run begins.                                                         *)
StartRun ==
    /\ pc = "off" /\ runs < MaxRuns
    /\ LoadsWhole
    /\ runs' = runs + 1
    /\ force' \in Forces
    /\ mem' = store
    /\ found' = {f \in Files : disk[f] # 0}
    /\ picked' = {} /\ batch' = {} /\ failed' = {} /\ edited' = {}
    /\ pc' = "discover"
    /\ UNCHANGED <<disk, newest, reverted, onDisk>>

PicksNewFiles(f) == force \/ mem[f] = 0
NeedsIndexing(f) == force \/ mem[f] # disk[f]

(* _needs_indexing: the hash is taken here, long before the file is read   *)
(* again; reading a file that has meanwhile gone ends the run.             *)
Examine(f) ==
    /\ pc = "discover" /\ f \in found
    /\ found' = found \ {f}
    /\ picked' = IF NeedsIndexing(f) THEN picked \union {f} ELSE picked
    /\ mem' = IF force \/ ~NeedsIndexing(f) THEN mem ELSE [mem EXCEPT ![f] = disk[f]]
    /\ pc' = IF ~force /\ disk[f] = 0 THEN "off" ELSE pc
    /\ UNCHANGED <<disk, newest, reverted, onDisk, force, batch, failed, edited, runs>>

EndDiscovery ==
    /\ pc = "discover" /\ found = {}
    /\ pc' = IF picked = {} THEN "done" ELSE "chunk"
    /\ UNCHANGED <<disk, newest, reverted, onDisk, run, edited, runs>>

(* The body of run()'s loop: an exception is logged and the file is left   *)
(* out; its hash stays in _hashes.                                         *)
Unpicked(f) == picked \ {f}

ChunkFile(f) ==
    /\ pc = "chunk" /\ f \in picked
    /\ picked' = Unpicked(f)
    /\ \/ /\ disk[f] # 0
          /\ batch' = batch \union {<<f, disk[f]>>}
          /\ UNCHANGED failed
       \/ /\ disk[f] = 0 \/ MayFail
          /\ failed' = failed \union {f}
          /\ UNCHANGED batch
    /\ UNCHANGED <<disk, newest, reverted, onDisk, pc, force, mem, found, edited, runs>>

SavesHashesFirst == "hashes"
SkipsChroma == "sparse"
AfterChunking == "upsert"

(* A run without a chunk returns before anything is written, the hashes    *)
(* included.                                                               *)
EndChunking ==
    /\ pc = "chunk" /\ picked = {}
    /\ pc' = IF \A b \in batch : ChunkCount[b[2]] = 0 THEN "done" ELSE AfterChunking
    /\ UNCHANGED <<disk, newest, reverted, onDisk, run, edited, runs>>

Chunks == {<<b[1], i, b[2]>> : b \in batch, i \in Positions}
              \intersect {c \in Files \X Positions \X Versions : c[2] <= ChunkCount[c[3]]}

(* ChromaWriter.upsert: ids of the batch are replaced, no id is deleted.   *)
Upsert ==
    /\ pc = "upsert"
    /\ chroma' = [id \in Ids |->
          IF \E c \in Chunks : id = <<c[1], c[2]>>
          THEN (CHOOSE c \in Chunks : id = <<c[1], c[2]>>)[3]
          ELSE chroma[id]]
    /\ lost' = lost \ batch
    /\ pc' = "sparse"
    /\ UNCHANGED <<disk, newest, reverted, store, storeTorn, sparse, sparseAt, run, edited, runs>>

(* BM25Writer.add and save: the corpus is this run's chunks only, and      *)
(* opening the file for writing empties it.                                *)
OpenSparse ==
    /\ pc = "sparse"
    /\ sparseAt' = "torn" /\ sparse' = {}
    /\ pc' = "sparse_write"
    /\ UNCHANGED <<disk, newest, reverted, store, storeTorn, chroma, lost, run, edited, runs>>

WriteSparse ==
    /\ pc = "sparse_write"
    /\ sparseAt' = "good" /\ sparse' = Chunks
    /\ pc' = "hashes"
    /\ UNCHANGED <<disk, newest, reverted, store, storeTorn, chroma, lost, run, edited, runs>>

(* _save_hashes *)
OpenStore ==
    /\ pc = "hashes"
    /\ storeTorn' = TRUE
    /\ pc' = "hashes_write"
    /\ UNCHANGED <<disk, newest, reverted, store, chroma, sparse, sparseAt, lost, run, edited,
                   runs>>

WriteStore ==
    /\ pc = "hashes_write"
    /\ storeTorn' = FALSE /\ store' = mem
    /\ lost' = IF force THEN lost ELSE lost \union {<<f, mem[f]>> : f \in failed}
    /\ pc' = "done"
    /\ UNCHANGED <<disk, newest, reverted, chroma, sparse, sparseAt, run, edited, runs>>

Exit ==
    /\ pc = "done"
    /\ pc' = "off"
    /\ UNCHANGED <<disk, newest, reverted, onDisk, run, edited, runs>>

(* The process is killed, or a call outside the loop's handler raises (the *)
(* embedder, the collection, the disk).                                    *)
Crash ==
    /\ pc \notin {"off", "done"}
    /\ pc' = "off"
    /\ UNCHANGED <<disk, newest, reverted, onDisk, run, edited, runs>>

(* docs/BASH_COMMANDS.md: "Wipe and re-index".  *)
Wipe ==
    /\ pc = "off"
    /\ store' = [f \in Files |-> 0] /\ storeTorn' = FALSE
    /\ chroma' = [id \in Ids |-> 0]
    /\ sparse' = {} /\ sparseAt' = "missing"
    /\ lost' = {} /\ newest' = disk /\ reverted' = {}
    /\ UNCHANGED <<disk, pc, run, edited, runs>>

Step ==
    \/ \E f \in Files : Examine(f) \/ ChunkFile(f)
    \/ EndDiscovery \/ EndChunking \/ Upsert \/ OpenSparse \/ WriteSparse
    \/ OpenStore \/ WriteStore \/ Exit

Next ==
    \/ Step \/ StartRun \/ Crash \/ Wipe
    \/ \E f \in Files : Edit(f) \/ Delete(f)

(* No fairness: the properties are about what runs leave behind.  *)
Spec == Init /\ [][Next]_vars

-----------------------------------------------------------------------------
Known == 0..MaxVersion

TypeOK ==
    /\ disk \in [Files -> Known] /\ newest \in [Files -> Known]
    /\ store \in [Files -> Known] /\ storeTorn \in BOOLEAN
    /\ chroma \in [Ids -> Known]
    /\ sparse \subseteq Files \X Positions \X Versions
    /\ sparseAt \in {"missing", "torn", "good"}
    /\ pc \in {"off", "discover", "chunk", "upsert", "sparse", "sparse_write", "hashes",
               "hashes_write", "done"}
    /\ force \in BOOLEAN
    /\ mem \in [Files -> Known]
    /\ found \subseteq Files /\ picked \subseteq Files /\ failed \subseteq Files
    /\ batch \subseteq Files \X Versions
    /\ \A a, b \in batch : a[1] = b[1] => a = b
    /\ edited \subseteq Files /\ reverted \subseteq Files
    /\ lost \subseteq Files \X Known
    /\ runs \in 0..MaxRuns

(* The collection holds the chunks of version v of f.  *)
Current(f, v) == \A i \in 1..ChunkCount[v] : chroma[<<f, i>>] = v

(* After a run that was not interrupted, a file that did not change        *)
(* meanwhile, whose chunking neither failed in this run nor in one that    *)
(* saved the hash all the same, has its present content in the collection, *)
(* whatever earlier runs crashed, were forced or raced with edits.  (A file*)
(* that was taken back to the content of its saved hash may not.)          *)
FreshAfterRun ==
    pc = "done" =>
        \A f \in Files \ (edited \union failed \union reverted) :
            disk[f] # 0 /\ <<f, disk[f]>> \notin lost => Current(f, disk[f])

(* Version w of f, or a newer one that existed, was upserted.  *)
Sent(f, w) ==
    \E v \in w..newest[f] : \A i \in 1..ChunkCount[v] : chroma[<<f, i>>] >= v

(* A saved hash never runs ahead of the collection: the version it stands  *)
(* for, or a newer one, was upserted, unless its chunking failed or the    *)
(* file was taken back to an older one since.  This is what makes a crash  *)
(* between the two harmless.                                               *)
SavedMeansSent ==
    \A f \in Files \ reverted :
        store[f] # 0 /\ <<f, store[f]>> \notin lost => Sent(f, store[f])

(* Every id that a sparse hit can carry is in the collection, which alone  *)
(* has the chunk's code and flags.                                         *)
SparseResolves == \A c \in sparse : chroma[<<c[1], c[2]>>] # 0

(* One crash never damages both files: a torn hash store, which keeps      *)
(* every later run from starting, leaves the sparse index readable.        *)
NeverBothTorn == storeTorn => sparseAt = "good"

(* "Maintains a BM25 index over chunk summaries for sparse retrieval":     *)
(* after a complete run the chunks of every file are in the index that did *)
(* not change since the run began, was chunked as it is and was not taken  *)
(* back to an older content.                                               *)
SparseCoversFiles ==
    pc = "done" /\ sparseAt = "good" =>
        \A f \in Files \ (edited \union failed \union reverted) :
            disk[f] # 0 /\ <<f, disk[f]>> \notin lost =>
                \A i \in 1..ChunkCount[disk[f]] : <<f, i, disk[f]>> \in sparse
=============================================================================
