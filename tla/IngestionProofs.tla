-------------------------- MODULE IngestionProofs --------------------------
(* Proofs about Ingestion for any files, versions, chunkers and runs.      *)
EXTENDS Ingestion, TLAPS

ChunkSet == Files \X Positions \X Versions

(* A file is read at most once in a run. *)
BatchInv ==
    /\ pc = "discover" => batch = {}
    /\ \A b \in batch : b[1] \notin picked

(* The hash store is opened only when the sparse index has been closed,    *)
(* and no run gets past a torn store.                                      *)
TornInv ==
    /\ storeTorn => sparseAt = "good" /\ pc \in {"off", "hashes_write"}
    /\ pc \in {"hashes", "hashes_write"} => sparseAt = "good"

(* The chunks that the sparse index will hold are in the collection.       *)
SparseInv ==
    /\ SparseResolves
    /\ pc \in {"sparse", "sparse_write"} => \A c \in Chunks : chroma[<<c[1], c[2]>>] # 0

IInv == TypeOK /\ BatchInv /\ TornInv /\ SparseInv

LEMMA ChunksType == Chunks \subseteq ChunkSet
BY DEF Chunks, ChunkSet

(* An empty machine satisfies the inductive invariant.                     *)
THEOREM Initially == Init => IInv
<1> SUFFICES ASSUME Init PROVE IInv OBVIOUS
<1>1. TypeOK
  <2>1. {0, 1} \subseteq Known BY MaxVersionAssumption DEF Known
  <2>2. disk \in [Files -> Known] BY <2>1 DEF Init
  <2>3. 0 \in 0..MaxRuns BY MaxRunsAssumption
  <2>4. store \in [Files -> Known] /\ chroma \in [Ids -> Known]
    BY <2>1 DEF Init
  <2>5. QED BY <2>2, <2>3, <2>4 DEF Init, TypeOK
<1>2. BatchInv BY DEF Init, BatchInv
<1>3. TornInv BY DEF Init, TornInv
<1>4. SparseInv BY DEF Init, SparseInv, SparseResolves
<1>5. QED BY <1>1, <1>2, <1>3, <1>4 DEF IInv

-----------------------------------------------------------------------------
(* The actions one by one; most leave most of the parts alone.             *)
LEMMA ChangeStep ==
    ASSUME IInv, NEW f \in Files, NEW v \in Known, Change(f, v)
    PROVE  IInv'
<1>1. TypeOK' BY DEF IInv, TypeOK, Change, onDisk, run
<1>2. BatchInv' BY DEF IInv, BatchInv, Change, run
<1>3. TornInv' BY DEF IInv, TornInv, Change, onDisk
<1>4. SparseInv' BY DEF IInv, SparseInv, SparseResolves, Change, onDisk, run, Chunks
<1>5. QED BY <1>1, <1>2, <1>3, <1>4 DEF IInv

LEMMA EditStep ==
    ASSUME IInv, NEW f \in Files, Edit(f) \/ Delete(f)
    PROVE  IInv'
<1>1. PICK v \in Known : Change(f, v)
  BY MaxVersionAssumption DEF Edit, Delete, Versions, Known
<1>2. QED BY <1>1, ChangeStep

LEMMA StartRunStep ==
    ASSUME IInv, StartRun
    PROVE  IInv'
<1>1. TypeOK'
  <2>1. force' \in BOOLEAN BY ForcesAssumption DEF StartRun
  <2>2. runs' \in 0..MaxRuns BY MaxRunsAssumption DEF StartRun, IInv, TypeOK
  <2>3. QED BY <2>1, <2>2 DEF IInv, TypeOK, StartRun, onDisk
<1>2. BatchInv' BY DEF BatchInv, StartRun
<1>3. TornInv' BY DEF IInv, TornInv, StartRun, LoadsWhole, onDisk
<1>4. SparseInv' BY DEF IInv, SparseInv, SparseResolves, StartRun, onDisk
<1>5. QED BY <1>1, <1>2, <1>3, <1>4 DEF IInv

LEMMA ExamineStep ==
    ASSUME IInv, NEW f \in Files, Examine(f)
    PROVE  IInv'
<1>1. TypeOK' BY DEF IInv, TypeOK, Examine, onDisk
<1>2. BatchInv' BY DEF IInv, BatchInv, Examine
<1>3. TornInv' BY DEF IInv, TornInv, Examine, onDisk
<1>4. SparseInv' BY DEF IInv, SparseInv, SparseResolves, Examine, onDisk
<1>5. QED BY <1>1, <1>2, <1>3, <1>4 DEF IInv

LEMMA ChunkFileStep ==
    ASSUME IInv, NEW f \in Files, ChunkFile(f)
    PROVE  IInv'
<1>1. TypeOK'
  <2>1. disk[f] \in Known BY DEF IInv, TypeOK
  <2>2. disk[f] # 0 => disk[f] \in Versions
    BY <2>1, MaxVersionAssumption DEF Known, Versions
  <2>3. batch' \subseteq Files \X Versions
    BY <2>2 DEF IInv, TypeOK, ChunkFile
  <2>4. \A a, b \in batch' : a[1] = b[1] => a = b
    BY DEF IInv, TypeOK, BatchInv, ChunkFile
  <2>5. picked' \subseteq Files /\ failed' \subseteq Files
    BY DEF IInv, TypeOK, ChunkFile, Unpicked
  <2>6. QED BY <2>3, <2>4, <2>5 DEF IInv, TypeOK, ChunkFile, onDisk
<1>2. BatchInv' BY DEF IInv, BatchInv, ChunkFile, Unpicked
<1>3. TornInv' BY DEF IInv, TornInv, ChunkFile, onDisk
<1>4. SparseInv' BY DEF IInv, SparseInv, SparseResolves, ChunkFile, onDisk
<1>5. QED BY <1>1, <1>2, <1>3, <1>4 DEF IInv

LEMMA MoveStep ==
    ASSUME IInv, EndDiscovery \/ EndChunking \/ Exit \/ Crash
    PROVE  IInv'
<1>1. TypeOK'
  BY DEF IInv, TypeOK, EndDiscovery, EndChunking, AfterChunking, Exit, Crash, onDisk, run
<1>2. BatchInv'
  BY DEF IInv, BatchInv, EndDiscovery, EndChunking, AfterChunking, Exit, Crash, run
<1>3. TornInv'
  BY DEF IInv, TornInv, EndDiscovery, EndChunking, AfterChunking, Exit, Crash, onDisk
<1>4. SparseInv'
  BY DEF IInv, SparseInv, SparseResolves, EndDiscovery, EndChunking, AfterChunking, Exit,
         Crash, onDisk, run
<1>5. QED BY <1>1, <1>2, <1>3, <1>4 DEF IInv

(* The collection never loses an id, and gets every chunk of the batch. *)
LEMMA UpsertChroma ==
    ASSUME TypeOK, Upsert
    PROVE  /\ chroma' \in [Ids -> Known]
           /\ \A id \in Ids : chroma[id] # 0 => chroma'[id] # 0
           /\ \A c \in Chunks : chroma'[<<c[1], c[2]>>] # 0
<1>1. ASSUME NEW id \in Ids
      PROVE  IF \E c \in Chunks : id = <<c[1], c[2]>>
             THEN chroma'[id] \in Versions
             ELSE chroma'[id] = chroma[id]
  <2>1. CASE \E c \in Chunks : id = <<c[1], c[2]>>
    <3> DEFINE d == CHOOSE c \in Chunks : id = <<c[1], c[2]>>
    <3>1. d \in Chunks BY <2>1
    <3>2. d[3] \in Versions BY <3>1, ChunksType DEF ChunkSet
    <3>3. chroma'[id] = d[3] BY <2>1 DEF Upsert
    <3>4. QED BY <2>1, <3>2, <3>3
  <2>2. CASE ~ \E c \in Chunks : id = <<c[1], c[2]>>
    BY <2>2 DEF Upsert
  <2>3. QED BY <2>1, <2>2
<1>2. \A v \in Versions : v \in Known /\ v # 0
  BY MaxVersionAssumption DEF Versions, Known
<1>3. \A id \in Ids : chroma'[id] \in Known
  BY <1>1, <1>2 DEF TypeOK
<1>4. chroma' = [id \in Ids |-> chroma'[id]]
  BY DEF Upsert
<1>5. ASSUME NEW c \in Chunks PROVE chroma'[<<c[1], c[2]>>] # 0
  <2>1. <<c[1], c[2]>> \in Ids BY ChunksType DEF ChunkSet, Ids
  <2>2. QED BY <1>1, <1>2, <2>1
<1>6. QED BY <1>1, <1>2, <1>3, <1>4, <1>5

LEMMA UpsertStep ==
    ASSUME IInv, Upsert
    PROVE  IInv'
<1>1. /\ chroma' \in [Ids -> Known]
      /\ \A id \in Ids : chroma[id] # 0 => chroma'[id] # 0
      /\ \A c \in Chunks : chroma'[<<c[1], c[2]>>] # 0
  BY UpsertChroma DEF IInv
<1>2. TypeOK' BY <1>1 DEF IInv, TypeOK, Upsert, run
<1>3. BatchInv' BY DEF IInv, BatchInv, Upsert, run
<1>4. TornInv' BY DEF IInv, TornInv, Upsert
<1>5. SparseInv'
  <2>1. Chunks' = Chunks BY DEF Chunks, Upsert, run
  <2>2. \A c \in sparse : <<c[1], c[2]>> \in Ids BY DEF IInv, TypeOK, Ids
  <2>3. SparseResolves'
    <3> SUFFICES ASSUME NEW c \in sparse PROVE chroma'[<<c[1], c[2]>>] # 0
      BY DEF SparseResolves, Upsert
    <3>1. chroma[<<c[1], c[2]>>] # 0 BY DEF IInv, SparseInv, SparseResolves
    <3>2. QED BY <1>1, <2>2, <3>1
  <2>4. QED BY <1>1, <2>1, <2>3 DEF SparseInv
<1>6. QED BY <1>2, <1>3, <1>4, <1>5 DEF IInv

LEMMA SparseStep ==
    ASSUME IInv, OpenSparse \/ WriteSparse
    PROVE  IInv'
<1>1. Chunks' = Chunks BY DEF Chunks, OpenSparse, WriteSparse, run
<1>2. TypeOK'
  <2>1. sparse' \subseteq ChunkSet BY ChunksType DEF OpenSparse, WriteSparse
  <2>2. QED BY <2>1 DEF IInv, TypeOK, OpenSparse, WriteSparse, run, ChunkSet
<1>3. BatchInv' BY DEF IInv, BatchInv, OpenSparse, WriteSparse, run
<1>4. TornInv' BY DEF IInv, TornInv, OpenSparse, WriteSparse
<1>5. SparseInv'
  BY <1>1 DEF IInv, SparseInv, SparseResolves, OpenSparse, WriteSparse
<1>6. QED BY <1>2, <1>3, <1>4, <1>5 DEF IInv

LEMMA StoreStep ==
    ASSUME IInv, OpenStore \/ WriteStore
    PROVE  IInv'
<1>1. TypeOK'
  <2>1. lost' \subseteq Files \X Known
    <3>1. {<<f, mem[f]>> : f \in failed} \subseteq Files \X Known BY DEF IInv, TypeOK
    <3>2. QED BY <3>1 DEF IInv, TypeOK, OpenStore, WriteStore
  <2>2. store' \in [Files -> Known] BY DEF IInv, TypeOK, OpenStore, WriteStore
  <2>3. QED BY <2>1, <2>2 DEF IInv, TypeOK, OpenStore, WriteStore, run
<1>2. BatchInv' BY DEF IInv, BatchInv, OpenStore, WriteStore, run
<1>3. TornInv' BY DEF IInv, TornInv, OpenStore, WriteStore
<1>4. SparseInv' BY DEF IInv, SparseInv, SparseResolves, OpenStore, WriteStore
<1>5. QED BY <1>1, <1>2, <1>3, <1>4 DEF IInv

LEMMA WipeStep ==
    ASSUME IInv, Wipe
    PROVE  IInv'
<1>1. TypeOK'
  <2>1. 0 \in Known BY MaxVersionAssumption DEF Known
  <2>2. QED BY <2>1 DEF IInv, TypeOK, Wipe, run
<1>2. BatchInv' BY DEF IInv, BatchInv, Wipe, run
<1>3. TornInv' BY DEF IInv, TornInv, Wipe
<1>4. SparseInv' BY DEF SparseInv, SparseResolves, Wipe
<1>5. QED BY <1>1, <1>2, <1>3, <1>4 DEF IInv

(* Every step of a run, an edit or a crash keeps the inductive invariant.  *)
THEOREM Inductive == IInv /\ [Next]_vars => IInv'
<1> SUFFICES ASSUME IInv, [Next]_vars PROVE IInv' OBVIOUS
<1>1. CASE Step
  BY <1>1, ExamineStep, ChunkFileStep, MoveStep, UpsertStep, SparseStep, StoreStep DEF Step
<1>2. CASE StartRun BY <1>2, StartRunStep
<1>3. CASE Crash BY <1>3, MoveStep
<1>4. CASE Wipe BY <1>4, WipeStep
<1>5. CASE \E f \in Files : Edit(f) \/ Delete(f) BY <1>5, EditStep
<1>6. CASE UNCHANGED vars
  BY <1>6 DEF IInv, TypeOK, BatchInv, TornInv, SparseInv, SparseResolves, Chunks, vars,
              onDisk, run
<1>7. QED BY <1>1, <1>2, <1>3, <1>4, <1>5, <1>6 DEF Next

(* The inductive invariant holds over any number of runs.                  *)
THEOREM Invariance == Spec => []IInv
BY Initially, Inductive, PTL DEF Spec

(* Ingestion keeps every file and every table of a run well formed; no     *)
(* file is read into a run's batch twice.                                  *)
THEOREM TypeCorrect == Spec => []TypeOK
<1>1. IInv => TypeOK BY DEF IInv
<1>2. QED BY <1>1, Invariance, PTL

(* Every id of the sparse index resolves in the collection, whatever runs  *)
(* crashed and whatever was edited.                                        *)
THEOREM SparseAlwaysResolves == Spec => []SparseResolves
<1>1. IInv => SparseResolves BY DEF IInv, SparseInv
<1>2. QED BY <1>1, Invariance, PTL

(* No crash leaves both the hash store and the sparse index torn.          *)
THEOREM OneFileTorn == Spec => []NeverBothTorn
<1>1. IInv => NeverBothTorn BY DEF IInv, TornInv, NeverBothTorn
<1>2. QED BY <1>1, Invariance, PTL

-----------------------------------------------------------------------------
(* What a run leaves in the collection: no version on record is newer than *)
(* the newest there was since the last wipe, which is the one that exists  *)
(* unless the file was taken back.                                         *)
Newer ==
    \A f \in Files :
        /\ disk[f] <= newest[f] /\ (f \notin reverted => disk[f] \in {0, newest[f]})
        /\ store[f] <= newest[f] /\ (pc # "off" => mem[f] <= newest[f])
        /\ \A i \in Positions : chroma[<<f, i>>] <= newest[f]

(* The files of a run go from found to picked to the batch or to failed.   *)
StagesInv ==
    /\ pc = "discover" => found \cap picked = {} /\ failed = {}
    /\ pc \notin {"off", "discover"} => found = {}
    /\ pc \notin {"off", "discover", "chunk"} => picked = {}
    /\ pc \in {"chunk", "upsert"} =>
           \A b \in batch :
               /\ b[1] \notin reverted => store[b[1]] <= b[2] /\ mem[b[1]] <= b[2]
               /\ b[2] <= newest[b[1]]

(* Where the run's _hashes differ from those it loaded, the file is still  *)
(* to be chunked, has failed, or was read in that version or a newer one,  *)
(* which reaches the collection before the hashes are saved.               *)
Read(f) == \E b \in batch : b[1] = f

MemInv ==
    /\ pc \in {"discover", "chunk", "upsert"} =>
           \A f \in Files : mem[f] # store[f] =>
               ~force /\ (f \in picked \/ f \in failed \/ Read(f))
    /\ pc \in {"sparse", "sparse_write", "hashes", "hashes_write"} =>
           \A f \in Files : mem[f] # store[f] =>
               ~force /\ (f \in failed \/ f \in reverted \/ Sent(f, mem[f]))

(* A file that did not change since the run began is still to be handled,  *)
(* was read as it is, failed, or was known already as it is.               *)
FreshInv ==
    /\ pc \in {"discover", "chunk", "upsert"} =>
           \A f \in Files \ edited : disk[f] # 0 =>
               \/ f \in found \/ f \in picked \/ f \in failed \/ <<f, disk[f]>> \in batch
               \/ store[f] = disk[f] /\ mem[f] = disk[f]
    /\ pc \in {"sparse", "sparse_write", "hashes", "hashes_write", "done"} =>
           \A f \in Files \ edited : disk[f] # 0 =>
               \/ f \in failed \/ Current(f, disk[f])
               \/ store[f] = disk[f] /\ mem[f] = disk[f]

CollectionInv == Newer /\ StagesInv /\ MemInv /\ SavedMeansSent /\ FreshInv

LEMMA CollectionInit == Init => CollectionInv
<1> SUFFICES ASSUME Init PROVE CollectionInv OBVIOUS
<1>1. \A f \in Files : disk[f] \in {0, 1} BY DEF Init
<1>2. \A f \in Files, i \in Positions : <<f, i>> \in Ids BY DEF Ids
<1>3. Newer BY <1>1, <1>2 DEF Init, Newer
<1>4. StagesInv /\ MemInv /\ FreshInv BY DEF Init, StagesInv, MemInv, FreshInv
<1>5. SavedMeansSent BY DEF Init, SavedMeansSent
<1>6. QED BY <1>3, <1>4, <1>5 DEF CollectionInv

(* The numbers that the versions are. *)
LEMMA Numbers ==
    ASSUME TypeOK
    PROVE  \A f \in Files :
               /\ disk[f] \in Nat /\ newest[f] \in Nat /\ store[f] \in Nat /\ mem[f] \in Nat
               /\ newest[f] <= MaxVersion
               /\ \A i \in Positions : chroma[<<f, i>>] \in Nat
<1>1. \A f \in Files, i \in Positions : <<f, i>> \in Ids BY DEF Ids
<1>2. Known \subseteq Nat /\ \A k \in Known : k <= MaxVersion
  BY MaxVersionAssumption DEF Known
<1>3. QED BY <1>1, <1>2 DEF TypeOK

(* The positions of a version's chunks. *)
LEMMA ChunkPositions ==
    \A v \in Versions : ChunkCount[v] \in Nat /\ 1..ChunkCount[v] \subseteq Positions
BY ChunkCountAssumption DEF Positions

(* Edits and deletions: the newest version only grows. *)
LEMMA CollectionEdit ==
    ASSUME IInv, CollectionInv, NEW f \in Files, Edit(f) \/ Delete(f)
    PROVE  CollectionInv'
<1>1. PICK v \in Known : Change(f, v)
  BY MaxVersionAssumption DEF Edit, Delete, Versions, Known
<1>2. /\ v \in Nat
      /\ disk' = [disk EXCEPT ![f] = v]
      /\ newest' = [newest EXCEPT ![f] = IF v > @ THEN v ELSE @]
      /\ edited' = edited \cup {f}
      /\ reverted \subseteq reverted'
      /\ f \notin reverted' => v = 0 \/ v >= newest[f]
      /\ UNCHANGED <<store, chroma, lost, pc, force, mem, found, picked, batch, failed>>
  <2>1. v \in Nat /\ newest[f] \in Nat BY MaxVersionAssumption, Numbers DEF IInv, Known
  <2>2. reverted' = IF 0 < v /\ v < newest[f] THEN reverted \cup {f} ELSE reverted
    BY <1>1 DEF Change
  <2>3. reverted \subseteq reverted' /\ (f \notin reverted' => v = 0 \/ v >= newest[f])
    BY <2>1, <2>2
  <2>4. QED BY <1>1, <2>1, <2>3 DEF Change, onDisk, run
<1>3. disk \in [Files -> Known] /\ newest \in [Files -> Known] /\ batch \subseteq Files \X Versions
  BY DEF IInv, TypeOK
<1>4. \A g \in Files : /\ newest[g] \in Nat /\ newest'[g] \in Nat /\ newest[g] <= newest'[g]
                       /\ disk'[g] <= newest'[g]
                       /\ g \notin reverted' => disk'[g] \in {0, newest'[g]}
                       /\ g # f => disk'[g] = disk[g]
  BY <1>1, <1>2, <1>3, Numbers DEF IInv, CollectionInv, Newer
<1>5. Newer'
  <2>1. \A g \in Files : store[g] <= newest'[g] /\ (pc # "off" => mem[g] <= newest'[g])
    BY <1>4, Numbers DEF IInv, CollectionInv, Newer
  <2>2. \A g \in Files, i \in Positions : chroma[<<g, i>>] <= newest'[g]
    <3> SUFFICES ASSUME NEW g \in Files, NEW i \in Positions
                 PROVE  chroma[<<g, i>>] <= newest'[g]
      OBVIOUS
    <3>1. chroma[<<g, i>>] \in Nat /\ chroma[<<g, i>>] <= newest[g]
      BY Numbers DEF IInv, CollectionInv, Newer
    <3>2. QED BY <1>4, <3>1
  <2>3. QED BY <1>2, <1>4, <2>1, <2>2 DEF Newer
<1>6. StagesInv'
  <2>1. ASSUME NEW b \in batch, b[2] <= newest[b[1]]
        PROVE  b[2] <= newest'[b[1]]
    <3>1. b[1] \in Files /\ b[2] \in Nat BY <1>3 DEF Versions
    <3>2. QED BY <1>4, <2>1, <3>1
  <2>2. QED BY <1>2, <2>1 DEF CollectionInv, StagesInv
<1>7. \A g \in Files, w \in Nat :
          Sent(g, w) => \E u \in w..newest'[g] : \A i \in 1..ChunkCount[u] : chroma[<<g, i>>] >= u
  BY <1>4 DEF Sent
<1>8. MemInv'
  <2>1. \A g \in Files : Sent(g, mem[g]) => Sent(g, mem[g])'
    BY <1>2, <1>7, Numbers DEF IInv, Sent
  <2>2. \A g \in Files : Read(g)' <=> Read(g) BY <1>2 DEF Read
  <2>3. QED BY <1>2, <2>1, <2>2 DEF CollectionInv, MemInv
<1>9. SavedMeansSent'
  <2>1. \A g \in Files : Sent(g, store[g]) => Sent(g, store[g])'
    BY <1>2, <1>7, Numbers DEF IInv, Sent
  <2>2. QED BY <1>2, <2>1 DEF CollectionInv, SavedMeansSent
<1>10. FreshInv'
  <2>1. \A g \in Files \ edited' : g # f /\ g \notin edited /\ disk'[g] = disk[g]
    BY <1>2, <1>4
  <2>2. \A g \in Files \ edited' : Current(g, disk[g]) => Current(g, disk[g])'
    BY <1>2, <2>1 DEF Current
  <2>3. QED BY <1>2, <2>1, <2>2 DEF CollectionInv, FreshInv
<1>11. QED BY <1>5, <1>6, <1>8, <1>9, <1>10 DEF CollectionInv

(* Steps that leave the collection, the store and the versions alone keep  *)
(* what is said of these.                                                  *)
LEMMA CollectionFrame ==
    ASSUME CollectionInv, pc' = "off" \/ pc # "off",
           UNCHANGED <<disk, newest, reverted, store, mem, chroma, lost>>
    PROVE  /\ Newer' /\ SavedMeansSent'
           /\ \A f \in Files : Sent(f, mem[f])' <=> Sent(f, mem[f])
           /\ \A f \in Files : Current(f, disk[f])' <=> Current(f, disk[f])
<1>1. Newer' BY DEF CollectionInv, Newer
<1>2. SavedMeansSent' BY DEF CollectionInv, SavedMeansSent, Sent
<1>3. \A f \in Files : Sent(f, mem[f])' <=> Sent(f, mem[f]) BY DEF Sent
<1>4. \A f \in Files : Current(f, disk[f])' <=> Current(f, disk[f]) BY DEF Current
<1>5. QED BY <1>1, <1>2, <1>3, <1>4

LEMMA CollectionStart ==
    ASSUME IInv, CollectionInv, StartRun
    PROVE  CollectionInv'
<1>1. /\ pc' = "discover" /\ mem' = store /\ found' = {f \in Files : disk[f] # 0}
      /\ picked' = {} /\ batch' = {} /\ failed' = {} /\ edited' = {}
      /\ UNCHANGED <<disk, newest, reverted, store, chroma, lost>>
  BY DEF StartRun, onDisk
<1>2. Newer' BY <1>1 DEF CollectionInv, Newer
<1>3. SavedMeansSent' BY <1>1 DEF CollectionInv, SavedMeansSent, Sent
<1>4. StagesInv' BY <1>1 DEF StagesInv
<1>5. MemInv' BY <1>1 DEF MemInv
<1>6. FreshInv' BY <1>1 DEF FreshInv
<1>7. QED BY <1>2, <1>3, <1>4, <1>5, <1>6 DEF CollectionInv

(* The steps between the files on disk and the run that ends it. *)
LEMMA CollectionStops ==
    ASSUME IInv, CollectionInv, Exit \/ Crash
    PROVE  CollectionInv'
<1>1. /\ pc' = "off"
      /\ UNCHANGED <<disk, newest, reverted, store, chroma, lost, mem>>
  BY DEF Exit, Crash, onDisk, run
<1>2. Newer' /\ SavedMeansSent' BY <1>1, CollectionFrame
<1>3. StagesInv' /\ MemInv' /\ FreshInv' BY <1>1 DEF StagesInv, MemInv, FreshInv
<1>4. QED BY <1>2, <1>3 DEF CollectionInv

LEMMA CollectionExamine ==
    ASSUME IInv, CollectionInv, NEW f \in Files, Examine(f)
    PROVE  CollectionInv'
<1>1. /\ pc = "discover" /\ f \in found /\ found' = found \ {f}
      /\ picked' = IF NeedsIndexing(f) THEN picked \cup {f} ELSE picked
      /\ mem' = IF force \/ ~NeedsIndexing(f) THEN mem ELSE [mem EXCEPT ![f] = disk[f]]
      /\ pc' = "off" \/ pc' = "discover"
      /\ UNCHANGED <<disk, newest, reverted, store, chroma, lost, force, batch, failed, edited>>
  BY DEF Examine, onDisk
<1>2. mem \in [Files -> Known] /\ batch = {} /\ failed = {} /\ f \notin picked
  BY <1>1 DEF IInv, TypeOK, BatchInv, CollectionInv, StagesInv
<1>3. \A g \in Files : mem'[g] = IF g = f /\ ~force /\ NeedsIndexing(f) THEN disk[f] ELSE mem[g]
  BY <1>1, <1>2
<1>4. mem[f] = store[f]
  BY <1>1, <1>2 DEF CollectionInv, MemInv, Read
<1>5. Newer'
  <2>1. disk[f] <= newest[f] BY Numbers DEF IInv, CollectionInv, Newer
  <2>2. QED BY <1>1, <1>3, <2>1 DEF CollectionInv, Newer
<1>6. SavedMeansSent' BY <1>1 DEF CollectionInv, SavedMeansSent, Sent
<1>7. StagesInv' BY <1>1, <1>2 DEF CollectionInv, StagesInv
<1>8. MemInv'
  <2>1. ASSUME NEW g \in Files, mem'[g] # store[g] PROVE ~force /\ g \in picked'
    <3>1. CASE g = f BY <1>1, <1>3, <1>4, <2>1, <3>1
    <3>2. CASE g # f
      BY <1>1, <1>2, <1>3, <2>1, <3>2 DEF CollectionInv, MemInv, Read
    <3>3. QED BY <3>1, <3>2
  <2>2. QED BY <1>1, <2>1 DEF MemInv
<1>9. FreshInv'
  <2>1. ASSUME NEW g \in Files \ edited, disk[g] # 0
        PROVE  g \in found' \/ g \in picked' \/ (store[g] = disk[g] /\ mem'[g] = disk[g])
    <3>1. CASE g = f BY <1>1, <1>3, <1>4, <3>1 DEF NeedsIndexing
    <3>2. CASE g # f
      BY <1>1, <1>2, <1>3, <2>1, <3>2 DEF CollectionInv, FreshInv
    <3>3. QED BY <3>1, <3>2
  <2>2. QED BY <1>1, <2>1 DEF FreshInv
<1>10. QED BY <1>5, <1>6, <1>7, <1>8, <1>9 DEF CollectionInv

LEMMA CollectionDiscovered ==
    ASSUME IInv, CollectionInv, EndDiscovery
    PROVE  CollectionInv'
<1>1. /\ pc = "discover" /\ found = {}
      /\ pc' = IF picked = {} THEN "done" ELSE "chunk"
      /\ UNCHANGED <<disk, newest, reverted, store, chroma, lost, force, mem, found, picked, batch,
                     failed, edited>>
  BY DEF EndDiscovery, onDisk, run
<1>2. batch = {} /\ failed = {} BY <1>1 DEF IInv, BatchInv, CollectionInv, StagesInv
<1>3. Newer' /\ SavedMeansSent' BY <1>1, CollectionFrame
<1>4. StagesInv' BY <1>1, <1>2 DEF StagesInv
<1>5. MemInv' BY <1>1, <1>2 DEF CollectionInv, MemInv, Read
<1>6. FreshInv' BY <1>1, <1>2 DEF CollectionInv, FreshInv
<1>7. QED BY <1>3, <1>4, <1>5, <1>6 DEF CollectionInv

(* A file is read in its newest version, or fails. *)
LEMMA CollectionChunk ==
    ASSUME IInv, CollectionInv, NEW f \in Files, ChunkFile(f)
    PROVE  CollectionInv'
<1>1. /\ pc = "chunk" /\ pc' = "chunk" /\ f \in picked /\ picked' = picked \ {f}
      /\ \/ disk[f] # 0 /\ batch' = batch \cup {<<f, disk[f]>>} /\ failed' = failed
         \/ batch' = batch /\ failed' = failed \cup {f}
      /\ UNCHANGED <<disk, newest, reverted, store, chroma, lost, force, mem, found, edited>>
  BY DEF ChunkFile, Unpicked, onDisk
<1>2. Newer' /\ SavedMeansSent' BY <1>1, CollectionFrame
<1>3. StagesInv'
  <2>1. disk[f] # 0 => /\ disk[f] <= newest[f]
                       /\ f \notin reverted => store[f] <= disk[f] /\ mem[f] <= disk[f]
    BY <1>1, Numbers DEF IInv, CollectionInv, Newer
  <2>2. QED BY <1>1, <2>1 DEF CollectionInv, StagesInv
<1>4. MemInv'
  <2>1. \A g \in Files : Read(g) => Read(g)' BY <1>1 DEF Read
  <2>2. f \in failed' \/ Read(f)'
    <3> DEFINE b == <<f, disk[f]>>
    <3>1. b[1] = f OBVIOUS
    <3>2. f \in failed' \/ b \in batch' BY <1>1
    <3> HIDE DEF b
    <3>3. QED BY <3>1, <3>2 DEF Read
  <2>3. QED BY <1>1, <2>1, <2>2 DEF CollectionInv, MemInv
<1>5. FreshInv'
  <2>1. ASSUME NEW g \in Files \ edited, disk[g] # 0
        PROVE  \/ g \in found' \/ g \in picked' \/ g \in failed' \/ <<g, disk[g]>> \in batch'
               \/ store[g] = disk[g] /\ mem[g] = disk[g]
    <3>1. CASE g = f BY <1>1, <2>1, <3>1
    <3>2. CASE g # f BY <1>1, <2>1, <3>2 DEF CollectionInv, FreshInv
    <3>3. QED BY <3>1, <3>2
  <2>2. QED BY <1>1, <2>1 DEF FreshInv
<1>6. QED BY <1>2, <1>3, <1>4, <1>5 DEF CollectionInv

(* A batch without a chunk ends the run; then there was nothing to send. *)
LEMMA CollectionChunked ==
    ASSUME IInv, CollectionInv, EndChunking
    PROVE  CollectionInv'
<1>1. /\ pc = "chunk" /\ picked = {}
      /\ pc' = IF \A b \in batch : ChunkCount[b[2]] = 0 THEN "done" ELSE "upsert"
      /\ UNCHANGED <<disk, newest, reverted, store, chroma, lost, force, mem, found, picked, batch,
                     failed, edited>>
  BY DEF EndChunking, AfterChunking, onDisk, run
<1>2. Newer' /\ SavedMeansSent' BY <1>1, CollectionFrame
<1>3. StagesInv' BY <1>1 DEF CollectionInv, StagesInv
<1>4. MemInv'
  <2>1. \A g \in Files : Read(g)' <=> Read(g) BY <1>1 DEF Read
  <2>2. QED BY <1>1, <2>1 DEF CollectionInv, MemInv
<1>5. FreshInv'
  <2>1. CASE pc' = "done"
    <3>1. \A b \in batch : ChunkCount[b[2]] = 0 BY <1>1, <2>1
    <3>2. \A g \in Files : <<g, disk[g]>> \in batch => Current(g, disk[g])
      BY <3>1 DEF Current
    <3>3. found = {} BY <1>1 DEF CollectionInv, StagesInv
    <3>4. \A g \in Files : Current(g, disk[g])' <=> Current(g, disk[g])
      BY <1>1, CollectionFrame
    <3>5. QED BY <1>1, <2>1, <3>2, <3>3, <3>4 DEF CollectionInv, FreshInv
  <2>2. CASE pc' = "upsert"
    BY <1>1, <2>2 DEF CollectionInv, FreshInv
  <2>3. QED BY <1>1, <2>1, <2>2
<1>6. QED BY <1>2, <1>3, <1>4, <1>5 DEF CollectionInv

(* An upsert puts the chunks of the batch into the collection and changes  *)
(* nothing else there.                                                     *)
LEMMA UpsertSends ==
    ASSUME TypeOK, Upsert
    PROVE  /\ \A b \in batch : \A i \in 1..ChunkCount[b[2]] : chroma'[<<b[1], i>>] = b[2]
           /\ \A f \in Files, i \in Positions :
                  \/ chroma'[<<f, i>>] = chroma[<<f, i>>]
                  \/ \E b \in batch : b[1] = f /\ chroma'[<<f, i>>] = b[2]
<1> DEFINE Holds(id) == \E c \in Chunks : id = <<c[1], c[2]>>
           Chosen(id) == CHOOSE c \in Chunks : id = <<c[1], c[2]>>
<1>1. \A id \in Ids : chroma'[id] = IF Holds(id) THEN Chosen(id)[3] ELSE chroma[id]
  BY DEF Upsert
<1>2. \A id \in Ids : Holds(id) => Chosen(id) \in Chunks /\ id = <<Chosen(id)[1], Chosen(id)[2]>>
  OBVIOUS
<1>3. ASSUME NEW f \in Files, NEW i \in Positions, Holds(<<f, i>>)
      PROVE  \E b \in batch : b[1] = f /\ chroma'[<<f, i>>] = b[2]
  <2>1. <<f, i>> \in Ids BY DEF Ids
  <2>2. PICK c \in Chunks : c = Chosen(<<f, i>>) BY <1>2, <1>3, <2>1
  <2>3. c[1] = f /\ chroma'[<<f, i>>] = c[3] BY <1>1, <1>2, <1>3, <2>1, <2>2
  <2>4. PICK b \in batch, j \in Positions : c = <<b[1], j, b[2]>> BY <2>2 DEF Chunks
  <2>5. QED BY <2>3, <2>4
<1>4. ASSUME NEW b \in batch, NEW i \in 1..ChunkCount[b[2]]
      PROVE  chroma'[<<b[1], i>>] = b[2]
  <2>1. b[1] \in Files /\ b[2] \in Versions BY DEF TypeOK
  <2>2. i \in Positions /\ i <= ChunkCount[b[2]] BY <2>1, ChunkPositions
  <2> DEFINE c == <<b[1], i, b[2]>>
  <2>3. c \in Chunks BY <2>1, <2>2 DEF Chunks
  <2>4. Holds(<<b[1], i>>)
    <3>1. c[1] = b[1] /\ c[2] = i OBVIOUS
    <3> HIDE DEF c
    <3>2. QED BY <2>3, <3>1
  <2>5. PICK a \in batch : a[1] = b[1] /\ chroma'[<<b[1], i>>] = a[2]
    BY <1>3, <2>1, <2>2, <2>4
  <2>6. a = b BY <2>5 DEF TypeOK
  <2>7. QED BY <2>5, <2>6
<1>5. ASSUME NEW f \in Files, NEW i \in Positions, ~Holds(<<f, i>>)
      PROVE  chroma'[<<f, i>>] = chroma[<<f, i>>]
  BY <1>1, <1>5 DEF Ids
<1> HIDE DEF Holds, Chosen
<1>6. QED BY <1>3, <1>4, <1>5

LEMMA CollectionUpsert ==
    ASSUME IInv, CollectionInv, Upsert
    PROVE  CollectionInv'
<1>1. /\ pc = "upsert" /\ pc' = "sparse" /\ lost' = lost \ batch
      /\ UNCHANGED <<disk, newest, reverted, store, force, mem, found, picked, batch, failed,
                     edited>>
  BY DEF Upsert, run
<1>2. /\ \A b \in batch : \A i \in 1..ChunkCount[b[2]] : chroma'[<<b[1], i>>] = b[2]
      /\ \A f \in Files, i \in Positions :
            \/ chroma'[<<f, i>>] = chroma[<<f, i>>]
            \/ \E b \in batch : b[1] = f /\ chroma'[<<f, i>>] = b[2]
  BY UpsertSends DEF IInv
<1>3. \A b \in batch : /\ b[1] \in Files /\ b[2] \in Versions /\ b[2] \in Nat
                       /\ b[2] <= newest[b[1]]
                       /\ b[1] \notin reverted => store[b[1]] <= b[2] /\ mem[b[1]] <= b[2]
  BY <1>1 DEF IInv, TypeOK, CollectionInv, StagesInv, Versions
<1>4. Newer'
  <2>1. \A f \in Files, i \in Positions : chroma'[<<f, i>>] <= newest[f]
    BY <1>2, <1>3 DEF CollectionInv, Newer
  <2>2. QED BY <1>1, <2>1 DEF CollectionInv, Newer
<1>5. ASSUME NEW f \in Files, NEW w \in Nat, NEW b \in batch, b[1] = f, w <= b[2]
      PROVE  \E v \in w..newest[f] : \A i \in 1..ChunkCount[v] : chroma'[<<f, i>>] >= v
  <2>1. b[2] \in w..newest[f] BY <1>3, <1>5, Numbers DEF IInv
  <2>2. \A i \in 1..ChunkCount[b[2]] : chroma'[<<f, i>>] = b[2] BY <1>2, <1>5
  <2>3. \A i \in 1..ChunkCount[b[2]] : chroma'[<<f, i>>] >= b[2] BY <1>3, <2>2
  <2>4. QED BY <2>1, <2>3
<1>6. SavedMeansSent'
  <2>1. SUFFICES ASSUME NEW f \in Files \ reverted, store[f] # 0,
                        <<f, store[f]>> \notin lost \ batch
                 PROVE  \E v \in store[f]..newest[f] :
                            \A i \in 1..ChunkCount[v] : chroma'[<<f, i>>] >= v
    BY <1>1 DEF SavedMeansSent, Sent
  <2>2. store[f] \in Nat /\ newest[f] \in Nat /\ newest[f] <= MaxVersion
    BY Numbers DEF IInv
  <2>3. CASE Read(f) BY <1>3, <1>5, <2>2, <2>3 DEF Read
  <2>4. CASE ~Read(f)
    <3>1. <<f, store[f]>> \notin lost BY <2>1, <2>4 DEF Read
    <3>2. PICK v \in store[f]..newest[f] : \A i \in 1..ChunkCount[v] : chroma[<<f, i>>] >= v
      BY <2>1, <3>1 DEF CollectionInv, SavedMeansSent, Sent
    <3>3. v \in Versions BY <2>1, <2>2, <3>2, MaxVersionAssumption DEF Versions
    <3>4. \A i \in 1..ChunkCount[v] : chroma'[<<f, i>>] = chroma[<<f, i>>]
      BY <1>2, <2>4, <3>3, ChunkPositions DEF Read
    <3>5. QED BY <3>2, <3>4
  <2>5. QED BY <2>3, <2>4
<1>7. StagesInv' BY <1>1 DEF CollectionInv, StagesInv
<1>8. MemInv'
  <2>1. ASSUME NEW f \in Files, mem[f] # store[f]
        PROVE  ~force /\ (f \in failed \/ f \in reverted \/ Sent(f, mem[f])')
    <3>1. ~force /\ (f \in failed \/ Read(f))
      BY <1>1, <2>1 DEF CollectionInv, MemInv, StagesInv
    <3>2. mem[f] \in Nat BY Numbers DEF IInv
    <3>3. Read(f) => f \in reverted \/ Sent(f, mem[f])' BY <1>1, <1>3, <1>5, <3>2 DEF Read, Sent
    <3>4. QED BY <3>1, <3>3
  <2>2. QED BY <1>1, <2>1 DEF MemInv
<1>9. FreshInv'
  <2>1. \A f \in Files : <<f, disk[f]>> \in batch => Current(f, disk[f])'
    BY <1>1, <1>2 DEF Current
  <2>2. QED BY <1>1, <2>1 DEF CollectionInv, FreshInv, StagesInv
<1>10. QED BY <1>4, <1>6, <1>7, <1>8, <1>9 DEF CollectionInv

(* The steps that write the files other than the collection. *)
LEMMA CollectionWrites ==
    ASSUME IInv, CollectionInv, OpenSparse \/ WriteSparse \/ OpenStore
    PROVE  CollectionInv'
<1>1. /\ pc \in {"sparse", "sparse_write", "hashes"}
      /\ pc' \in {"sparse_write", "hashes", "hashes_write"}
      /\ UNCHANGED <<disk, newest, reverted, store, chroma, lost, force, mem, found, picked, batch,
                     failed, edited>>
  BY DEF OpenSparse, WriteSparse, OpenStore, run
<1>2. /\ Newer' /\ SavedMeansSent'
      /\ \A f \in Files : Sent(f, mem[f])' <=> Sent(f, mem[f])
      /\ \A f \in Files : Current(f, disk[f])' <=> Current(f, disk[f])
  BY <1>1, CollectionFrame
<1>3. StagesInv' BY <1>1 DEF CollectionInv, StagesInv
<1>4. MemInv' BY <1>1, <1>2 DEF CollectionInv, MemInv
<1>5. FreshInv' BY <1>1, <1>2 DEF CollectionInv, FreshInv
<1>6. QED BY <1>2, <1>3, <1>4, <1>5 DEF CollectionInv

(* The hashes are saved: what they say was sent, but for the failures. *)
LEMMA CollectionSave ==
    ASSUME IInv, CollectionInv, WriteStore
    PROVE  CollectionInv'
<1>1. /\ pc = "hashes_write" /\ pc' = "done" /\ store' = mem
      /\ lost' = IF force THEN lost ELSE lost \cup {<<f, mem[f]>> : f \in failed}
      /\ UNCHANGED <<disk, newest, reverted, chroma, force, mem, found, picked, batch, failed,
                     edited>>
  BY DEF WriteStore, run
<1>2. Newer' BY <1>1 DEF CollectionInv, Newer
<1>3. SavedMeansSent'
  <2>1. SUFFICES ASSUME NEW f \in Files \ reverted, mem[f] # 0, <<f, mem[f]>> \notin lost'
                 PROVE  Sent(f, mem[f])
    BY <1>1 DEF SavedMeansSent, Sent
  <2>2. CASE mem[f] = store[f]
    BY <1>1, <2>1, <2>2 DEF CollectionInv, SavedMeansSent, Sent
  <2>3. CASE mem[f] # store[f]
    <3>1. ~force /\ (f \in failed \/ f \in reverted \/ Sent(f, mem[f]))
      BY <1>1, <2>3 DEF CollectionInv, MemInv
    <3>2. QED BY <1>1, <2>1, <3>1
  <2>4. QED BY <2>2, <2>3
<1>4. StagesInv' BY <1>1 DEF CollectionInv, StagesInv
<1>5. MemInv' BY <1>1 DEF MemInv
<1>6. FreshInv'
  <2>1. \A f \in Files : Current(f, disk[f])' <=> Current(f, disk[f]) BY <1>1 DEF Current
  <2>2. QED BY <1>1, <2>1 DEF CollectionInv, FreshInv
<1>7. QED BY <1>2, <1>3, <1>4, <1>5, <1>6 DEF CollectionInv

LEMMA CollectionWipe ==
    ASSUME IInv, CollectionInv, Wipe
    PROVE  CollectionInv'
<1>1. /\ pc = "off" /\ pc' = "off"
      /\ store' = [f \in Files |-> 0] /\ chroma' = [id \in Ids |-> 0]
      /\ newest' = disk /\ disk' = disk
  BY DEF Wipe
<1>2. Newer'
  <2>1. \A f \in Files : disk[f] >= 0 /\ disk[f] <= disk[f] BY Numbers DEF IInv
  <2>2. \A f \in Files, i \in Positions : chroma'[<<f, i>>] = 0 BY <1>1 DEF Ids
  <2>3. \A f \in Files : store'[f] = 0 BY <1>1
  <2> HIDE DEF Newer
  <2>4. QED BY <1>1, <2>1, <2>2, <2>3 DEF Newer
<1>3. SavedMeansSent' BY <1>1 DEF SavedMeansSent
<1>4. StagesInv' /\ MemInv' /\ FreshInv' BY <1>1 DEF StagesInv, MemInv, FreshInv
<1>5. QED BY <1>2, <1>3, <1>4 DEF CollectionInv

LEMMA CollectionStep ==
    ASSUME IInv, CollectionInv, [Next]_vars
    PROVE  CollectionInv'
<1>1. CASE Step
  BY <1>1, CollectionExamine, CollectionChunk, CollectionDiscovered, CollectionChunked,
     CollectionUpsert, CollectionWrites, CollectionSave, CollectionStops DEF Step
<1>2. CASE StartRun BY <1>2, CollectionStart
<1>3. CASE Crash BY <1>3, CollectionStops
<1>4. CASE Wipe BY <1>4, CollectionWipe
<1>5. CASE \E f \in Files : Edit(f) \/ Delete(f) BY <1>5, CollectionEdit
<1>6. CASE UNCHANGED vars
  <2>1. UNCHANGED <<disk, newest, reverted, store, chroma, lost, pc, force, mem, found,
                    picked, batch, failed, edited>>
    BY <1>6 DEF vars, onDisk, run
  <2>2. /\ Newer' /\ SavedMeansSent'
        /\ \A f \in Files : Sent(f, mem[f])' <=> Sent(f, mem[f])
        /\ \A f \in Files : Current(f, disk[f])' <=> Current(f, disk[f])
    BY <2>1, CollectionFrame
  <2>3. StagesInv' BY <2>1 DEF CollectionInv, StagesInv
  <2>4. MemInv'
    <3>1. \A f \in Files : Read(f)' <=> Read(f) BY <2>1 DEF Read
    <3>2. QED BY <2>1, <2>2, <3>1 DEF CollectionInv, MemInv
  <2>5. FreshInv' BY <2>1, <2>2 DEF CollectionInv, FreshInv
  <2>6. QED BY <2>2, <2>3, <2>4, <2>5 DEF CollectionInv
<1>7. QED BY <1>1, <1>2, <1>3, <1>4, <1>5, <1>6 DEF Next

(* A run's end, from the invariant: a file whose hash was known already is *)
(* in the collection because a saved hash means that it was sent, and what *)
(* was sent then is the newest version there is.                           *)
LEMMA FreshAtEnd == IInv /\ CollectionInv => FreshAfterRun
<1> SUFFICES ASSUME IInv, CollectionInv, pc = "done",
                    NEW f \in Files \ (edited \cup failed \cup reverted),
                    disk[f] # 0, <<f, disk[f]>> \notin lost
             PROVE  Current(f, disk[f])
  BY DEF FreshAfterRun
<1>1. CASE Current(f, disk[f]) BY <1>1
<1>2. CASE store[f] = disk[f]
  <2>1. disk[f] = newest[f] /\ newest[f] \in Nat /\ newest[f] <= MaxVersion
    BY Numbers DEF IInv, CollectionInv, Newer
  <2>2. PICK v \in disk[f]..newest[f] : \A i \in 1..ChunkCount[v] : chroma[<<f, i>>] >= v
    BY <1>2 DEF CollectionInv, SavedMeansSent, Sent
  <2>3. v = disk[f] /\ v \in Versions
    BY <2>1, <2>2, MaxVersionAssumption DEF Versions
  <2>4. \A i \in 1..ChunkCount[v] : /\ chroma[<<f, i>>] \in Nat
                                    /\ chroma[<<f, i>>] <= newest[f]
    BY <2>3, ChunkPositions, Numbers DEF IInv, CollectionInv, Newer
  <2>5. \A i \in 1..ChunkCount[v] : chroma[<<f, i>>] = v
    BY <2>1, <2>2, <2>3, <2>4
  <2>6. QED BY <2>3, <2>5 DEF Current
<1>3. QED BY <1>1, <1>2 DEF CollectionInv, FreshInv

(* A saved hash never runs ahead of the collection, over any number of     *)
(* crashed, forced or racing runs, for the files that no edit has taken    *)
(* back to an older content.  (Of these it may.)                           *)
THEOREM SavedWasSent == Spec => []SavedMeansSent
<1>1. IInv /\ CollectionInv /\ [Next]_vars => CollectionInv' BY CollectionStep
<1>2. CollectionInv => SavedMeansSent BY DEF CollectionInv
<1>3. QED BY <1>1, <1>2, CollectionInit, Invariance, PTL DEF Spec

(* A complete run leaves the present content of every file that did not    *)
(* change meanwhile, did not fail and was not taken back in the collection,*)
(* whatever the runs before it went through.                               *)
THEOREM FreshRuns == Spec => []FreshAfterRun
<1>1. IInv /\ CollectionInv /\ [Next]_vars => CollectionInv' BY CollectionStep
<1>2. IInv /\ CollectionInv => FreshAfterRun BY FreshAtEnd
<1>3. QED BY <1>1, <1>2, CollectionInit, Invariance, PTL DEF Spec
=============================================================================
