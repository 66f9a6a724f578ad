---------------------------- MODULE MCIngestion ----------------------------
(* Versions of a file lose and regain a chunk, so that upserts leave ids   *)
(* of an older version behind.  The files are interchangeable.             *)
EXTENDS Ingestion, TLC

MCChunkCount == [v \in Versions |-> IF v = 2 THEN 1 ELSE 2]
Symmetry == Permutations(Files)

(* A repository in which every file is there from the start and gets new   *)
(* contents between the runs only.                                         *)
AllThere == Init /\ \A f \in Files : disk[f] = 1
NewBetweenRuns == \A f \in Files : disk'[f] # disk[f] => pc = "off" /\ disk'[f] > disk[f]
SparseNext ==
    \/ Step \/ StartRun \/ Crash \/ Wipe
    \/ \E f \in Files : Edit(f) /\ NewBetweenRuns
SparseSpec == AllThere /\ [][SparseNext]_vars
=============================================================================
