---------------------------- MODULE MCMetadataDB ----------------------------
(* Nothing tells the seeders apart, or the threads of one process.         *)
EXTENDS MetadataDB, TLC

Symmetry == Permutations(Seeders) \union Permutations(ApiThreads)
=============================================================================
