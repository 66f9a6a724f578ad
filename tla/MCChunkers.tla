----------------------------- MODULE MCChunkers -----------------------------
(* Two explicit task ids next to the reserved and the default ones.        *)
EXTENDS Chunkers

MCNames == {<<"name", 1>>, <<"name", 2>>}
=============================================================================
