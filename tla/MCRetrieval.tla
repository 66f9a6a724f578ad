---------------------------- MODULE MCRetrieval ----------------------------
(* Four chunks: flagged code, flagged configuration, code too large for    *)
(* the budget, and a text without raw code.  White space stands around the *)
(* code and the text.                                                      *)
EXTENDS Retrieval, TLC

CONSTANTS py, yml, sql, md

MCDocSize == py :> 10 @@ yml :> 10 @@ sql :> 10 @@ md :> 30
MCRawSize == py :> 70 @@ yml :> 90 @@ sql :> 200 @@ md :> 0
MCDocStripped == py :> 10 @@ yml :> 10 @@ sql :> 9 @@ md :> 28
MCRawStripped == py :> 40 @@ yml :> 90 @@ sql :> 190 @@ md :> 0
=============================================================================
