------------------------------ MODULE MCPaging ------------------------------
(* Instances of CursorPaging.                                              *)
EXTENDS CursorPaging, TLC

CONSTANTS w1, w2

\* A search and a folder listing; two searches with different conditions.
MCSearchAndTree == (w1 :> "search") @@ (w2 :> "tree")
MCSearches == (w1 :> "search") @@ (w2 :> "search")
MCConditions == (w1 :> 1) @@ (w2 :> 2)
=============================================================================
