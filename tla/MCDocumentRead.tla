-------------------------- MODULE MCDocumentRead --------------------------
(***************************************************************************)
(* Every tree of five blocks, a block's number being above its parent's;   *)
(* so 5 has no children that can be asked for, and serves as the block     *)
(* without an ID.                                                          *)
(***************************************************************************)
EXTENDS DocumentRead

FiveBlocks == 1..5

Parents == {p \in [FiveBlocks -> 0..4] : \A b \in FiveBlocks : p[b] < b}

AllTrees ==
    {[b \in 0..5 |-> SetToSortSeq({c \in FiveBlocks : p[c] = b}, <)] :
        p \in Parents}

Depths == -1..4
=============================================================================
