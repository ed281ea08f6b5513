-------------------------- MODULE MCTransferPaging --------------------------
EXTENDS TransferPaging

(* Blocks 1 and 2 may hold approvals: they share the first window or not,  *)
(* depending on where the chain ends.                                      *)
SomeBlocks == {1, 2}
=============================================================================
