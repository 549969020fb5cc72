-------------------------- MODULE MCReceiveBuffers --------------------------
(* ReceiveBuffers for TLC.  One block is like another.                     *)
EXTENDS ReceiveBuffers, TLC

BlockSymmetry == Permutations(Blocks)
=============================================================================
