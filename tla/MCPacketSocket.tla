--------------------------- MODULE MCPacketSocket ---------------------------
(* PacketSocket for TLC.  Requests are told apart only by their place in     *)
(* the queue, so runs without liveness may take them up to permutation.      *)
EXTENDS PacketSocket, TLC

RequestSymmetry == Permutations(Requests)
=============================================================================
