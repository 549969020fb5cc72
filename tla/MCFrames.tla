------------------------------ MODULE MCFrames ------------------------------
(* Frames for TLC.  The sockets of a station have no order.                *)
EXTENDS Frames, TLC

FramesSymmetry == Permutations(Near) \cup Permutations(Far)
=============================================================================
