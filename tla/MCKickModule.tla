---------------------------- MODULE MCKickModule ----------------------------
(* Instances of KickModule for TLC: all sequences of up to MaxKeyframes         *)
(* keyframes that take at most MaxDuration frames.                              *)
EXTENDS KickModule

CONSTANTS MaxKeyframes, MaxDuration

AllSequences == UNION {[0..(n - 1) -> 0..MaxDuration] : n \in 0..MaxKeyframes}
=============================================================================
