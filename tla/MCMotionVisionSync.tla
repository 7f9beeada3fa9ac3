------------------------- MODULE MCMotionVisionSync -------------------------
(* Instances of MotionVisionSync for TLC.  Each configuration gives the        *)
(* constants one part of the exchange is about more than one value.            *)
EXTENDS MotionVisionSync

CONSTANTS noTarget, ball, defaults, sprint

=============================================================================
