-------------------------------- MODULE Kick --------------------------------
(***************************************************************************)
(* What a kick promises the rest of motion, one step a frame of motion: a  *)
(* countdown.  It begins in the frame that asks for it when none runs, is  *)
(* neither stopped, restarted nor stretched by whatever is asked           *)
(* meanwhile, and is over when the time of its file has passed, in no      *)
(* frame before or after.  A kick whose file does not load is never over.  *)
(***************************************************************************)
EXTENDS Integers

CONSTANT Times    \* the frames a kick may take

VARIABLES asked,  \* the request of the frame asks for a kick
          left    \* frames until the kick is over, 0 if none runs

Forever == -1

Init == asked \in BOOLEAN /\ left = 0

Begin == left = 0 /\ asked /\ left' \in Times
GoOn == left # 0 /\ left' = IF left = Forever THEN Forever ELSE left - 1
Rest == left = 0 /\ ~asked /\ left' = 0

Next == (Begin \/ GoOn \/ Rest) /\ asked' \in BOOLEAN

Spec == Init /\ [][Next]_<<asked, left>>
=============================================================================
