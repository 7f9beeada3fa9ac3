---------------------------- MODULE MCKickRound -----------------------------
(* Instances of KickRound for TLC: a kick that is over before the node's tenth  *)
(* frame, and one that lasts longer; both outlast the node's requests.          *)
EXTENDS KickRound

LongKicks == {[i \in 0..1 |-> 6], [i \in 0..2 |-> 12]}
=============================================================================
