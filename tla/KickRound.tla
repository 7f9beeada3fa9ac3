----------------------------- MODULE KickRound ------------------------------
(***************************************************************************)
(* One kick from the behaviour to the joints: the Kick node of             *)
(* core/python/behaviors/kick.py in the vision process, the kick request   *)
(* in shared memory, and KickModule in the motion process.                 *)
(*                                                                         *)
(* The node sees only kick_running_, one exchange late, and decides by     *)
(* counting vision's frames.  Motion runs MinMotion to MaxMotion frames    *)
(* for each frame of vision.                                               *)
(***************************************************************************)
EXTENDS KickModule

CONSTANTS
  MinMotion, MaxMotion,  \* motion frames per vision frame
  MaxSkip                \* by how much vision's frame id may advance at once

(* Motion is the faster process: it runs at least once for each frame of vision. *)
ASSUME MotionRateAssumption == MinMotion \in Nat \ {0} /\ MaxMotion \in Nat /\ MinMotion <= MaxMotion

(* The node's second frame is still one in which it asks. *)
ASSUME MaxSkipAssumption == MaxSkip \in 1..3

(* A kick takes longer than the node goes on asking for it, which is four frames *)
(* of vision at most.  That of default.yaml takes 510 frames.                    *)
ASSUME DurationAssumption == \A seq \in Sequences : Total(seq) >= 4 * MaxMotion

VARIABLES
  sync,    \* sync_kick_request_: kick_type_ and kick_running_
  mpc,     \* motion: "receive", "process", "publish"
  vis,     \* vision's kick request
  vpc,     \* vision: "receive", "run", "publish"
  node,    \* "before", "kick" or "after": the state machine's node
  frames,  \* the Kick node's getFrames(), up to 11
  ticks,   \* motion frames since vision's last publication
  starts   \* history: kicks started

roundVars == <<vars, sync, mpc, vis, vpc, node, frames, ticks, starts>>

NoRequest == [kick_type_ |-> "NO_KICK", kick_running_ |-> FALSE]

RoundInit ==
  /\ Init /\ kick_type_ = "NO_KICK"
  /\ sync = NoRequest /\ vis = NoRequest
  /\ mpc = "receive" /\ vpc = "receive"
  /\ node = "before" /\ frames = 0
  /\ ticks = 0 /\ starts = 0

-----------------------------------------------------------------------------
MotionReceive ==
  /\ mpc = "receive" /\ ticks < MaxMotion
  /\ mpc' = "process"
  /\ kick_type_' = sync.kick_type_
  /\ kick' = [kick EXCEPT !.running = sync.kick_running_]
  /\ UNCHANGED <<sync, vis, vpc, node, frames, ticks, starts>>

MotionProcess ==
  /\ mpc = "process"
  /\ mpc' = "publish"
  /\ \/ StartKick /\ starts' = starts + 1
     \/ (ContinueKick \/ NoKick) /\ UNCHANGED starts
  /\ UNCHANGED <<kick_type_, sync, vis, vpc, node, frames, ticks>>

MotionPublish ==
  /\ mpc = "publish"
  /\ mpc' = "receive"
  /\ sync' = [sync EXCEPT !.kick_running_ = kick.running]
  /\ ticks' = ticks + 1
  /\ UNCHANGED <<kick_type_, kick, vis, vpc, node, frames, starts>>

(* VisionCore::receiveData. *)
VisionReceive ==
  /\ vpc = "receive"
  /\ vpc' = "run"
  /\ vis' = [kick_type_ |-> "NO_KICK", kick_running_ |-> sync.kick_running_]
  /\ UNCHANGED <<kick_type_, kick, sync, mpc, node, frames, ticks, starts>>

(* Kick.run: the guards on getFrames(). *)
Asks(f) == f <= 3
Completed_AtOnce(f, running) == f > 0 /\ ~running
Completed_WhileRunning(f, running) == f > 10 /\ running
Completed(f, running) == f > 10 /\ ~running

Saturated(f) == IF f > 11 THEN 11 ELSE f

RunNode ==
  /\ vpc = "run" /\ node = "kick"
  /\ vpc' = "publish"
  /\ vis' = IF Asks(frames) THEN [vis EXCEPT !.kick_type_ = "STRAIGHT"] ELSE vis
  /\ node' = IF Completed(frames, vis.kick_running_) THEN "after" ELSE "kick"
  /\ \E s \in 1..MaxSkip : frames' = Saturated(frames + s)
  /\ UNCHANGED <<kick_type_, kick, sync, mpc, ticks, starts>>

(* The nodes before and after it: Stand, which asks for no kick. *)
RunOther ==
  /\ vpc = "run" /\ node # "kick"
  /\ vpc' = "publish"
  /\ node' \in IF node = "before" THEN {"before", "kick"} ELSE {node}
  /\ UNCHANGED <<kick_type_, kick, sync, mpc, vis, frames, ticks, starts>>

(* VisionCore::publishData keeps motion's kick_running_. *)
VisionPublish ==
  /\ vpc = "publish" /\ ticks >= MinMotion
  /\ vpc' = "receive"
  /\ sync' = [sync EXCEPT !.kick_type_ = vis.kick_type_]
  /\ ticks' = 0
  /\ UNCHANGED <<kick_type_, kick, mpc, vis, node, frames, starts>>

MotionNext == MotionReceive \/ MotionProcess \/ MotionPublish
VisionNext == VisionReceive \/ RunNode \/ RunOther \/ VisionPublish

RoundNext == MotionNext \/ VisionNext

RoundSpec == RoundInit /\ [][RoundNext]_roundVars

(* Both processes run for ever. *)
FairRound == RoundSpec /\ WF_roundVars(MotionNext) /\ WF_roundVars(VisionNext)

-----------------------------------------------------------------------------
(* Properties. *)

(* One visit of the Kick node is one kick: the three extra frames in which the  *)
(* node repeats its request do not start a second one, and when the node is     *)
(* left the kick has been made and is over.                                     *)
OneKickPerVisit ==
  /\ starts <= 1
  /\ node = "after" => starts = 1 /\ kick.state = "Finished"

(* The node is left once it has been entered, although it is vision's late copy *)
(* of kick_running_ that it waits for.                                          *)
NodeCompletes == node = "kick" ~> node = "after"
=============================================================================
