-------------------------- MODULE MotionVisionSync --------------------------
(***************************************************************************)
(* The exchange of requests and odometry between the motion process        *)
(* (core/MotionCore.cpp) and the vision process (core/VisionCore.cpp and   *)
(* the python behaviours it runs).                                         *)
(*                                                                         *)
(* Each process works on private copies of the blocks and merges them with *)
(* the sync_ blocks in shared memory.  Every merge runs under              *)
(* motion_vision_lock_, so it is one atomic step here; but a process       *)
(* releases the lock between its receiveData and its publishData, and that *)
(* window is what this module is about.                                    *)
(*                                                                         *)
(*   motion:  receiveData -> processMotionFrame -> publishData             *)
(*   vision:  receiveData -> python behaviour   -> publishData             *)
(*                                                                         *)
(* Left out, because no code under core/ or interfaces/ ever gives them a  *)
(* second value (start_command_, finished_standing_, finished_with_step_,  *)
(* walk_control_status_) or none ever reads them (is_penalised_, the       *)
(* target flags).  kick_heading_ is treated by every merge as              *)
(* kick_with_left_ is, and is represented by it.  Of the joint commands    *)
(* the model keeps who last asked for body angles, if anyone did.          *)
(***************************************************************************)
EXTENDS Integers

CONSTANTS
  Postures,       \* motions a behaviour asks for that have no speed
  Speeds,         \* non-zero walk velocities a behaviour asks for
  Targets,        \* values of target_point_
  NoTarget,       \* its initial value
  Feet,           \* values of kick_with_left_ a walk kick is asked with
  Tilts,          \* what the angle sensor can show: -1 back, 0 up, 1 front
  WalkTypes,      \* walk types readConfig can find in config.yaml
  Poses,          \* body commands a behaviour sends: {} or {"pose"}
  KickCommands,   \* kick types a behaviour publishes besides NO_KICK
  ParamSets,      \* walk parameter sets the behaviours can send
  NoParams,       \* the initial one
  GetupStands,    \* values of getup_->needsStand()
  MaxTravel,      \* bound: displacement motion can produce in all
  MaxConsumed,    \* bound: displacement vision can consume in all
  MaxFallen       \* bound: absolute value of tilt_fallen_counter_

ASSUME PosturesAssumption == Postures \subseteq {"NONE", "STAND", "STAND_STRAIGHT"}
ASSUME SpeedsAssumption == 0 \notin Speeds
ASSUME TargetsAssumption == NoTarget \in Targets
ASSUME FeetAssumption == Feet \subseteq BOOLEAN
ASSUME TiltsAssumption == Tilts \subseteq -1..1
ASSUME WalkTypesAssumption == WalkTypes \subseteq {"INVALID", "RS2014", "OTHER"}
ASSUME PosesAssumption == Poses \subseteq {"pose"}
ASSUME KickCommandsAssumption == KickCommands \subseteq {"STRAIGHT", "ABORT"}
ASSUME ParamsAssumption == NoParams \in ParamSets
ASSUME GetupAssumption == GetupStands \subseteq BOOLEAN
ASSUME MaxTravelAssumption == MaxTravel \in Nat
ASSUME MaxConsumedAssumption == MaxConsumed \in Nat
ASSUME MaxFallenAssumption == MaxFallen \in Nat

VARIABLES
  syncWalk, syncKick, syncOdo, syncCmd, syncParam,  \* blocks in shared memory
  motWalk, motKick, motOdo, motCmd, motParam,       \* motion's copies
  engine,    \* walk_, with RSWalkModule2014's prev_command_ and standing
  kicking,   \* KickModule::state_ # Finished
  mpc,       \* motion: "receive", "process", "publish"
  visWalk, visKick, visOdo, visCmd, visParam,       \* vision's copies
  vpc,       \* vision: "receive", "behave", "publish"
  is_ok,     \* PythonModule::is_ok_
  (* history *)
  published, \* the walk request and the parameters vision last published
  stale,     \* which of motion's copy and the sync block differ from published
  ledger     \* where the displacement produced by the walk engine went

syncVars == <<syncWalk, syncKick, syncOdo, syncCmd, syncParam>>
motVars == <<motWalk, motKick, motOdo, motCmd, motParam, engine, kicking>>
visVars == <<visWalk, visKick, visOdo, visCmd, visParam>>
history == <<published, stale, ledger>>
vars == <<syncVars, motVars, mpc, visVars, vpc, is_ok, history>>

-----------------------------------------------------------------------------
(* The blocks. *)

Motions == {"NONE", "STAND", "STAND_STRAIGHT", "WALK"}
AllSpeeds == Speeds \cup {0}
KickTypes == {"NO_KICK", "STRAIGHT", "ABORT"}
FallDirs == {"NONE", "FORWARD", "BACKWARD"}
BodyCommands == {"none", "pose", "kick", "walk"}

WalkRequest ==
  [motion_ : Motions, speed_ : AllSpeeds, target_point_ : Targets,
   kick_with_left_ : BOOLEAN, perform_kick_ : BOOLEAN, new_command_ : BOOLEAN,
   walk_type_ : WalkTypes \cup {"INVALID"}, tilt_fallen_counter_ : Int]

KickRequest == [kick_type_ : KickTypes, kick_running_ : BOOLEAN]
OdometryBlock == [displacement : Nat, fall_direction_ : FallDirs]
ParamBlock == [params : ParamSets, send_params_ : BOOLEAN]
Engine == [type : {"NULL", "RS2014"}, prev_command_ : Motions, standing : BOOLEAN]
Ledger == [produced : Nat, consumed : Nat, cleared : Int, repeated : Nat,
           again : Nat, held : BOOLEAN]

InitWalkRequest ==
  [motion_ |-> "NONE", speed_ |-> 0, target_point_ |-> NoTarget,
   kick_with_left_ |-> FALSE, perform_kick_ |-> FALSE, new_command_ |-> FALSE,
   walk_type_ |-> "INVALID", tilt_fallen_counter_ |-> 0]

(* WalkRequestBlock::set, and the requests built on it. *)
SetRequest(w, m, v) ==
  [w EXCEPT !.new_command_ = TRUE, !.motion_ = m, !.speed_ = v,
            !.perform_kick_ = FALSE, !.kick_with_left_ = FALSE]

Stand(w) == SetRequest(w, "STAND", 0)
NoWalk(w) == SetRequest(w, "NONE", 0)
SetWalk(w, v) == SetRequest(w, "WALK", v)

SetKick(w, left) ==
  [w EXCEPT !.new_command_ = TRUE, !.motion_ = "WALK",
            !.perform_kick_ = TRUE, !.kick_with_left_ = left]

SetWalkTarget(w, p) ==
  [w EXCEPT !.new_command_ = TRUE, !.motion_ = "WALK", !.target_point_ = p]

(* What a behaviour may do to its walk request in one frame; a node that waits  *)
(* (as behaviors/kick.py does after its third frame) leaves it as received.     *)
Requests(w) ==
  {w} \cup {SetRequest(w, m, 0) : m \in Postures}
    \cup {SetWalk(w, v) : v \in Speeds}
    \cup {SetKick(w, left) : left \in Feet}
    \cup {SetWalkTarget(w, p) : p \in Targets \ {NoTarget}}

(* util.setFallCounter for one angle. *)
FallCounter(c, tilt) ==
  CASE tilt = 1  -> IF c < 0 THEN 1 ELSE c + 1
    [] tilt = -1 -> IF c > 0 THEN -1 ELSE c - 1
    [] OTHER     -> 0

Fallen(c) == c > 2 \/ c < -2

FallDirection(tilt) == IF tilt = -1 THEN "BACKWARD" ELSE "FORWARD"

IsRequestForWalk(m) == m \in {"WALK", "STAND", "STAND_STRAIGHT"}

NoEngine == [type |-> "NULL", prev_command_ |-> "NONE", standing |-> FALSE]
RS2014Engine == [type |-> "RS2014", prev_command_ |-> "NONE", standing |-> FALSE]

-----------------------------------------------------------------------------
Init ==
  /\ syncWalk = InitWalkRequest
  /\ syncKick = [kick_type_ |-> "NO_KICK", kick_running_ |-> FALSE]
  /\ syncOdo = [displacement |-> 0, fall_direction_ |-> "NONE"]
  /\ syncCmd = "none"
  /\ syncParam = [params |-> NoParams, send_params_ |-> FALSE]
  /\ motWalk = InitWalkRequest
  /\ motKick = syncKick
  /\ motOdo = syncOdo
  /\ motCmd = "none"
  /\ motParam = syncParam
  /\ engine = NoEngine
  /\ kicking = FALSE
  /\ mpc = "receive"
  /\ \E t \in WalkTypes : visWalk = [InitWalkRequest EXCEPT !.walk_type_ = t]
  /\ visKick = syncKick
  /\ visOdo = syncOdo
  /\ visCmd = "none"
  /\ visParam = syncParam
  /\ vpc = "receive"
  /\ is_ok = TRUE
  /\ published = [walk |-> InitWalkRequest, params |-> NoParams]
  /\ stale = [sync |-> FALSE, motion |-> FALSE]
  /\ ledger = [produced |-> 0, consumed |-> 0, cleared |-> 0, repeated |-> 0,
               again |-> 0, held |-> TRUE]

-----------------------------------------------------------------------------
(* The motion process. *)

(* The parameter handshake: send_params_ marks a set motion has not taken yet. *)
ReceivedParams_FlagIgnored(mine, sync) == mine
ReceivedParams(mine, sync) == IF sync.send_params_ THEN sync ELSE mine

(* MotionCore::initWalkEngine, called when the received walk type differs. *)
InitWalkEngine(type) ==
  CASE type = "INVALID" -> engine
    [] type = "RS2014"  -> RS2014Engine
    [] OTHER            -> NoEngine

(* MotionCore::receiveData. *)
MotionReceiveData ==
  /\ mpc = "receive"
  /\ mpc' = "process"
  /\ motKick' = syncKick
  /\ motWalk' = syncWalk
  /\ motCmd' = syncCmd
  /\ motOdo' = syncOdo
  /\ motParam' = ReceivedParams(motParam, syncParam)
  /\ syncParam' = [syncParam EXCEPT !.send_params_ = FALSE]
  /\ engine' = IF motWalk.walk_type_ # syncWalk.walk_type_
               THEN InitWalkEngine(syncWalk.walk_type_)
               ELSE engine
  /\ stale' = [stale EXCEPT !.motion = stale.sync]
  /\ ledger' = [ledger EXCEPT !.again = 0, !.held = TRUE]
  /\ UNCHANGED <<syncWalk, syncKick, syncOdo, syncCmd, kicking, visVars, vpc, is_ok, published>>

(* KickModule::processFrame: a STRAIGHT request starts a kick when none runs; a *)
(* running kick writes the joint commands when it reaches a keyframe, and may    *)
(* end in any frame.                                                             *)
ProcessKick(writes) ==
  \E ends \in BOOLEAN :
    LET runs == kicking \/ motKick.kick_type_ = "STRAIGHT"
    IN /\ ends \/ writes => runs
       /\ kicking' = (runs /\ ~ends)
       /\ motKick' = IF runs THEN [motKick EXCEPT !.kick_running_ = ~ends]
                             ELSE motKick

(* RSWalkModule2014::processFrame: leaving or entering a command that is not a *)
(* walk or a stand resets the generators and clears the odometry; then the     *)
(* generator adds the displacement d of this frame.                            *)
WalkEngineResets(m) ==
  \/ engine.standing
  \/ /\ m.motion_ # engine.prev_command_
     /\ ~m.perform_kick_
     /\ ~IsRequestForWalk(m.motion_) \/ ~IsRequestForWalk(engine.prev_command_)

(* A walk is not carried out, and nothing written, before the gyroscopes are   *)
(* calibrated, unless the robot stands.                                        *)
Uncalibrated(m) == m.motion_ = "WALK" /\ m.speed_ # 0

ProcessWalk(d, writes) ==
  IF engine.type = "NULL"
  THEN d = 0 /\ ~writes /\ UNCHANGED <<engine, motOdo, ledger>>
  ELSE LET reset == WalkEngineResets(motWalk')
           before == IF reset THEN 0 ELSE motOdo.displacement
       IN /\ \/ writes = (reset \/ motWalk'.motion_ # "NONE")
             \/ ~writes /\ ~reset /\ Uncalibrated(motWalk')
          /\ engine' = [engine EXCEPT !.prev_command_ = motWalk'.motion_,
                                      !.standing = FALSE]
          /\ motOdo' = [motOdo EXCEPT !.displacement = before + d]
          /\ ledger' = [ledger EXCEPT
               !.produced = @ + d,
               !.cleared  = IF reset THEN @ + motOdo.displacement - ledger.again ELSE @,
               !.again    = IF reset THEN 0 ELSE @,
               !.held     = @ /\ ~reset]

(* MotionCore::processMotionFrame. *)
ProcessMotionFrame ==
  /\ mpc = "process"
  /\ mpc' = "publish"
  /\ \E needsStand \in GetupStands :
       /\ motWalk' = IF needsStand THEN Stand(motWalk) ELSE motWalk
       /\ stale' = [stale EXCEPT !.motion = @ \/ needsStand]
  /\ \E kickWrites, walkWrites \in BOOLEAN, d \in 0..1 :
       /\ ledger.produced + d <= MaxTravel
       /\ ProcessKick(kickWrites)
       /\ ProcessWalk(d, walkWrites)
       /\ motCmd' = CASE walkWrites -> "walk"
                      [] ~walkWrites /\ kickWrites -> "kick"
                      [] OTHER -> motCmd
  /\ UNCHANGED <<syncVars, motParam, visVars, vpc, is_ok, published>>

(* What MotionCore::publishData makes of the walk request: motion's copy, except *)
(* for the four fields that keep the value vision gave them.                     *)
MergedByMotion_Overwrites(mine, sync) ==
  [mine EXCEPT !.target_point_ = sync.target_point_,
               !.kick_with_left_ = sync.kick_with_left_, !.new_command_ = FALSE]
MergedByMotion_ClearsKick(mine, sync) ==
  [mine EXCEPT !.target_point_ = sync.target_point_, !.motion_ = sync.motion_,
               !.kick_with_left_ = sync.kick_with_left_,
               !.perform_kick_ = FALSE, !.new_command_ = FALSE]
MergedByMotion(mine, sync) ==
  [mine EXCEPT !.target_point_   = sync.target_point_,
               !.kick_with_left_ = sync.kick_with_left_,
               !.motion_         = sync.motion_,
               !.new_command_    = FALSE]

MotionPublishData ==
  /\ mpc = "publish"
  /\ mpc' = "receive"
  /\ syncOdo' = motOdo
  /\ syncKick' = [syncKick EXCEPT !.kick_running_ = motKick.kick_running_]
  /\ syncWalk' = MergedByMotion(motWalk, syncWalk)
  /\ stale' = [stale EXCEPT !.sync = stale.motion]
  /\ ledger' = [ledger EXCEPT !.repeated = @ + ledger.again, !.again = 0]
  /\ UNCHANGED <<syncCmd, syncParam, motVars, visVars, vpc, is_ok, published>>

-----------------------------------------------------------------------------
(* The vision process. *)

(* OdometryBlock::reset; the fall direction is not reset. *)
ResetOdometry_Kept(o) == o
ResetOdometry(o) == [o EXCEPT !.displacement = 0]

(* The joint commands of the last frame are not received back: vision starts  *)
(* every frame with none to send.                                             *)
ClearedCommand_Kept(c) == c
ClearedCommand(c) == "none"

(* VisionCore::receiveData: takes the odometry and resets it, keeps its own walk *)
(* type, and forgets the one-frame requests of the last frame.                   *)
VisionReceiveData ==
  /\ vpc = "receive"
  /\ ledger.consumed + syncOdo.displacement <= MaxConsumed
  /\ vpc' = "behave"
  /\ visOdo' = syncOdo
  /\ syncOdo' = ResetOdometry(syncOdo)
  /\ visKick' = [kick_type_ |-> "NO_KICK", kick_running_ |-> syncKick.kick_running_]
  /\ visWalk' = [syncWalk EXCEPT !.walk_type_ = visWalk.walk_type_,
                                 !.new_command_ = FALSE,
                                 !.perform_kick_ = FALSE]
  /\ visParam' = [visParam EXCEPT !.send_params_ = FALSE]
  /\ visCmd' = ClearedCommand(visCmd)
  /\ ledger' = LET d == syncOdo.displacement IN
               [ledger EXCEPT
                 !.consumed = @ + d,
                 !.again    = IF mpc # "receive" /\ ledger.held THEN @ + d ELSE @,
                 !.cleared  = IF mpc # "receive" /\ ~ledger.held THEN @ - d ELSE @]
  /\ UNCHANGED <<syncWalk, syncKick, syncCmd, syncParam, motVars, mpc, is_ok, published, stale>>

(* pose.Sit.__init__, when the frame creates a Sit: it gives up vision's walk    *)
(* request and clears vision's copy of kick_running_.                            *)
SitWalk(w, sits) == IF sits THEN NoWalk(w) ELSE w
SitKick(k, sits) == [k EXCEPT !.kick_running_ = @ /\ ~sits]

(* primary_bvr.processFrame and util.checkFallen: a new state creates its task;  *)
(* then a robot that has been tilted for more than two frames gives up its       *)
(* requests, and any other runs its task.                                        *)
Behave(tilt, playing, sits) ==
  LET counter == FallCounter(visWalk.tilt_fallen_counter_, tilt)
      counted == [SitWalk(visWalk, sits) EXCEPT !.tilt_fallen_counter_ = counter]
      mine == SitKick(visKick, sits)
  IN /\ -MaxFallen <= counter /\ counter <= MaxFallen
     /\ IF Fallen(counter) /\ playing
        THEN /\ visOdo' = [visOdo EXCEPT !.fall_direction_ = FallDirection(tilt)]
             /\ visWalk' = NoWalk(counted)
             /\ visKick' = [mine EXCEPT !.kick_type_ = "ABORT"]
             /\ UNCHANGED <<visCmd, visParam>>
        ELSE /\ visOdo' = [visOdo EXCEPT !.fall_direction_ = "NONE"]
             /\ \/ /\ visWalk' \in Requests(counted)
                   /\ \E k \in KickCommands \cup {"NO_KICK"} :
                        visKick' = [mine EXCEPT !.kick_type_ = k]
                   /\ UNCHANGED visCmd
                \/ /\ visCmd' \in Poses              \* pose.ToPose
                   /\ visWalk' = NoWalk(counted)
                   /\ visKick' = [mine EXCEPT !.kick_type_ = "NO_KICK"]
             /\ visParam' \in {visParam} \cup
                  [params : ParamSets \ {NoParams}, send_params_ : {TRUE}]

(* init.py processFrame.  An exception inside the behaviour is handled there and *)
(* the frame is still published; one outside it skips publishData.  Both leave   *)
(* is_ok_ FALSE, and from then on only receiveData runs.                         *)
ProcessFrame ==
  /\ vpc = "behave" /\ is_ok
  /\ \E tilt \in Tilts, playing, sits \in BOOLEAN : Behave(tilt, playing, sits)
  /\ \/ vpc' = "publish" /\ is_ok' \in BOOLEAN
     \/ vpc' = "receive" /\ is_ok' = FALSE
  /\ UNCHANGED <<syncVars, motVars, mpc, history>>

SkipFrame ==
  /\ vpc = "behave" /\ ~is_ok
  /\ vpc' = "receive"
  /\ UNCHANGED <<syncVars, motVars, mpc, visVars, is_ok, history>>

(* PythonModule::restart, requested by the tool: readConfig sets the walk type   *)
(* again, and init() may fail.                                                   *)
RestartPython ==
  /\ vpc = "behave"
  /\ is_ok' \in BOOLEAN
  /\ \E t \in WalkTypes : visWalk' = [visWalk EXCEPT !.walk_type_ = t]
  /\ UNCHANGED <<syncVars, motVars, mpc, visKick, visOdo, visCmd, visParam, vpc, history>>

(* VisionCore::publishData: the status fields of the kick request are motion's. *)
KickByVision_Overwrites(mine, sync) == mine
KickByVision(mine, sync) == [mine EXCEPT !.kick_running_ = sync.kick_running_]

VisionPublishData ==
  /\ vpc = "publish"
  /\ vpc' = "receive"
  /\ syncWalk' = visWalk
  /\ syncKick' = KickByVision(visKick, syncKick)
  /\ syncOdo' = [syncOdo EXCEPT !.fall_direction_ = visOdo.fall_direction_]
  /\ syncCmd' = visCmd
  /\ syncParam' = IF visParam.send_params_ THEN visParam ELSE syncParam
  /\ published' = [walk |-> visWalk,
                   params |-> IF visParam.send_params_ THEN visParam.params
                                                       ELSE published.params]
  /\ stale' = [sync |-> FALSE, motion |-> mpc # "receive"]
  /\ UNCHANGED <<motVars, mpc, visVars, is_ok, ledger>>

-----------------------------------------------------------------------------
Motion == MotionReceiveData \/ ProcessMotionFrame \/ MotionPublishData
Vision == VisionReceiveData \/ ProcessFrame \/ SkipFrame \/ RestartPython
            \/ VisionPublishData

Next == Motion \/ Vision

Spec == Init /\ [][Next]_vars

-----------------------------------------------------------------------------
(* Properties. *)

(* The type invariant. *)
TypeOK ==
  /\ syncWalk \in WalkRequest /\ motWalk \in WalkRequest /\ visWalk \in WalkRequest
  /\ syncKick \in KickRequest /\ motKick \in KickRequest /\ visKick \in KickRequest
  /\ syncOdo \in OdometryBlock /\ motOdo \in OdometryBlock /\ visOdo \in OdometryBlock
  /\ syncCmd \in BodyCommands /\ motCmd \in BodyCommands /\ visCmd \in BodyCommands
  /\ syncParam \in ParamBlock /\ motParam \in ParamBlock /\ visParam \in ParamBlock
  /\ engine \in Engine
  /\ kicking \in BOOLEAN /\ is_ok \in BOOLEAN
  /\ mpc \in {"receive", "process", "publish"}
  /\ vpc \in {"receive", "behave", "publish"}
  /\ published \in [walk : WalkRequest, params : ParamSets]
  /\ stale \in [sync : BOOLEAN, motion : BOOLEAN]
  /\ ledger \in Ledger

(* The motion, the target and the kicking foot in shared memory are always the  *)
(* ones of vision's last publication, however motion's whole-block copy in      *)
(* MotionCore::publishData falls among vision's steps ("motion should never set *)
(* foot for behavior", MotionCore.cpp:466).                                     *)
VisionOwnsRequest ==
  /\ syncWalk.motion_ = published.walk.motion_
  /\ syncWalk.target_point_ = published.walk.target_point_
  /\ syncWalk.kick_with_left_ = published.walk.kick_with_left_

(* kick_running_ in shared memory tells whether motion's kick runs, although    *)
(* VisionCore::publishData rewrites the whole kick request and pose.Sit clears  *)
(* vision's copy of the flag.                                                   *)
KickStatusTruthful ==
  /\ mpc # "publish" => syncKick.kick_running_ = kicking
  /\ mpc = "publish" => motKick.kick_running_ = kicking

(* Every displacement the walk engine produced is accounted for: vision has     *)
(* consumed it, it is pending, the generators' reset threw it away before       *)
(* vision saw it, or motion published it again after vision had taken it.       *)
Pending == IF mpc = "receive" THEN syncOdo.displacement ELSE motOdo.displacement

OdometryConserved ==
  /\ ledger.consumed + Pending =
       ledger.produced - ledger.cleared + ledger.repeated + ledger.again
  /\ ledger.cleared >= 0

(* A parameter set vision has sent is in motion's hands or still flagged: it    *)
(* cannot be dropped between VisionCore::publishData and MotionCore::receiveData.*)
ParamsNeverLost ==
  /\ syncParam.params = published.params
  /\ syncParam.send_params_ \/ motParam.params = published.params

(* The loaded walk engine is the one of motion's walk type; only an invalid     *)
(* type leaves the engine of an earlier one in place.                           *)
EngineMatchesType ==
  motWalk.walk_type_ # "INVALID" =>
    engine.type = IF motWalk.walk_type_ = "RS2014" THEN "RS2014" ELSE "NULL"

(* Unless vision published inside motion's window, or a getup made motion       *)
(* stand, the whole walk request in shared memory is vision's last publication  *)
(* (all but the consumed new_command_), fall counter and speed included.        *)
SameRequest(w1, w2) ==
  [w1 EXCEPT !.new_command_ = FALSE] = [w2 EXCEPT !.new_command_ = FALSE]

SyncCurrentUnlessRaced == ~stale.sync => SameRequest(syncWalk, published.walk)

(* A pose reaches motion only together with the noWalk it was requested with,   *)
(* so that the walk engine does not drive the legs against it.                  *)
PoseComesWithNoWalk ==
  mpc = "process" /\ motCmd = "pose" => motWalk.motion_ = "NONE"

(* The strengthenings that make the invariants above inductive. *)
KickStatusInv ==
  /\ mpc # "publish" => syncKick.kick_running_ = kicking
  /\ mpc # "receive" => motKick.kick_running_ = kicking

OdometryInv ==
  /\ OdometryConserved
  /\ mpc = "receive" => ledger.again = 0
  /\ mpc = "process" => ledger.held
  /\ mpc # "receive" /\ ledger.held =>
       ledger.again + syncOdo.displacement <= motOdo.displacement
  /\ mpc # "receive" /\ ~ledger.held =>
       ledger.again = 0 /\ syncOdo.displacement <= ledger.cleared

CurrentInv ==
  /\ VisionOwnsRequest
  /\ SyncCurrentUnlessRaced
  /\ mpc # "receive" /\ ~stale.motion => SameRequest(motWalk, published.walk)

PoseInv ==
  /\ PoseComesWithNoWalk
  /\ syncCmd = "pose" => syncWalk.motion_ = "NONE"
  /\ vpc = "behave" => visCmd = "none"
  /\ vpc = "publish" /\ visCmd = "pose" => visWalk.motion_ = "NONE"
=============================================================================
