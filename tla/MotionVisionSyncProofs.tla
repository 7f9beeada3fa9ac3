----------------------- MODULE MotionVisionSyncProofs -----------------------
(***************************************************************************)
(* Proofs of the invariants of MotionVisionSync, for every value of its    *)
(* constants.                                                              *)
(***************************************************************************)
EXTENDS MotionVisionSync, TLAPS

USE PosturesAssumption, TargetsAssumption, FeetAssumption, TiltsAssumption,
    WalkTypesAssumption, PosesAssumption, KickCommandsAssumption,
    ParamsAssumption, GetupAssumption

(* Every request the blocks' operations build is a walk request again.     *)
LEMMA SetRequestType ==
  ASSUME NEW w \in WalkRequest, NEW m \in Motions, NEW v \in AllSpeeds
  PROVE  SetRequest(w, m, v) \in WalkRequest
BY DEF SetRequest, WalkRequest

LEMMA RequestsType ==
  ASSUME NEW w \in WalkRequest, NEW r \in Requests(w)
  PROVE  r \in WalkRequest
<1>1. CASE r = w
  BY <1>1
<1>2. CASE \E m \in Postures : r = SetRequest(w, m, 0)
  BY <1>2, SetRequestType DEF Motions, AllSpeeds
<1>3. CASE \E v \in Speeds : r = SetWalk(w, v)
  BY <1>3, SetRequestType DEF Motions, AllSpeeds, SetWalk
<1>4. CASE \E left \in Feet : r = SetKick(w, left)
  <2>1. PICK left \in Feet : r = SetKick(w, left)
    BY <1>4
  <2>2. left \in BOOLEAN
    BY FeetAssumption
  <2> QED
    BY <2>1, <2>2 DEF SetKick, WalkRequest, Motions
<1>5. CASE \E p \in Targets \ {NoTarget} : r = SetWalkTarget(w, p)
  <2>1. PICK p \in Targets : r = SetWalkTarget(w, p)
    BY <1>5, Zenon
  <2>2. "WALK" \in Motions
    BY DEF Motions
  <2> QED
    BY <2>1, <2>2 DEF SetWalkTarget, WalkRequest
<1> QED
  BY <1>1, <1>2, <1>3, <1>4, <1>5 DEF Requests

LEMMA FallCounterType ==
  ASSUME NEW c \in Int, NEW tilt \in Tilts
  PROVE  FallCounter(c, tilt) \in Int
BY DEF FallCounter

-----------------------------------------------------------------------------
(* Type correctness. *)

LEMMA InitTypeOK == Init => TypeOK
<1> SUFFICES ASSUME Init PROVE TypeOK
  OBVIOUS
<1>1. InitWalkRequest \in WalkRequest
  BY DEF InitWalkRequest, WalkRequest, Motions, AllSpeeds
<1>2. visWalk \in WalkRequest
  <2>1. PICK t \in WalkTypes : visWalk = [InitWalkRequest EXCEPT !.walk_type_ = t]
    BY DEF Init
  <2> QED
    BY <1>1, <2>1 DEF WalkRequest
<1>3. syncKick \in KickRequest /\ syncOdo \in OdometryBlock /\ syncParam \in ParamBlock
  BY DEF Init, KickRequest, KickTypes, OdometryBlock, FallDirs, ParamBlock
<1>4. engine \in Engine /\ ledger \in Ledger
  BY DEF Init, NoEngine, Engine, Motions, Ledger
<1>5. stale \in [sync : BOOLEAN, motion : BOOLEAN] /\ published \in [walk : WalkRequest, params : ParamSets]
  BY <1>1 DEF Init
<1> QED
  BY <1>1, <1>2, <1>3, <1>4, <1>5 DEF Init, TypeOK, BodyCommands

LEMMA MotionReceiveTypeOK == TypeOK /\ MotionReceiveData => TypeOK'
<1> SUFFICES ASSUME TypeOK, MotionReceiveData PROVE TypeOK'
  OBVIOUS
<1>1. motParam' \in ParamBlock /\ syncParam' \in ParamBlock
  BY DEF MotionReceiveData, ReceivedParams, TypeOK, ParamBlock
<1>2. engine' \in Engine
  BY DEF MotionReceiveData, InitWalkEngine, NoEngine, RS2014Engine, TypeOK, Engine, Motions
<1>3. stale' \in [sync : BOOLEAN, motion : BOOLEAN]
  BY DEF MotionReceiveData, TypeOK
<1>4. ledger' \in Ledger
  BY DEF MotionReceiveData, TypeOK, Ledger
<1> QED
  BY <1>1, <1>2, <1>3, <1>4 DEF MotionReceiveData, visVars, TypeOK

(* A frame of KickModule and of the walk engine.                           *)
LEMMA ProcessKickType ==
  ASSUME motKick \in KickRequest, NEW writes \in BOOLEAN, ProcessKick(writes)
  PROVE  kicking' \in BOOLEAN /\ motKick' \in KickRequest
<1>1. PICK ends \in BOOLEAN :
        /\ kicking' = ((kicking \/ motKick.kick_type_ = "STRAIGHT") /\ ~ends)
        /\ motKick' = IF kicking \/ motKick.kick_type_ = "STRAIGHT"
                      THEN [motKick EXCEPT !.kick_running_ = ~ends] ELSE motKick
  BY DEF ProcessKick
<1>2. kicking' \in BOOLEAN
  BY <1>1
<1>3. (~ends) \in BOOLEAN
  OBVIOUS
<1>4. [motKick EXCEPT !.kick_running_ = ~ends] \in KickRequest
  BY <1>3 DEF KickRequest
<1> QED
  BY <1>1, <1>2, <1>4

LEMMA ProcessWalkType ==
  ASSUME engine \in Engine, motOdo \in OdometryBlock, ledger \in Ledger,
         motWalk' \in WalkRequest,
         NEW writes \in BOOLEAN, NEW d \in 0..1, ProcessWalk(d, writes)
  PROVE  engine' \in Engine /\ motOdo' \in OdometryBlock /\ ledger' \in Ledger
<1>1. CASE engine.type = "NULL"
  BY <1>1 DEF ProcessWalk
<1>2. CASE engine.type # "NULL"
  <2> DEFINE reset == WalkEngineResets(motWalk')
             before == IF reset THEN 0 ELSE motOdo.displacement
             cleared == IF reset THEN ledger.cleared + motOdo.displacement - ledger.again
                                 ELSE ledger.cleared
             again == IF reset THEN 0 ELSE ledger.again
             held == ledger.held /\ ~reset
  <2>1. /\ engine' = [engine EXCEPT !.prev_command_ = motWalk'.motion_, !.standing = FALSE]
        /\ motOdo' = [motOdo EXCEPT !.displacement = before + d]
        /\ ledger' = [ledger EXCEPT !.produced = ledger.produced + d, !.cleared = cleared,
                                    !.again = again, !.held = held]
    BY <1>2 DEF ProcessWalk
  <2>2. before + d \in Nat /\ ledger.produced + d \in Nat
    BY DEF OdometryBlock, Ledger
  <2>3. cleared \in Int /\ again \in Nat
    BY DEF OdometryBlock, Ledger
  <2>4. held \in BOOLEAN
    OBVIOUS
  <2>5. motWalk'.motion_ \in Motions
    BY DEF WalkRequest
  <2> HIDE DEF before, cleared, again, held
  <2>6. engine' \in Engine
    BY <2>1, <2>5 DEF Engine
  <2>7. motOdo' \in OdometryBlock
    BY <2>1, <2>2 DEF OdometryBlock
  <2>8. ledger' \in Ledger
    BY <2>1, <2>2, <2>3, <2>4 DEF Ledger
  <2> QED
    BY <2>6, <2>7, <2>8
<1> QED
  BY <1>1, <1>2

LEMMA ProcessMotionTypeOK == TypeOK /\ ProcessMotionFrame => TypeOK'
<1> SUFFICES ASSUME TypeOK, ProcessMotionFrame PROVE TypeOK'
  OBVIOUS
<1>1. PICK needsStand \in GetupStands :
        /\ motWalk' = IF needsStand THEN Stand(motWalk) ELSE motWalk
        /\ stale' = [stale EXCEPT !.motion = @ \/ needsStand]
  BY DEF ProcessMotionFrame
<1>2. PICK kickWrites \in BOOLEAN, walkWrites \in BOOLEAN, d \in 0..1 :
        /\ ProcessKick(kickWrites)
        /\ ProcessWalk(d, walkWrites)
        /\ motCmd' = CASE walkWrites -> "walk"
                       [] ~walkWrites /\ kickWrites -> "kick"
                       [] OTHER -> motCmd
  BY DEF ProcessMotionFrame
<1>3. motWalk' \in WalkRequest
  BY <1>1, SetRequestType DEF TypeOK, Stand, Motions, AllSpeeds
<1>4. stale' \in [sync : BOOLEAN, motion : BOOLEAN]
  BY <1>1 DEF TypeOK
<1>5. kicking' \in BOOLEAN /\ motKick' \in KickRequest
  BY <1>2, ProcessKickType DEF TypeOK
<1>6. motCmd' \in BodyCommands
  BY <1>2 DEF TypeOK, BodyCommands
<1>7. engine' \in Engine /\ motOdo' \in OdometryBlock /\ ledger' \in Ledger
  BY <1>2, <1>3, ProcessWalkType DEF TypeOK
<1> QED
  BY <1>3, <1>4, <1>5, <1>6, <1>7 DEF ProcessMotionFrame, syncVars, visVars, TypeOK

LEMMA MotionPublishTypeOK == TypeOK /\ MotionPublishData => TypeOK'
<1> SUFFICES ASSUME TypeOK, MotionPublishData PROVE TypeOK'
  OBVIOUS
<1>1. syncWalk' \in WalkRequest
  BY DEF MotionPublishData, MergedByMotion, TypeOK, WalkRequest
<1>2. syncKick' \in KickRequest
  BY DEF MotionPublishData, TypeOK, KickRequest
<1>3. stale' \in [sync : BOOLEAN, motion : BOOLEAN]
  BY DEF MotionPublishData, TypeOK
<1>4. ledger' \in Ledger
  <2>1. ledger.repeated + ledger.again \in Nat
    BY DEF TypeOK, Ledger
  <2>2. ledger' = [ledger EXCEPT !.repeated = ledger.repeated + ledger.again, !.again = 0]
    BY DEF MotionPublishData
  <2> QED
    BY <2>1, <2>2 DEF TypeOK, Ledger
<1> QED
  BY <1>1, <1>2, <1>3, <1>4 DEF MotionPublishData, motVars, visVars, TypeOK

LEMMA VisionReceiveTypeOK == TypeOK /\ VisionReceiveData => TypeOK'
<1> SUFFICES ASSUME TypeOK, VisionReceiveData PROVE TypeOK'
  OBVIOUS
<1>1. visWalk' \in WalkRequest
  BY DEF VisionReceiveData, TypeOK, WalkRequest
<1>2. visKick' \in KickRequest
  BY DEF VisionReceiveData, TypeOK, KickRequest, KickTypes
<1>3. syncOdo' \in OdometryBlock /\ visParam' \in ParamBlock
  BY DEF VisionReceiveData, ResetOdometry, TypeOK, OdometryBlock, ParamBlock
<1>4. ledger' \in Ledger
  <2> DEFINE d == syncOdo.displacement
             again == IF mpc # "receive" /\ ledger.held THEN ledger.again + d ELSE ledger.again
             cleared == IF mpc # "receive" /\ ~ledger.held THEN ledger.cleared - d
                                                           ELSE ledger.cleared
  <2>1. ledger.consumed + d \in Nat /\ again \in Nat /\ cleared \in Int
    BY DEF TypeOK, Ledger, OdometryBlock
  <2>2. ledger' = [ledger EXCEPT !.consumed = ledger.consumed + d,
                                 !.again = again, !.cleared = cleared]
    BY DEF VisionReceiveData
  <2> HIDE DEF d, again, cleared
  <2> QED
    BY <2>1, <2>2 DEF TypeOK, Ledger
<1> QED
  BY <1>1, <1>2, <1>3, <1>4
  DEF VisionReceiveData, ClearedCommand, motVars, TypeOK, BodyCommands

LEMMA BehaveType ==
  ASSUME TypeOK, NEW tilt \in Tilts, NEW playing \in BOOLEAN, NEW sits \in BOOLEAN,
         Behave(tilt, playing, sits)
  PROVE  /\ visWalk' \in WalkRequest
         /\ visKick' \in KickRequest
         /\ visOdo' \in OdometryBlock
         /\ visCmd' \in BodyCommands
         /\ visParam' \in ParamBlock
<1> DEFINE counter == FallCounter(visWalk.tilt_fallen_counter_, tilt)
           counted == [SitWalk(visWalk, sits) EXCEPT !.tilt_fallen_counter_ = counter]
           mine == SitKick(visKick, sits)
<1>1. counter \in Int
  BY FallCounterType DEF TypeOK, WalkRequest
<1> HIDE DEF counter
<1>2. counted \in WalkRequest
  <2>1. SitWalk(visWalk, sits) \in WalkRequest
    BY SetRequestType DEF SitWalk, NoWalk, Motions, AllSpeeds, TypeOK
  <2> QED
    BY <1>1, <2>1 DEF WalkRequest
<1>3. NoWalk(counted) \in WalkRequest
  BY <1>2, SetRequestType DEF NoWalk, Motions, AllSpeeds
<1>4. \A k \in KickTypes : [mine EXCEPT !.kick_type_ = k] \in KickRequest
  BY DEF SitKick, TypeOK, KickRequest
<1>5. \A f \in FallDirs : [visOdo EXCEPT !.fall_direction_ = f] \in OdometryBlock
  BY DEF TypeOK, OdometryBlock
<1>6. CASE Fallen(counter) /\ playing
  <2>1. /\ visOdo' = [visOdo EXCEPT !.fall_direction_ = FallDirection(tilt)]
        /\ visWalk' = NoWalk(counted)
        /\ visKick' = [mine EXCEPT !.kick_type_ = "ABORT"]
        /\ UNCHANGED <<visCmd, visParam>>
    BY <1>6 DEF Behave, counter
  <2>2. FallDirection(tilt) \in FallDirs /\ "ABORT" \in KickTypes
    BY DEF FallDirection, FallDirs, KickTypes
  <2> QED
    BY <1>3, <1>4, <1>5, <2>1, <2>2 DEF TypeOK
<1>7. CASE ~(Fallen(counter) /\ playing)
  <2>1. visOdo' = [visOdo EXCEPT !.fall_direction_ = "NONE"]
    BY <1>7 DEF Behave, counter
  <2>2. visParam' \in {visParam} \cup [params : ParamSets \ {NoParams}, send_params_ : {TRUE}]
    BY <1>7 DEF Behave, counter
  <2>3. \/ /\ visWalk' \in Requests(counted)
           /\ \E k \in KickCommands \cup {"NO_KICK"} :
                visKick' = [mine EXCEPT !.kick_type_ = k]
           /\ UNCHANGED visCmd
        \/ /\ visCmd' \in Poses
           /\ visWalk' = NoWalk(counted)
           /\ visKick' = [mine EXCEPT !.kick_type_ = "NO_KICK"]
    BY <1>7 DEF Behave, counter
  <2>4. visParam' \in ParamBlock
    BY <2>2 DEF TypeOK, ParamBlock
  <2>5. visOdo' \in OdometryBlock
    BY <1>5, <2>1 DEF FallDirs
  <2>6. visWalk' \in WalkRequest
    BY <1>2, <1>3, <2>3, RequestsType
  <2>7. visKick' \in KickRequest
    BY <1>4, <2>3 DEF KickTypes
  <2>8. visCmd' \in BodyCommands
    BY <2>3 DEF TypeOK, BodyCommands
  <2> QED
    BY <2>4, <2>5, <2>6, <2>7, <2>8
<1> QED
  BY <1>6, <1>7

LEMMA VisionTypeOK == TypeOK /\ Vision => TypeOK'
<1> SUFFICES ASSUME TypeOK, Vision PROVE TypeOK'
  OBVIOUS
<1>1. CASE VisionReceiveData
  BY <1>1, VisionReceiveTypeOK
<1>2. CASE ProcessFrame
  <2>1. PICK tilt \in Tilts, playing \in BOOLEAN, sits \in BOOLEAN :
          Behave(tilt, playing, sits)
    BY <1>2 DEF ProcessFrame
  <2>2. vpc' \in {"receive", "behave", "publish"} /\ is_ok' \in BOOLEAN
    BY <1>2 DEF ProcessFrame
  <2> QED
    BY <1>2, <2>1, <2>2, BehaveType DEF ProcessFrame, syncVars, motVars, history, TypeOK
<1>3. CASE SkipFrame
  BY <1>3 DEF SkipFrame, syncVars, motVars, visVars, history, TypeOK
<1>4. CASE RestartPython
  <2>1. PICK t \in WalkTypes : visWalk' = [visWalk EXCEPT !.walk_type_ = t]
    BY <1>4 DEF RestartPython
  <2>2. visWalk' \in WalkRequest
    BY <2>1 DEF TypeOK, WalkRequest
  <2> QED
    BY <1>4, <2>2 DEF RestartPython, syncVars, motVars, history, TypeOK
<1>5. CASE VisionPublishData
  <2>1. syncKick' \in KickRequest /\ syncOdo' \in OdometryBlock
    BY <1>5 DEF VisionPublishData, KickByVision, TypeOK, KickRequest, OdometryBlock
  <2>2. published' \in [walk : WalkRequest, params : ParamSets]
    BY <1>5 DEF VisionPublishData, TypeOK, ParamBlock
  <2>3. stale' \in [sync : BOOLEAN, motion : BOOLEAN]
    BY <1>5 DEF VisionPublishData
  <2> QED
    BY <1>5, <2>1, <2>2, <2>3 DEF VisionPublishData, motVars, visVars, TypeOK
<1> QED
  BY <1>1, <1>2, <1>3, <1>4, <1>5 DEF Vision

LEMMA NextTypeOK == TypeOK /\ [Next]_vars => TypeOK'
<1> SUFFICES ASSUME TypeOK, [Next]_vars PROVE TypeOK'
  OBVIOUS
<1>1. CASE Motion
  BY <1>1, MotionReceiveTypeOK, ProcessMotionTypeOK, MotionPublishTypeOK DEF Motion
<1>2. CASE Vision
  BY <1>2, VisionTypeOK
<1>3. CASE UNCHANGED vars
  BY <1>3 DEF vars, syncVars, motVars, visVars, history, TypeOK
<1> QED
  BY <1>1, <1>2, <1>3 DEF Next

(* Every variable keeps its type, whatever the interleaving of the two     *)
(* processes.                                                              *)
THEOREM TypeCorrect == Spec => []TypeOK
<1>1. Init => TypeOK
  BY InitTypeOK
<1>2. TypeOK /\ [Next]_vars => TypeOK'
  BY NextTypeOK
<1> QED
  BY <1>1, <1>2, PTL DEF Spec

-----------------------------------------------------------------------------
(* The walk request in shared memory.                                      *)

(* What the getup's stand and the two write-backs do to the request.       *)
LEMMA SameRequestFields ==
  ASSUME NEW w1 \in WalkRequest, NEW w2 \in WalkRequest
  PROVE  SameRequest(w1, w2) <=>
           /\ w1.motion_ = w2.motion_ /\ w1.speed_ = w2.speed_
           /\ w1.target_point_ = w2.target_point_
           /\ w1.kick_with_left_ = w2.kick_with_left_
           /\ w1.perform_kick_ = w2.perform_kick_
           /\ w1.walk_type_ = w2.walk_type_
           /\ w1.tilt_fallen_counter_ = w2.tilt_fallen_counter_
BY ZenonT(60) DEF SameRequest, WalkRequest

LEMMA NextCurrent == TypeOK /\ CurrentInv /\ [Next]_vars => CurrentInv'
<1> SUFFICES ASSUME TypeOK, CurrentInv, [Next]_vars PROVE CurrentInv'
  OBVIOUS
<1> USE DEF CurrentInv, VisionOwnsRequest, SyncCurrentUnlessRaced
<1>1. CASE MotionReceiveData
  BY <1>1 DEF MotionReceiveData, TypeOK
<1>2. CASE ProcessMotionFrame
  <2>1. PICK needsStand \in GetupStands :
          /\ motWalk' = IF needsStand THEN Stand(motWalk) ELSE motWalk
          /\ stale' = [stale EXCEPT !.motion = @ \/ needsStand]
    BY <1>2 DEF ProcessMotionFrame
  <2>2. UNCHANGED <<syncWalk, published>> /\ mpc = "process"
    BY <1>2 DEF ProcessMotionFrame, syncVars
  <2>3. ~stale.motion' => ~stale.motion /\ motWalk' = motWalk
    BY <2>1 DEF TypeOK
  <2>4. stale.sync' = stale.sync
    BY <2>1 DEF TypeOK
  <2> QED
    BY <2>2, <2>3, <2>4
<1>3. CASE MotionPublishData
  <2>1. /\ syncWalk' = MergedByMotion(motWalk, syncWalk)
        /\ stale' = [stale EXCEPT !.sync = stale.motion]
        /\ UNCHANGED <<published, motWalk>> /\ mpc = "publish" /\ mpc' = "receive"
    BY <1>3 DEF MotionPublishData, motVars
  <2>2. VisionOwnsRequest'
    BY <2>1 DEF MergedByMotion, TypeOK, WalkRequest
  <2>3. ASSUME ~stale.motion PROVE SameRequest(syncWalk', published.walk)
    <3>1. SameRequest(motWalk, published.walk)
      BY <2>1, <2>3
    <3>2. syncWalk' \in WalkRequest
      BY <2>1 DEF MergedByMotion, TypeOK, WalkRequest
    <3>3. /\ syncWalk'.motion_ = published.walk.motion_
          /\ syncWalk'.target_point_ = published.walk.target_point_
          /\ syncWalk'.kick_with_left_ = published.walk.kick_with_left_
      BY <2>1, <2>2
    <3>4. /\ syncWalk'.speed_ = motWalk.speed_
          /\ syncWalk'.perform_kick_ = motWalk.perform_kick_
          /\ syncWalk'.walk_type_ = motWalk.walk_type_
          /\ syncWalk'.tilt_fallen_counter_ = motWalk.tilt_fallen_counter_
      BY <2>1 DEF MergedByMotion, TypeOK, WalkRequest
    <3> QED
      BY <3>1, <3>2, <3>3, <3>4, SameRequestFields DEF TypeOK
  <2>4. stale.sync' = stale.motion
    BY <2>1 DEF TypeOK
  <2> QED
    BY <2>1, <2>2, <2>3, <2>4
<1>4. CASE VisionPublishData
  <2>1. /\ syncWalk' = visWalk /\ published.walk' = visWalk
        /\ stale.motion' = (mpc # "receive") /\ mpc' = mpc
    BY <1>4 DEF VisionPublishData
  <2>2. SameRequest(visWalk, visWalk)
    BY DEF SameRequest
  <2> QED
    BY <2>1, <2>2
<1>5. CASE UNCHANGED <<syncWalk, published, stale, motWalk, mpc>>
  BY <1>5 DEF SameRequest
<1> QED
  BY <1>1, <1>2, <1>3, <1>4, <1>5
  DEF Next, Motion, Vision, VisionReceiveData, ProcessFrame, SkipFrame, RestartPython,
      vars, syncVars, motVars, history

LEMMA CurrentInvariant == Spec => []CurrentInv
<1>1. Init => CurrentInv
  BY DEF Init, CurrentInv, VisionOwnsRequest, SyncCurrentUnlessRaced, SameRequest
<1> QED
  BY <1>1, TypeCorrect, NextCurrent, PTL DEF Spec

(* However motion's write-back of the whole walk request falls among       *)
(* vision's steps, motion, target and kicking foot stay vision's.          *)
THEOREM RequestOwnership == Spec => []VisionOwnsRequest
<1>1. CurrentInv => VisionOwnsRequest
  BY DEF CurrentInv
<1> QED
  BY <1>1, CurrentInvariant, PTL

(* And so does the rest of the request, the fields publishData does not    *)
(* save and restore, unless vision published inside motion's window or a   *)
(* getup asked for a stand.                                                *)
THEOREM RequestCurrent == Spec => []SyncCurrentUnlessRaced
<1>1. CurrentInv => SyncCurrentUnlessRaced
  BY DEF CurrentInv
<1> QED
  BY <1>1, CurrentInvariant, PTL

-----------------------------------------------------------------------------
(* The kick status.                                                        *)

LEMMA NextKickStatus == TypeOK /\ KickStatusInv /\ [Next]_vars => KickStatusInv'
<1> SUFFICES ASSUME TypeOK, KickStatusInv, [Next]_vars PROVE KickStatusInv'
  OBVIOUS
<1> USE DEF KickStatusInv
<1>1. CASE MotionReceiveData
  BY <1>1 DEF MotionReceiveData
<1>2. CASE ProcessMotionFrame
  <2>1. mpc = "process" /\ mpc' = "publish"
    BY <1>2 DEF ProcessMotionFrame
  <2>2. PICK writes \in BOOLEAN : ProcessKick(writes)
    BY <1>2 DEF ProcessMotionFrame
  <2>3. PICK ends \in BOOLEAN :
          /\ ends \/ writes => kicking \/ motKick.kick_type_ = "STRAIGHT"
          /\ kicking' = ((kicking \/ motKick.kick_type_ = "STRAIGHT") /\ ~ends)
          /\ motKick' = IF kicking \/ motKick.kick_type_ = "STRAIGHT"
                        THEN [motKick EXCEPT !.kick_running_ = ~ends] ELSE motKick
    BY <2>2 DEF ProcessKick
  <2>4. CASE kicking \/ motKick.kick_type_ = "STRAIGHT"
    <3>1. kicking' = ~ends
      BY <2>3, <2>4
    <3>2. motKick.kick_running_' = ~ends
      BY <2>3, <2>4 DEF TypeOK, KickRequest
    <3> QED
      BY <2>1, <3>1, <3>2
  <2>5. CASE ~(kicking \/ motKick.kick_type_ = "STRAIGHT")
    <3>1. kicking' = FALSE
      BY <2>3, <2>5
    <3>2. kicking = FALSE
      BY <2>5 DEF TypeOK
    <3>3. motKick' = motKick /\ motKick.kick_running_ = kicking
      BY <2>1, <2>3, <2>5
    <3> QED
      BY <2>1, <3>1, <3>2, <3>3, Zenon
  <2> QED
    BY <2>4, <2>5
<1>3. CASE MotionPublishData
  BY <1>3 DEF MotionPublishData, motVars, TypeOK, KickRequest
<1>4. CASE VisionPublishData
  BY <1>4 DEF VisionPublishData, KickByVision, motVars, TypeOK, KickRequest
<1>5. CASE UNCHANGED <<syncKick, motKick, kicking, mpc>>
  BY <1>5
<1> QED
  BY <1>1, <1>2, <1>3, <1>4, <1>5
  DEF Next, Motion, Vision, VisionReceiveData, ProcessFrame, SkipFrame, RestartPython,
      vars, syncVars, motVars

(* Behaviours waiting for the end of a kick see the truth: kick_running_   *)
(* in shared memory agrees with the kick module outside motion's frame.    *)
THEOREM KickStatus == Spec => []KickStatusTruthful
<1>1. Init => KickStatusInv
  <2> SUFFICES ASSUME Init PROVE KickStatusInv
    OBVIOUS
  <2>1. syncKick.kick_running_ = FALSE /\ kicking = FALSE /\ mpc = "receive"
    BY DEF Init
  <2> QED
    BY <2>1, Zenon DEF KickStatusInv
<1>2. KickStatusInv => KickStatusTruthful
  BY DEF KickStatusInv, KickStatusTruthful
<1> QED
  BY <1>1, <1>2, TypeCorrect, NextKickStatus, PTL DEF Spec

-----------------------------------------------------------------------------
(* The displacement.                                                       *)

LEMMA NextOdometry == TypeOK /\ OdometryInv /\ [Next]_vars => OdometryInv'
<1> SUFFICES ASSUME TypeOK, OdometryInv, [Next]_vars PROVE OdometryInv'
  OBVIOUS
<1> USE DEF OdometryInv, OdometryConserved, Pending
<1>1. /\ syncOdo.displacement \in Nat /\ motOdo.displacement \in Nat
      /\ ledger.produced \in Nat /\ ledger.consumed \in Nat /\ ledger.cleared \in Int
      /\ ledger.repeated \in Nat /\ ledger.again \in Nat
  BY DEF TypeOK, OdometryBlock, Ledger
<1>2. CASE MotionReceiveData
  <2>1. /\ mpc = "receive" /\ mpc' = "process"
        /\ motOdo' = syncOdo /\ syncOdo' = syncOdo
        /\ ledger' = [ledger EXCEPT !.again = 0, !.held = TRUE]
    BY <1>2 DEF MotionReceiveData
  <2>2. ledger.again' = 0 /\ ledger.held' /\ ledger.produced' = ledger.produced
        /\ ledger.consumed' = ledger.consumed /\ ledger.cleared' = ledger.cleared
        /\ ledger.repeated' = ledger.repeated
    BY <2>1 DEF TypeOK, Ledger
  <2> QED
    BY <1>1, <2>1, <2>2
<1>3. CASE ProcessMotionFrame
  <2>1. /\ mpc = "process" /\ mpc' = "publish" /\ syncOdo' = syncOdo
    BY <1>3 DEF ProcessMotionFrame, syncVars
  <2>2. PICK d \in 0..1, writes \in BOOLEAN : ProcessWalk(d, writes)
    BY <1>3 DEF ProcessMotionFrame
  <2>3. CASE engine.type = "NULL"
    BY <1>1, <2>1, <2>2, <2>3 DEF ProcessWalk
  <2>4. CASE engine.type # "NULL"
    <3> DEFINE reset == WalkEngineResets(motWalk')
    <3>1. /\ motOdo' = [motOdo EXCEPT !.displacement =
                          (IF reset THEN 0 ELSE motOdo.displacement) + d]
          /\ ledger' = [ledger EXCEPT
               !.produced = ledger.produced + d,
               !.cleared = IF reset THEN ledger.cleared + motOdo.displacement - ledger.again
                                    ELSE ledger.cleared,
               !.again = IF reset THEN 0 ELSE ledger.again,
               !.held = ledger.held /\ ~reset]
      BY <2>2, <2>4 DEF ProcessWalk
    <3> HIDE DEF reset
    <3>2. /\ motOdo.displacement' = (IF reset THEN 0 ELSE motOdo.displacement) + d
          /\ ledger.produced' = ledger.produced + d
          /\ ledger.cleared' = IF reset THEN ledger.cleared + motOdo.displacement - ledger.again
                                        ELSE ledger.cleared
          /\ ledger.again' = IF reset THEN 0 ELSE ledger.again
          /\ ledger.consumed' = ledger.consumed /\ ledger.repeated' = ledger.repeated
      BY <3>1 DEF TypeOK, Ledger, OdometryBlock
    <3>3. ledger.held' <=> ledger.held /\ ~reset
      BY <3>1 DEF TypeOK, Ledger
    <3>4. CASE reset
      BY <1>1, <2>1, <3>2, <3>3, <3>4
    <3>5. CASE ~reset
      BY <1>1, <2>1, <3>2, <3>3, <3>5
    <3> QED
      BY <3>4, <3>5
  <2> QED
    BY <2>3, <2>4
<1>4. CASE MotionPublishData
  <2>1. /\ mpc = "publish" /\ mpc' = "receive"
        /\ syncOdo' = motOdo
        /\ ledger' = [ledger EXCEPT !.repeated = ledger.repeated + ledger.again, !.again = 0]
    BY <1>4 DEF MotionPublishData
  <2>2. /\ ledger.again' = 0 /\ ledger.repeated' = ledger.repeated + ledger.again
        /\ ledger.produced' = ledger.produced /\ ledger.consumed' = ledger.consumed
        /\ ledger.cleared' = ledger.cleared
    BY <2>1 DEF TypeOK, Ledger
  <2> QED
    BY <1>1, <2>1, <2>2
<1>5. CASE VisionReceiveData
  <2> DEFINE d == syncOdo.displacement
  <2>1. /\ mpc' = mpc /\ motOdo' = motOdo
        /\ syncOdo' = [syncOdo EXCEPT !.displacement = 0]
        /\ ledger' = [ledger EXCEPT
             !.consumed = ledger.consumed + d,
             !.again = IF mpc # "receive" /\ ledger.held THEN ledger.again + d ELSE ledger.again,
             !.cleared = IF mpc # "receive" /\ ~ledger.held THEN ledger.cleared - d
                                                            ELSE ledger.cleared]
    BY <1>5 DEF VisionReceiveData, ResetOdometry, motVars
  <2>2. /\ ledger.consumed' = ledger.consumed + d
        /\ ledger.again' = IF mpc # "receive" /\ ledger.held THEN ledger.again + d ELSE ledger.again
        /\ ledger.cleared' = IF mpc # "receive" /\ ~ledger.held THEN ledger.cleared - d
                                                                ELSE ledger.cleared
        /\ ledger.produced' = ledger.produced /\ ledger.repeated' = ledger.repeated
        /\ ledger.held' = ledger.held
        /\ syncOdo.displacement' = 0
    BY <2>1 DEF TypeOK, Ledger, OdometryBlock
  <2>3. CASE mpc = "receive"
    BY <1>1, <2>1, <2>2, <2>3
  <2>4. CASE mpc # "receive" /\ ledger.held
    BY <1>1, <2>1, <2>2, <2>4
  <2>5. CASE mpc # "receive" /\ ~ledger.held
    BY <1>1, <2>1, <2>2, <2>5
  <2> QED
    BY <2>3, <2>4, <2>5
<1>6. CASE VisionPublishData
  <2>1. syncOdo.displacement' = syncOdo.displacement
    BY <1>6 DEF VisionPublishData, TypeOK, OdometryBlock
  <2> QED
    BY <1>6, <2>1 DEF VisionPublishData, motVars
<1>7. CASE UNCHANGED <<syncOdo, motOdo, ledger, mpc>>
  BY <1>7
<1> QED
  BY <1>2, <1>3, <1>4, <1>5, <1>6, <1>7
  DEF Next, Motion, Vision, ProcessFrame, SkipFrame, RestartPython,
      vars, syncVars, motVars, history

(* No displacement appears or vanishes: what localization has consumed and *)
(* what is pending is what the walk engine produced, less what a reset of  *)
(* the generators cleared, plus what motion published a second time.       *)
THEOREM Conservation == Spec => []OdometryConserved
<1>1. Init => OdometryInv
  BY DEF Init, OdometryInv, OdometryConserved, Pending
<1>2. OdometryInv => OdometryConserved
  BY DEF OdometryInv
<1> QED
  BY <1>1, <1>2, TypeCorrect, NextOdometry, PTL DEF Spec

-----------------------------------------------------------------------------
(* Parameters, walk engine and poses.                                      *)

LEMMA NextParams == TypeOK /\ ParamsNeverLost /\ [Next]_vars => ParamsNeverLost'
<1> SUFFICES ASSUME TypeOK, ParamsNeverLost, [Next]_vars PROVE ParamsNeverLost'
  OBVIOUS
<1> USE DEF ParamsNeverLost
<1>1. CASE MotionReceiveData
  BY <1>1 DEF MotionReceiveData, ReceivedParams, TypeOK, ParamBlock
<1>2. CASE VisionPublishData
  BY <1>2 DEF VisionPublishData, motVars, TypeOK, ParamBlock
<1>3. CASE UNCHANGED <<syncParam, motParam, published>>
  BY <1>3
<1> QED
  BY <1>1, <1>2, <1>3
  DEF Next, Motion, Vision, ProcessMotionFrame, MotionPublishData, VisionReceiveData,
      ProcessFrame, SkipFrame, RestartPython, vars, syncVars, motVars, history

(* A parameter set a behaviour sends reaches the walk engine: no           *)
(* interleaving of the two processes drops it.                             *)
THEOREM ParamsDelivered == Spec => []ParamsNeverLost
<1>1. Init => ParamsNeverLost
  BY DEF Init, ParamsNeverLost
<1> QED
  BY <1>1, TypeCorrect, NextParams, PTL DEF Spec

LEMMA NextEngine == TypeOK /\ EngineMatchesType /\ [Next]_vars => EngineMatchesType'
<1> SUFFICES ASSUME TypeOK, EngineMatchesType, [Next]_vars PROVE EngineMatchesType'
  OBVIOUS
<1> USE DEF EngineMatchesType
<1>1. CASE MotionReceiveData
  BY <1>1 DEF MotionReceiveData, InitWalkEngine, NoEngine, RS2014Engine, TypeOK, WalkRequest
<1>2. CASE ProcessMotionFrame
  <2>1. motWalk.walk_type_' = motWalk.walk_type_
    BY <1>2 DEF ProcessMotionFrame, Stand, SetRequest, TypeOK, WalkRequest
  <2>2. PICK d \in 0..1, writes \in BOOLEAN : ProcessWalk(d, writes)
    BY <1>2 DEF ProcessMotionFrame
  <2>3. engine.type' = engine.type
    BY <2>2, ZenonT(60) DEF ProcessWalk, TypeOK, Engine
  <2> QED
    BY <2>1, <2>3
<1>3. CASE UNCHANGED <<motWalk, engine>>
  BY <1>3
<1> QED
  BY <1>1, <1>2, <1>3
  DEF Next, Motion, Vision, MotionPublishData, VisionReceiveData, ProcessFrame,
      SkipFrame, RestartPython, VisionPublishData, vars, motVars

(* The walk engine motion runs is the one of the walk type it holds.       *)
THEOREM EngineLoaded == Spec => []EngineMatchesType
<1>1. Init => EngineMatchesType
  BY DEF Init, EngineMatchesType, InitWalkRequest
<1> QED
  BY <1>1, TypeCorrect, NextEngine, PTL DEF Spec

LEMMA NextPose == TypeOK /\ PoseInv /\ [Next]_vars => PoseInv'
<1> SUFFICES ASSUME TypeOK, PoseInv, [Next]_vars PROVE PoseInv'
  OBVIOUS
<1> USE DEF PoseInv, PoseComesWithNoWalk
<1>1. CASE MotionReceiveData
  BY <1>1 DEF MotionReceiveData, visVars
<1>2. CASE ProcessMotionFrame
  BY <1>2 DEF ProcessMotionFrame, syncVars, visVars
<1>3. CASE MotionPublishData
  BY <1>3 DEF MotionPublishData, MergedByMotion, visVars, TypeOK, WalkRequest
<1>4. CASE VisionReceiveData
  BY <1>4 DEF VisionReceiveData, ClearedCommand, motVars
<1>5. CASE ProcessFrame
  <2>1. PICK tilt \in Tilts, playing \in BOOLEAN, sits \in BOOLEAN :
          Behave(tilt, playing, sits)
    BY <1>5 DEF ProcessFrame
  <2>2. visCmd = "none" /\ vpc' # "behave"
    BY <1>5 DEF ProcessFrame
  <2>3. visCmd' = "none" \/ visWalk.motion_' = "NONE"
    <3> DEFINE counted == [SitWalk(visWalk, sits) EXCEPT !.tilt_fallen_counter_ =
                             FallCounter(visWalk.tilt_fallen_counter_, tilt)]
    <3>1. visCmd' = visCmd \/ visWalk' = NoWalk(counted)
      BY <2>1 DEF Behave
    <3>2. FallCounter(visWalk.tilt_fallen_counter_, tilt) \in Int
      BY FallCounterType DEF TypeOK, WalkRequest
    <3>3. counted \in WalkRequest
      <4>1. SitWalk(visWalk, sits) \in WalkRequest
        BY SetRequestType DEF SitWalk, NoWalk, Motions, AllSpeeds, TypeOK
      <4> QED
        BY <3>2, <4>1 DEF WalkRequest
    <3>4. NoWalk(counted).motion_ = "NONE"
      BY <3>3 DEF NoWalk, SetRequest, WalkRequest
    <3> QED
      BY <2>2, <3>1, <3>4
  <2> QED
    BY <1>5, <2>2, <2>3 DEF ProcessFrame, syncVars, motVars
<1>6. CASE SkipFrame
  BY <1>6 DEF SkipFrame, syncVars, motVars, visVars
<1>7. CASE RestartPython
  BY <1>7 DEF RestartPython, syncVars, motVars
<1>8. CASE VisionPublishData
  BY <1>8 DEF VisionPublishData, motVars, visVars
<1>9. CASE UNCHANGED vars
  BY <1>9 DEF vars, syncVars, motVars, visVars
<1> QED
  BY <1>1, <1>2, <1>3, <1>4, <1>5, <1>6, <1>7, <1>8, <1>9 DEF Next, Motion, Vision

(* Motion never receives a pose while the walk request drives the legs.    *)
THEOREM PoseWithoutWalk == Spec => []PoseComesWithNoWalk
<1>1. Init => PoseInv
  BY DEF Init, PoseInv, PoseComesWithNoWalk
<1>2. PoseInv => PoseComesWithNoWalk
  BY DEF PoseInv
<1> QED
  BY <1>1, <1>2, TypeCorrect, NextPose, PTL DEF Spec
=============================================================================
