----------------------------- MODULE MotionLoop -----------------------------
(***************************************************************************)
(* The 10 ms cycle: the callbacks the interface (interfaces/nao) runs in   *)
(* the real-time thread of naoqi's DCM, and the loop of the motion process *)
(* (interfaces/shared_motion/main.cpp), joined by the named mutex and      *)
(* condition LOCK_MOTION.                                                  *)
(*                                                                         *)
(* A callback waits 9 ms for the mutex and then goes on without it, so the *)
(* steps of a motion frame are separate here although motion holds the     *)
(* mutex throughout.  Motion may die, by a signal it handles or by one it  *)
(* cannot, and is started again by data/scripts/restart_processes.sh.      *)
(*                                                                         *)
(* Sensors are represented by the frame they were read in.  Of the joint   *)
(* commands the model keeps one head joint, the only one whose command is  *)
(* changed in place when it is sent.  Speech and LEDs are left out.        *)
(***************************************************************************)
EXTENDS Integers

CONSTANTS
  MaxFrame,     \* bound: frames the interface produces
  MaxAngle,     \* bound: the angle a head command can grow to in raw_joint_commands_
  Readings,     \* values of the head joint's sensor
  Commands,     \* head commands vision sends: [angle, send, change]
  HeadOffset,   \* headPanOffset
  Exits         \* ways motion can end: "signal", "kill"

ASSUME MaxFrameAssumption == MaxFrame \in Nat \ {0}
ASSUME MaxAngleAssumption == MaxAngle \in Nat
ASSUME ReadingsAssumption == 0 \in Readings /\ Readings \subseteq Int
ASSUME CommandsAssumption ==
  Commands \subseteq [angle : Int, send : BOOLEAN, change : BOOLEAN]
ASSUME HeadOffsetAssumption == HeadOffset \in Int
ASSUME ExitsAssumption == Exits \subseteq {"signal", "kill"}

VARIABLES
  holder,      \* who holds the mutex: "none", "dcm", "motion"
  frame_id,    \* frame_info_->frame_id
  raw,         \* raw_joint_angles_ and raw_sensors_: the frame and the head's angle
  rawCmd,      \* raw_joint_commands_, the head joint
  dpc,         \* the DCM thread
  res,         \* what timed_lock returned to the running callback
  mpc,         \* motion's main loop; "off" when the process is not running
  last_frame_processed,
  anglesOf,    \* the frame processed_joint_angles_ were read in
  sensorsOf,   \* the frame processed_sensors_ were read in
  cmd,         \* processed_joint_commands_
  warm,        \* time_passed >= 1.0
  (* history *)
  unlocked,    \* a callback wrote without the mutex, and motion may have seen part of it
  meant,       \* the command motion last wrote whole to raw_joint_commands_
  added,       \* the readings a relative command was sent with before, since it was written
  torn         \* rawCmd was sent, or left by a motion that ended, half written

dcmVars == <<frame_id, raw, dpc, res>>
motionVars == <<mpc, last_frame_processed, anglesOf, sensorsOf, cmd, warm>>
history == <<meant, added, torn>>
vars == <<holder, dcmVars, rawCmd, motionVars, unlocked, history>>

NoCommand == [angle |-> 0, send |-> FALSE, change |-> FALSE]

Init ==
  /\ holder = "none"
  /\ frame_id = 0
  /\ raw = [frame |-> 0, head |-> 0]
  /\ rawCmd = NoCommand
  /\ dpc = "post_lock"
  /\ res = FALSE
  /\ mpc = "lock"
  /\ last_frame_processed = 0
  /\ anglesOf = 0 /\ sensorsOf = 0
  /\ cmd = NoCommand
  /\ warm = FALSE
  /\ unlocked = FALSE
  /\ meant = NoCommand /\ added = 0 /\ torn = FALSE

-----------------------------------------------------------------------------
(* The DCM thread: naointerface::postProcess, then naointerface::preProcess,   *)
(* in turn for ever.                                                           *)

(* motion_lock_->timed_lock(9). *)
TimedLock_Blocking(to) ==
  /\ holder = "none"
  /\ holder' = "dcm"
  /\ res' = TRUE
  /\ dpc' = to
TimedLock_Taken(to) ==
  /\ res' = TRUE
  /\ holder' = IF holder = "none" THEN "dcm" ELSE holder
  /\ dpc' = to
TimedLock(to) ==
  /\ res' = (holder = "none")
  /\ holder' = IF holder = "none" THEN "dcm" ELSE holder
  /\ dpc' = to

(* if (res) unlock(). *)
Unlock_Never == UNCHANGED holder
Unlock == holder' = IF res THEN "none" ELSE holder

(* notify_one(): only motion ever waits. *)
NotifyOne == mpc' = IF mpc = "wait" THEN "relock" ELSE mpc

PostProcessLock ==
  /\ dpc = "post_lock"
  /\ TimedLock("post_frame")
  /\ UNCHANGED <<frame_id, raw, rawCmd, motionVars, unlocked, history>>

PostProcessFrame ==
  /\ dpc = "post_frame"
  /\ dpc' = "post_sensors"
  /\ frame_id' = frame_id + 1
  /\ unlocked' = (unlocked \/ ~res)
  /\ UNCHANGED <<holder, raw, res, rawCmd, motionVars, history>>

(* populateSensors, then the unlock. *)
PopulateSensors ==
  /\ dpc = "post_sensors"
  /\ dpc' = "post_notify"
  /\ \E h \in Readings : raw' = [frame |-> frame_id, head |-> h]
  /\ unlocked' = (unlocked \/ ~res)
  /\ Unlock
  /\ UNCHANGED <<frame_id, res, rawCmd, motionVars, history>>

PostProcessNotify ==
  /\ dpc = "post_notify"
  /\ dpc' = "pre_lock"
  /\ NotifyOne
  /\ UNCHANGED <<holder, frame_id, raw, res, rawCmd, last_frame_processed,
                 anglesOf, sensorsOf, cmd, warm, unlocked, history>>

PreProcessLock ==
  /\ dpc = "pre_lock" /\ rawCmd.angle <= MaxAngle
  /\ TimedLock("pre")
  /\ UNCHANGED <<frame_id, raw, rawCmd, motionVars, unlocked, history>>

(* The head angle of DCMWrapper::sendToActuators: a change is added in place. *)
SentAngle(c, h) == IF c.change THEN c.angle + h ELSE c.angle

ChangeInPlace ==
  /\ rawCmd' = [rawCmd EXCEPT !.angle = SentAngle(rawCmd, raw.head)]
  /\ added' = IF meant.change THEN added + raw.head ELSE added
  /\ torn' = (torn \/ mpc = "post_flags")

SendToActuators ==
  /\ dpc = "pre"
  /\ dpc' = "pre_notify"
  /\ IF rawCmd.send
     THEN ChangeInPlace
     ELSE UNCHANGED <<rawCmd, added, torn>>
  /\ Unlock
  /\ UNCHANGED <<frame_id, raw, res, motionVars, unlocked, meant>>

(* The ALError that sendToActuators or sendToLEDs throws again leaves preProcess   *)
(* before its unlock and its notification; the head's angle may be changed by      *)
(* then.                                                                           *)
SendThrows ==
  /\ dpc = "pre"
  /\ dpc' = "threw"
  /\ \/ rawCmd.send /\ ChangeInPlace
     \/ UNCHANGED <<rawCmd, added, torn>>
  /\ UNCHANGED <<holder, frame_id, raw, res, motionVars, unlocked, meant>>

NextCallback == dpc' = IF frame_id < MaxFrame THEN "post_lock" ELSE "pre_lock"

(* The DCM goes on with the next callback.  If the one that threw had the mutex,   *)
(* its scoped_lock still counts as locked and timed_lock throws in every callback  *)
(* from then on: nothing more happens.                                             *)
CallbackAfterThrow ==
  /\ dpc = "threw" /\ ~res
  /\ NextCallback
  /\ UNCHANGED <<holder, frame_id, raw, res, rawCmd, motionVars, unlocked, history>>

PreProcessNotify ==
  /\ dpc = "pre_notify"
  /\ NextCallback
  /\ NotifyOne
  /\ UNCHANGED <<holder, frame_id, raw, res, rawCmd, last_frame_processed,
                 anglesOf, sensorsOf, cmd, warm, unlocked, history>>

Dcm == \/ PostProcessLock \/ PostProcessFrame \/ PopulateSensors \/ PostProcessNotify
       \/ PreProcessLock \/ SendToActuators \/ PreProcessNotify
       \/ SendThrows \/ CallbackAfterThrow

-----------------------------------------------------------------------------
(* The motion process. *)

(* MotionCore::alreadyProcessedFrame. *)
AlreadyProcessedFrame_Off(id, last) == id < last
AlreadyProcessedFrame(id, last) == id <= last

MotionGoto(from, to) == mpc = from /\ mpc' = to

(* lock->lock(), and the mutex taken back when wait() returns. *)
MotionLock ==
  /\ mpc \in {"lock", "relock"} /\ mpc' = "check"
  /\ holder = "none"
  /\ holder' = "motion"
  /\ UNCHANGED <<dcmVars, rawCmd, last_frame_processed, anglesOf, sensorsOf, cmd, warm,
                 unlocked, history>>

(* while (core->alreadyProcessedFrame()) lock->wait(). *)
MotionWait ==
  /\ MotionGoto("check", "wait")
  /\ AlreadyProcessedFrame(frame_id, last_frame_processed)
  /\ holder' = "none"
  /\ UNCHANGED <<dcmVars, rawCmd, last_frame_processed, anglesOf, sensorsOf, cmd, warm,
                 unlocked, history>>

SpuriousWakeup ==
  /\ MotionGoto("wait", "relock")
  /\ UNCHANGED <<holder, dcmVars, rawCmd, last_frame_processed, anglesOf, sensorsOf, cmd,
                 warm, unlocked, history>>

MotionFrameStart ==
  /\ MotionGoto("check", "pre")
  /\ ~AlreadyProcessedFrame(frame_id, last_frame_processed)
  /\ unlocked' = (dpc = "post_sensors" /\ ~res)
  /\ UNCHANGED <<holder, dcmVars, rawCmd, last_frame_processed, anglesOf, sensorsOf, cmd,
                 warm, history>>

(* MotionCore::preProcess. *)
MotionPreProcess_Unlocks ==
  /\ MotionGoto("pre", "process")
  /\ anglesOf' = raw.frame
  /\ holder' = "none"
  /\ UNCHANGED <<dcmVars, rawCmd, last_frame_processed, sensorsOf, cmd, warm,
                 unlocked, history>>
MotionPreProcess ==
  /\ MotionGoto("pre", "process")
  /\ anglesOf' = raw.frame
  /\ UNCHANGED <<holder, dcmVars, rawCmd, last_frame_processed, sensorsOf, cmd, warm,
                 unlocked, history>>

(* MotionCore::receiveData gives the commands, processSensorUpdate reads the   *)
(* sensors.  processMotionFrame's own test of alreadyProcessedFrame never      *)
(* succeeds here, because frame_id never decreases.                            *)
MotionProcess ==
  /\ MotionGoto("process", "mark")
  /\ sensorsOf' = raw.frame
  /\ cmd' \in Commands
  /\ UNCHANGED <<holder, dcmVars, rawCmd, last_frame_processed, anglesOf, warm, unlocked,
                 history>>

(* last_frame_processed_ = frame_id, through a reference: the value it has now. *)
MotionMark ==
  /\ MotionGoto("mark", "post")
  /\ last_frame_processed' = frame_id
  /\ UNCHANGED <<holder, dcmVars, rawCmd, anglesOf, sensorsOf, cmd, warm, unlocked, history>>

(* MotionCore::postProcess: the angles first, the flags after them; nothing is *)
(* sent in the first second.                                                   *)
RawAngle(c) == IF c.change THEN c.angle ELSE c.angle - HeadOffset

MotionPostAngles ==
  /\ mpc = "post"
  /\ IF warm
     THEN /\ mpc' = "post_flags"
          /\ rawCmd' = [rawCmd EXCEPT !.angle = RawAngle(cmd)]
     ELSE /\ mpc' = "unlock"
          /\ rawCmd' = [rawCmd EXCEPT !.send = FALSE]
  /\ added' = 0 /\ torn' = FALSE
  /\ UNCHANGED <<holder, dcmVars, last_frame_processed, anglesOf, sensorsOf, cmd, warm,
                 unlocked, meant>>

MotionPostFlags ==
  /\ MotionGoto("post_flags", "unlock")
  /\ rawCmd' = [rawCmd EXCEPT !.send = cmd.send, !.change = cmd.change]
  /\ meant' = cmd
  /\ UNCHANGED <<holder, dcmVars, last_frame_processed, anglesOf, sensorsOf, cmd, warm,
                 unlocked, added, torn>>

(* unlock(), notify_one() which nobody waits for, publishData(). *)
MotionUnlock ==
  /\ MotionGoto("unlock", "lock")
  /\ holder' = "none"
  /\ UNCHANGED <<dcmVars, rawCmd, last_frame_processed, anglesOf, sensorsOf, cmd, warm,
                 unlocked, history>>

SecondPasses ==
  /\ mpc # "off" /\ ~warm
  /\ warm' = TRUE
  /\ UNCHANGED <<holder, dcmVars, rawCmd, mpc, last_frame_processed, anglesOf, sensorsOf,
                 cmd, unlocked, history>>

(* handleSignal and handleExit: lock_ counts as owned during wait() too, so     *)
(* the mutex is released even when it is the interface that holds it.           *)
HandleExit ==
  holder' = IF mpc = "lock" THEN holder ELSE "none"

MotionExit ==
  /\ mpc # "off"
  /\ mpc' = "off"
  /\ \/ "signal" \in Exits /\ HandleExit
     \/ "kill" \in Exits /\ UNCHANGED holder
  /\ torn' = (torn \/ mpc = "post_flags")
  /\ UNCHANGED <<dcmVars, rawCmd, last_frame_processed, anglesOf, sensorsOf, cmd, warm,
                 unlocked, meant, added>>

(* restart_processes.sh, seconds later: the callback that ran when the process *)
(* ended is over.                                                              *)
MotionStart ==
  /\ mpc = "off" /\ dpc \in {"post_lock", "pre_lock", "threw"}
  /\ mpc' = "lock"
  /\ last_frame_processed' = 0
  /\ anglesOf' = 0 /\ sensorsOf' = 0
  /\ cmd' = NoCommand
  /\ warm' = FALSE
  /\ UNCHANGED <<holder, dcmVars, rawCmd, unlocked, history>>

MotionStep ==
  \/ MotionWait \/ MotionFrameStart \/ MotionPreProcess \/ MotionProcess \/ MotionMark
  \/ MotionPostAngles \/ MotionPostFlags \/ MotionUnlock \/ MotionStart

Next == Dcm \/ MotionLock \/ MotionStep \/ SpuriousWakeup \/ SecondPasses \/ MotionExit

Spec == Init /\ [][Next]_vars

(* The DCM cycle never stops and motion's loop runs whenever it can; the mutex   *)
(* is free for most of every cycle, so that whoever waits for it gets it, and    *)
(* restart_processes.sh looks for a missing process for ever.                    *)
FairSpec ==
  /\ Spec
  /\ WF_vars(Dcm) /\ WF_vars(MotionStep)
  /\ SF_vars(MotionLock) /\ SF_vars(MotionStart)

-----------------------------------------------------------------------------
(* Properties. *)

(* The type invariant. *)
TypeOK ==
  /\ holder \in {"none", "dcm", "motion"}
  /\ frame_id \in 0..MaxFrame
  /\ raw \in [frame : 0..MaxFrame, head : Readings]
  /\ rawCmd \in [angle : Int, send : BOOLEAN, change : BOOLEAN]
  /\ dpc \in {"post_lock", "post_frame", "post_sensors", "post_notify",
              "pre_lock", "pre", "pre_notify", "threw"}
  /\ res \in BOOLEAN /\ warm \in BOOLEAN /\ unlocked \in BOOLEAN
  /\ added \in Int /\ torn \in BOOLEAN
  /\ mpc \in {"off", "lock", "relock", "check", "wait", "pre", "process", "mark",
              "post", "post_flags", "unlock"}
  /\ {last_frame_processed, anglesOf, sensorsOf} \subseteq 0..MaxFrame
  /\ {cmd, meant} \subseteq Commands \cup {NoCommand}

(* Unless a callback went on without the mutex, the joint angles and the        *)
(* sensors motion computes with are those of one frame, the one it then marks   *)
(* as processed: preProcess, processSensorUpdate and the marking through a      *)
(* reference to frame_id all see the same frame.                                *)
FrameIntact ==
  mpc \in {"post", "post_flags", "unlock"} /\ ~unlocked =>
    anglesOf = last_frame_processed /\ sensorsOf = last_frame_processed

(* The invariant: the types, and whole frames for motion. *)
LoopInv == TypeOK /\ FrameIntact

(* Motion never works on a frame twice, whatever wakes it (a notification for   *)
(* an old frame, preProcess's, a spurious one) and however late it is.          *)
FramesAdvance ==
  [][mpc = "mark" /\ mpc' = "post" => last_frame_processed' > last_frame_processed]_vars

(* However often preProcess sends the command motion left, because motion is     *)
(* late or has ended, the head gets what motion last meant: an angle, less this  *)
(* robot's offset, each time the same one; or a change, added to the reading     *)
(* and, as sendToActuators adds in place, to the readings of all the times it    *)
(* was sent before.  The exceptions are a callback that goes on without the      *)
(* mutex between motion's writing of the angles and of the flags, and what that  *)
(* callback, or a motion that ended there, leaves until motion writes anew.      *)
Wanted ==
  IF meant.change THEN meant.angle + raw.head + added ELSE meant.angle - HeadOffset

SentAsMeant ==
  [][dpc = "pre" /\ dpc' = "pre_notify" /\ rawCmd.send =>
       \/ rawCmd'.angle = Wanted
       \/ mpc = "post_flags" /\ ~res
       \/ torn]_vars

(* The mutex is left locked for ever: by a motion that was killed, or by a       *)
(* callback an error threw out of.  The angle has grown past MaxAngle, where the *)
(* model stops.                                                                  *)
LockOrphaned ==
  \/ holder = "motion" /\ mpc \in {"off", "lock", "relock"}
  \/ holder = "dcm" /\ dpc = "threw"
AtBound == rawCmd.angle > MaxAngle

(* Every frame is processed, or overtaken by a later one, although a            *)
(* notification given without the mutex can fall between motion's test and its  *)
(* wait, or be left out by a callback that threw; only a mutex that its holder  *)
(* left locked stops motion.                                                    *)
MotionKeepsUp ==
  \A f \in 1..MaxFrame :
    frame_id = f /\ mpc # "off" ~>
      last_frame_processed >= f \/ mpc = "off" \/ LockOrphaned \/ AtBound

(* The interface's callbacks end, also when motion died with the mutex locked:   *)
(* postProcess with its notification, preProcess with it or by an exception.     *)
(* And they go on, with the next frame as long as there is one, unless an error  *)
(* left the interface's own lock locked.                                         *)
CallbacksEnd ==
  /\ dpc = "post_lock" ~> dpc = "post_notify"
  /\ dpc = "pre_lock" ~> dpc \in {"pre_notify", "threw"} \/ AtBound
  /\ \A f \in 0..MaxFrame - 1 :
       frame_id = f ~> frame_id > f \/ (dpc = "threw" /\ res) \/ AtBound
=============================================================================
