-------------------------- MODULE MotionLoopProofs --------------------------
(***************************************************************************)
(* Proofs about MotionLoop: motion's frames are whole and advance, and the *)
(* head joint gets what motion meant however often a command is sent.      *)
(*                                                                         *)
(* The mutex is what keeps a frame whole, and it is weak twice over: a     *)
(* callback goes on without it, and a motion that ends by a signal gives   *)
(* back a mutex the interface may hold.  Exclusion says what is left of    *)
(* it; Whole and Read what motion has read up to each step of its frame.   *)
(***************************************************************************)
EXTENDS MotionLoop, TLAPS

(* Motion's steps between taking the mutex and giving it back; the ones in which  *)
(* it works on a frame; the ones before the frame is marked.                      *)
Working == {"pre", "process", "mark", "post", "post_flags", "unlock"}
Locked == Working \cup {"check"}
Unmarked == {"pre", "process", "mark"}

(* The frames a callback produces are within the bound. *)
BelowBound == dpc \in {"post_lock", "post_frame"} => frame_id < MaxFrame

(* Motion has the mutex whenever it is past the lock; a callback that got the   *)
(* mutex still has it, unless an ending motion gave it back, and then no motion *)
(* runs until the callback is over.                                             *)
Exclusion ==
  /\ mpc \in Locked => holder = "motion"
  /\ res /\ dpc \in {"post_frame", "post_sensors", "pre"} =>
       holder = "dcm" \/ (mpc = "off" /\ holder = "none")

(* The sensors are those of frame_id except between the two halves of           *)
(* postProcess, which motion can meet only when the callback has no mutex.      *)
Whole ==
  /\ dpc # "post_sensors" => raw.frame = frame_id
  /\ mpc \in Working /\ ~unlocked => dpc # "post_sensors"

(* What motion has read so far is of the frame it is working on. *)
Read ==
  /\ mpc \in {"process", "mark"} /\ ~unlocked => anglesOf = frame_id
  /\ mpc = "mark" /\ ~unlocked => sensorsOf = frame_id

(* A frame motion works on is newer than the last one it marked. *)
Newer == mpc \in Unmarked => frame_id > last_frame_processed

(* The command to be sent is the one motion last wrote, unless it was torn, with *)
(* what was added to it in place if it is relative; between its two halves the   *)
(* angle is there already.                                                       *)
Meant ==
  /\ mpc # "post_flags" /\ ~torn /\ rawCmd.send =>
       /\ rawCmd.change = meant.change
       /\ rawCmd.angle = RawAngle(meant) + added
       /\ ~meant.change => added = 0
  /\ mpc = "post_flags" /\ ~torn => rawCmd.angle = RawAngle(cmd) /\ added = 0

(* The inductive invariant. *)
CycleInv ==
  TypeOK /\ BelowBound /\ Exclusion /\ Whole /\ Read /\ FrameIntact /\ Newer /\ Meant

-----------------------------------------------------------------------------
(* A head command is a record, the one a new process starts with too. *)
LEMMA CommandType ==
  ASSUME TypeOK
  PROVE  {cmd, meant} \subseteq [angle : Int, send : BOOLEAN, change : BOOLEAN]
<1>1. NoCommand \in [angle : Int, send : BOOLEAN, change : BOOLEAN]
  BY DEF NoCommand
<1> QED
  BY <1>1, CommandsAssumption DEF TypeOK

(* Zero is a frame number. *)
LEMMA ZeroFrame == 0 \in 0..MaxFrame /\ 0 < MaxFrame
  BY MaxFrameAssumption

(* Every step keeps the types and the bound on frames. *)
LEMMA TypeStep == ASSUME TypeOK, BelowBound, [Next]_vars PROVE (TypeOK /\ BelowBound)'
<1> USE DEF TypeOK, BelowBound
<1>1. CASE PostProcessLock
  BY <1>1 DEF PostProcessLock, TimedLock, dcmVars, motionVars, history
<1>2. CASE PostProcessFrame
  BY <1>2, MaxFrameAssumption DEF PostProcessFrame, dcmVars, motionVars, history
<1>3. CASE PopulateSensors
  BY <1>3, MaxFrameAssumption DEF PopulateSensors, Unlock, dcmVars, motionVars, history
<1>4. CASE PostProcessNotify
  BY <1>4 DEF PostProcessNotify, NotifyOne, dcmVars, motionVars, history
<1>5. CASE PreProcessLock
  BY <1>5 DEF PreProcessLock, TimedLock, dcmVars, motionVars, history
<1>6. CASE SendToActuators
  <2>1. rawCmd' \in [angle : Int, send : BOOLEAN, change : BOOLEAN]
    BY <1>6, ReadingsAssumption DEF SendToActuators, ChangeInPlace, SentAngle
  <2>2. added' \in Int
    BY <1>6, ReadingsAssumption DEF SendToActuators, ChangeInPlace
  <2>3. torn' \in BOOLEAN
    BY <1>6 DEF SendToActuators, ChangeInPlace
  <2> QED
    BY <1>6, <2>1, <2>2, <2>3 DEF SendToActuators, Unlock, motionVars
<1>7. CASE PreProcessNotify
  BY <1>7, MaxFrameAssumption
  DEF PreProcessNotify, NextCallback, NotifyOne, dcmVars, motionVars, history
<1>8. CASE MotionLock
  BY <1>8 DEF MotionLock, dcmVars, motionVars, history
<1>9. CASE MotionWait
  BY <1>9 DEF MotionWait, MotionGoto, dcmVars, motionVars, history
<1>10. CASE MotionFrameStart
  BY <1>10 DEF MotionFrameStart, MotionGoto, AlreadyProcessedFrame, dcmVars, motionVars, history
<1>11. CASE MotionPreProcess
  BY <1>11 DEF MotionPreProcess, MotionGoto, dcmVars, motionVars, history
<1>12. CASE MotionProcess
  BY <1>12 DEF MotionProcess, MotionGoto, dcmVars, motionVars, history
<1>13. CASE MotionMark
  BY <1>13, MaxFrameAssumption DEF MotionMark, MotionGoto, dcmVars, motionVars, history
<1>14. CASE MotionPostAngles
  <2>1. cmd.angle \in Int /\ cmd.angle - HeadOffset \in Int
    BY CommandType, HeadOffsetAssumption
  <2>2. rawCmd' \in [angle : Int, send : BOOLEAN, change : BOOLEAN]
    BY <1>14, <2>1 DEF MotionPostAngles, RawAngle
  <2>3. added' \in Int
    BY <1>14 DEF MotionPostAngles
  <2> QED
    BY <1>14, <2>2, <2>3, ZenonT(60) DEF MotionPostAngles, RawAngle, dcmVars
<1>15. CASE MotionPostFlags
  <2>1. cmd.send \in BOOLEAN /\ cmd.change \in BOOLEAN
    BY CommandType
  <2>2. rawCmd' \in [angle : Int, send : BOOLEAN, change : BOOLEAN]
    BY <1>15, <2>1 DEF MotionPostFlags
  <2> QED
    BY <1>15, <2>2 DEF MotionPostFlags, MotionGoto, RawAngle, dcmVars
<1>16. CASE MotionUnlock
  BY <1>16 DEF MotionUnlock, MotionGoto, dcmVars, motionVars, history
<1>17. CASE MotionStart
  <2>1. cmd' \in Commands \cup {NoCommand}
    BY <1>17 DEF MotionStart
  <2> QED
    BY <1>17, <2>1, ZeroFrame, ZenonT(60) DEF MotionStart, dcmVars, history
<1>18. CASE SpuriousWakeup
  BY <1>18 DEF SpuriousWakeup, MotionGoto, dcmVars, motionVars, history
<1>19. CASE SecondPasses
  BY <1>19 DEF SecondPasses, dcmVars, motionVars, history
<1>20. CASE MotionExit
  BY <1>20 DEF MotionExit, HandleExit, dcmVars, motionVars, history
<1>21. CASE UNCHANGED vars
  BY <1>21 DEF vars, dcmVars, motionVars, history
<1>22. CASE SendThrows
  <2>1. rawCmd' \in [angle : Int, send : BOOLEAN, change : BOOLEAN]
    BY <1>22, ReadingsAssumption DEF SendThrows, ChangeInPlace, SentAngle
  <2>2. added' \in Int
    BY <1>22, ReadingsAssumption DEF SendThrows, ChangeInPlace
  <2>3. torn' \in BOOLEAN
    BY <1>22 DEF SendThrows, ChangeInPlace
  <2> QED
    BY <1>22, <2>1, <2>2, <2>3 DEF SendThrows, motionVars
<1>23. CASE CallbackAfterThrow
  BY <1>23 DEF CallbackAfterThrow, NextCallback, dcmVars, motionVars, history
<1> QED
  BY <1>1, <1>2, <1>3, <1>4, <1>5, <1>6, <1>7, <1>8, <1>9, <1>10, <1>11,
     <1>12, <1>13, <1>14, <1>15, <1>16, <1>17, <1>18, <1>19, <1>20, <1>21,
     <1>22, <1>23
  DEF Next, Dcm, MotionStep

-----------------------------------------------------------------------------
(* Every step keeps what is left of mutual exclusion. *)
LEMMA ExclusionStep == ASSUME TypeOK, Exclusion, [Next]_vars PROVE Exclusion'
<1> USE DEF TypeOK, Exclusion, Working, Locked
<1>1. CASE PostProcessLock
  BY <1>1 DEF PostProcessLock, TimedLock, dcmVars, motionVars, history
<1>2. CASE PostProcessFrame
  BY <1>2 DEF PostProcessFrame, dcmVars, motionVars, history
<1>3. CASE PopulateSensors
  BY <1>3 DEF PopulateSensors, Unlock, dcmVars, motionVars, history
<1>4. CASE PostProcessNotify
  BY <1>4 DEF PostProcessNotify, NotifyOne, dcmVars, motionVars, history
<1>5. CASE PreProcessLock
  BY <1>5 DEF PreProcessLock, TimedLock, dcmVars, motionVars, history
<1>6. CASE SendToActuators
  BY <1>6 DEF SendToActuators, ChangeInPlace, SentAngle, Unlock, dcmVars, motionVars, history
<1>7. CASE PreProcessNotify
  BY <1>7 DEF PreProcessNotify, NextCallback, NotifyOne, dcmVars, motionVars, history
<1>8. CASE MotionLock
  BY <1>8 DEF MotionLock, dcmVars, motionVars, history
<1>9. CASE MotionWait
  BY <1>9 DEF MotionWait, MotionGoto, dcmVars, motionVars, history
<1>10. CASE MotionFrameStart
  BY <1>10 DEF MotionFrameStart, MotionGoto, AlreadyProcessedFrame, dcmVars, motionVars, history
<1>11. CASE MotionPreProcess
  BY <1>11 DEF MotionPreProcess, MotionGoto, dcmVars, motionVars, history
<1>12. CASE MotionProcess
  BY <1>12 DEF MotionProcess, MotionGoto, dcmVars, motionVars, history
<1>13. CASE MotionMark
  BY <1>13 DEF MotionMark, MotionGoto, dcmVars, motionVars, history
<1>14. CASE MotionPostAngles
  BY <1>14 DEF MotionPostAngles, RawAngle, dcmVars, motionVars, history
<1>15. CASE MotionPostFlags
  BY <1>15 DEF MotionPostFlags, MotionGoto, RawAngle, dcmVars, motionVars, history
<1>16. CASE MotionUnlock
  BY <1>16 DEF MotionUnlock, MotionGoto, dcmVars, motionVars, history
<1>17. CASE MotionStart
  BY <1>17 DEF MotionStart, NoCommand, dcmVars, motionVars, history
<1>18. CASE SpuriousWakeup
  BY <1>18 DEF SpuriousWakeup, MotionGoto, dcmVars, motionVars, history
<1>19. CASE SecondPasses
  BY <1>19 DEF SecondPasses, dcmVars, motionVars, history
<1>20. CASE MotionExit
  BY <1>20 DEF MotionExit, HandleExit, dcmVars, motionVars, history
<1>21. CASE UNCHANGED vars
  BY <1>21 DEF vars, dcmVars, motionVars, history
<1>22. CASE SendThrows
  BY <1>22 DEF SendThrows, ChangeInPlace, SentAngle, dcmVars, motionVars, history
<1>23. CASE CallbackAfterThrow
  BY <1>23 DEF CallbackAfterThrow, NextCallback, dcmVars, motionVars, history
<1> QED
  BY <1>1, <1>2, <1>3, <1>4, <1>5, <1>6, <1>7, <1>8, <1>9, <1>10, <1>11,
     <1>12, <1>13, <1>14, <1>15, <1>16, <1>17, <1>18, <1>19, <1>20, <1>21,
     <1>22, <1>23
  DEF Next, Dcm, MotionStep

-----------------------------------------------------------------------------
(* Every step keeps the frames whole for a motion no callback got in the way of. *)
LEMMA WholeStep ==
  ASSUME TypeOK, Exclusion, Whole, Read, FrameIntact, [Next]_vars
  PROVE  (Whole /\ Read /\ FrameIntact)'
<1> USE DEF TypeOK, Exclusion, Whole, Read, FrameIntact, Working, Locked
<1>1. CASE PostProcessLock
  BY <1>1 DEF PostProcessLock, TimedLock, dcmVars, motionVars, history
<1>2. CASE PostProcessFrame
  BY <1>2 DEF PostProcessFrame, dcmVars, motionVars, history
<1>3. CASE PopulateSensors
  BY <1>3 DEF PopulateSensors, Unlock, dcmVars, motionVars, history
<1>4. CASE PostProcessNotify
  BY <1>4 DEF PostProcessNotify, NotifyOne, dcmVars, motionVars, history
<1>5. CASE PreProcessLock
  BY <1>5 DEF PreProcessLock, TimedLock, dcmVars, motionVars, history
<1>6. CASE SendToActuators
  BY <1>6 DEF SendToActuators, ChangeInPlace, SentAngle, Unlock, dcmVars, motionVars, history
<1>7. CASE PreProcessNotify
  BY <1>7 DEF PreProcessNotify, NextCallback, NotifyOne, dcmVars, motionVars, history
<1>8. CASE MotionLock
  BY <1>8 DEF MotionLock, dcmVars, motionVars, history
<1>9. CASE MotionWait
  BY <1>9 DEF MotionWait, MotionGoto, dcmVars, motionVars, history
<1>10. CASE MotionFrameStart
  BY <1>10 DEF MotionFrameStart, MotionGoto, AlreadyProcessedFrame, dcmVars, motionVars, history
<1>11. CASE MotionPreProcess
  BY <1>11 DEF MotionPreProcess, MotionGoto, dcmVars, motionVars, history
<1>12. CASE MotionProcess
  BY <1>12 DEF MotionProcess, MotionGoto, dcmVars, motionVars, history
<1>13. CASE MotionMark
  BY <1>13 DEF MotionMark, MotionGoto, dcmVars, motionVars, history
<1>14. CASE MotionPostAngles
  BY <1>14 DEF MotionPostAngles, RawAngle, dcmVars, motionVars, history
<1>15. CASE MotionPostFlags
  BY <1>15 DEF MotionPostFlags, MotionGoto, RawAngle, dcmVars, motionVars, history
<1>16. CASE MotionUnlock
  BY <1>16 DEF MotionUnlock, MotionGoto, dcmVars, motionVars, history
<1>17. CASE MotionStart
  BY <1>17 DEF MotionStart, NoCommand, dcmVars, motionVars, history
<1>18. CASE SpuriousWakeup
  BY <1>18 DEF SpuriousWakeup, MotionGoto, dcmVars, motionVars, history
<1>19. CASE SecondPasses
  BY <1>19 DEF SecondPasses, dcmVars, motionVars, history
<1>20. CASE MotionExit
  BY <1>20 DEF MotionExit, HandleExit, dcmVars, motionVars, history
<1>21. CASE UNCHANGED vars
  BY <1>21 DEF vars, dcmVars, motionVars, history
<1>22. CASE SendThrows
  BY <1>22 DEF SendThrows, ChangeInPlace, SentAngle, dcmVars, motionVars, history
<1>23. CASE CallbackAfterThrow
  BY <1>23 DEF CallbackAfterThrow, NextCallback, dcmVars, motionVars, history
<1> QED
  BY <1>1, <1>2, <1>3, <1>4, <1>5, <1>6, <1>7, <1>8, <1>9, <1>10, <1>11,
     <1>12, <1>13, <1>14, <1>15, <1>16, <1>17, <1>18, <1>19, <1>20, <1>21,
     <1>22, <1>23
  DEF Next, Dcm, MotionStep

-----------------------------------------------------------------------------
(* Every step keeps the frame motion works on newer than the last it marked. *)
LEMMA NewerStep == ASSUME TypeOK, BelowBound, Newer, [Next]_vars PROVE Newer'
<1> USE DEF TypeOK, BelowBound, Newer, Unmarked
<1>1. CASE PostProcessLock
  BY <1>1 DEF PostProcessLock, TimedLock, dcmVars, motionVars, history
<1>2. CASE PostProcessFrame
  BY <1>2 DEF PostProcessFrame, dcmVars, motionVars, history
<1>3. CASE PopulateSensors
  BY <1>3 DEF PopulateSensors, Unlock, dcmVars, motionVars, history
<1>4. CASE PostProcessNotify
  BY <1>4 DEF PostProcessNotify, NotifyOne, dcmVars, motionVars, history
<1>5. CASE PreProcessLock
  BY <1>5 DEF PreProcessLock, TimedLock, dcmVars, motionVars, history
<1>6. CASE SendToActuators
  BY <1>6 DEF SendToActuators, ChangeInPlace, SentAngle, Unlock, dcmVars, motionVars, history
<1>7. CASE PreProcessNotify
  BY <1>7 DEF PreProcessNotify, NextCallback, NotifyOne, dcmVars, motionVars, history
<1>8. CASE MotionLock
  BY <1>8 DEF MotionLock, dcmVars, motionVars, history
<1>9. CASE MotionWait
  BY <1>9 DEF MotionWait, MotionGoto, dcmVars, motionVars, history
<1>10. CASE MotionFrameStart
  BY <1>10 DEF MotionFrameStart, MotionGoto, AlreadyProcessedFrame, dcmVars, motionVars, history
<1>11. CASE MotionPreProcess
  BY <1>11 DEF MotionPreProcess, MotionGoto, dcmVars, motionVars, history
<1>12. CASE MotionProcess
  BY <1>12 DEF MotionProcess, MotionGoto, dcmVars, motionVars, history
<1>13. CASE MotionMark
  BY <1>13 DEF MotionMark, MotionGoto, dcmVars, motionVars, history
<1>14. CASE MotionPostAngles
  BY <1>14 DEF MotionPostAngles, RawAngle, dcmVars, motionVars, history
<1>15. CASE MotionPostFlags
  BY <1>15 DEF MotionPostFlags, MotionGoto, RawAngle, dcmVars, motionVars, history
<1>16. CASE MotionUnlock
  BY <1>16 DEF MotionUnlock, MotionGoto, dcmVars, motionVars, history
<1>17. CASE MotionStart
  BY <1>17 DEF MotionStart, NoCommand, dcmVars, motionVars, history
<1>18. CASE SpuriousWakeup
  BY <1>18 DEF SpuriousWakeup, MotionGoto, dcmVars, motionVars, history
<1>19. CASE SecondPasses
  BY <1>19 DEF SecondPasses, dcmVars, motionVars, history
<1>20. CASE MotionExit
  BY <1>20 DEF MotionExit, HandleExit, dcmVars, motionVars, history
<1>21. CASE UNCHANGED vars
  BY <1>21 DEF vars, dcmVars, motionVars, history
<1>22. CASE SendThrows
  BY <1>22 DEF SendThrows, ChangeInPlace, SentAngle, dcmVars, motionVars, history
<1>23. CASE CallbackAfterThrow
  BY <1>23 DEF CallbackAfterThrow, NextCallback, dcmVars, motionVars, history
<1> QED
  BY <1>1, <1>2, <1>3, <1>4, <1>5, <1>6, <1>7, <1>8, <1>9, <1>10, <1>11,
     <1>12, <1>13, <1>14, <1>15, <1>16, <1>17, <1>18, <1>19, <1>20, <1>21,
     <1>22, <1>23
  DEF Next, Dcm, MotionStep

(* Sending a command leaves it what motion meant, with the reading added. *)
LEMMA ChangeKeepsMeant ==
  ASSUME TypeOK, Meant, rawCmd.send, ChangeInPlace, UNCHANGED <<mpc, cmd, meant>>
  PROVE  Meant'
<1>1. CASE torn \/ mpc = "post_flags"
  BY <1>1 DEF ChangeInPlace, Meant
<1>2. CASE ~torn /\ mpc # "post_flags"
  <2>1. /\ rawCmd \in [angle : Int, send : BOOLEAN, change : BOOLEAN]
        /\ added \in Int /\ raw.head \in Int
        /\ meant \in [angle : Int, send : BOOLEAN, change : BOOLEAN]
    BY CommandType, ReadingsAssumption DEF TypeOK
  <2>2. RawAngle(meant) \in Int
    BY <2>1, HeadOffsetAssumption DEF RawAngle
  <2>3. /\ rawCmd.change = meant.change /\ rawCmd.angle = RawAngle(meant) + added
        /\ ~meant.change => added = 0
    BY <1>2 DEF Meant
  <2>4. rawCmd'.change = rawCmd.change /\ rawCmd'.angle = SentAngle(rawCmd, raw.head)
    BY <2>1 DEF ChangeInPlace
  <2>5. CASE meant.change
    <3>1. rawCmd'.angle = RawAngle(meant) + added' /\ added' = added + raw.head
      BY <2>1, <2>2, <2>3, <2>4, <2>5 DEF ChangeInPlace, SentAngle
    <3> QED
      BY <1>2, <2>3, <2>4, <2>5, <3>1 DEF Meant, RawAngle
  <2>6. CASE ~meant.change
    <3>1. rawCmd'.angle = RawAngle(meant) + added' /\ added' = 0
      BY <2>1, <2>2, <2>3, <2>4, <2>6 DEF ChangeInPlace, SentAngle
    <3> QED
      BY <1>2, <2>3, <2>4, <2>6, <3>1 DEF Meant, RawAngle
  <2> QED
    BY <2>5, <2>6
<1> QED
  BY <1>1, <1>2

-----------------------------------------------------------------------------
(* Every step keeps the command to be sent motion's own. *)
LEMMA MeantStep == ASSUME TypeOK, Meant, [Next]_vars PROVE Meant'
<1> USE DEF TypeOK, Meant
<1>1. CASE PostProcessLock
  BY <1>1 DEF PostProcessLock, TimedLock, dcmVars, motionVars, history
<1>2. CASE PostProcessFrame
  BY <1>2 DEF PostProcessFrame, dcmVars, motionVars, history
<1>3. CASE PopulateSensors
  BY <1>3 DEF PopulateSensors, Unlock, dcmVars, motionVars, history
<1>4. CASE PostProcessNotify
  BY <1>4 DEF PostProcessNotify, NotifyOne, dcmVars, motionVars, history
<1>5. CASE PreProcessLock
  BY <1>5 DEF PreProcessLock, TimedLock, dcmVars, motionVars, history
<1>6. CASE SendToActuators
  <2>1. CASE rawCmd.send
    BY <1>6, <2>1, ChangeKeepsMeant DEF SendToActuators, motionVars
  <2>2. CASE ~rawCmd.send
    BY <1>6, <2>2 DEF SendToActuators, motionVars
  <2> QED
    BY <2>1, <2>2
<1>7. CASE PreProcessNotify
  BY <1>7 DEF PreProcessNotify, NextCallback, NotifyOne, dcmVars, motionVars, history
<1>8. CASE MotionLock
  BY <1>8 DEF MotionLock, dcmVars, motionVars, history
<1>9. CASE MotionWait
  BY <1>9 DEF MotionWait, MotionGoto, dcmVars, motionVars, history
<1>10. CASE MotionFrameStart
  BY <1>10 DEF MotionFrameStart, MotionGoto, AlreadyProcessedFrame, dcmVars, motionVars, history
<1>11. CASE MotionPreProcess
  BY <1>11 DEF MotionPreProcess, MotionGoto, dcmVars, motionVars, history
<1>12. CASE MotionProcess
  BY <1>12 DEF MotionProcess, MotionGoto, dcmVars, motionVars, history
<1>13. CASE MotionMark
  BY <1>13 DEF MotionMark, MotionGoto, dcmVars, motionVars, history
<1>14. CASE MotionPostAngles
  BY <1>14 DEF MotionPostAngles, RawAngle, dcmVars, motionVars, history
<1>15. CASE MotionPostFlags
  BY <1>15 DEF MotionPostFlags, MotionGoto, RawAngle, dcmVars, motionVars, history
<1>16. CASE MotionUnlock
  BY <1>16 DEF MotionUnlock, MotionGoto, dcmVars, motionVars, history
<1>17. CASE MotionStart
  BY <1>17 DEF MotionStart, NoCommand, dcmVars, motionVars, history
<1>18. CASE SpuriousWakeup
  BY <1>18 DEF SpuriousWakeup, MotionGoto, dcmVars, motionVars, history
<1>19. CASE SecondPasses
  BY <1>19 DEF SecondPasses, dcmVars, motionVars, history
<1>20. CASE MotionExit
  BY <1>20 DEF MotionExit, HandleExit, dcmVars, motionVars, history
<1>21. CASE UNCHANGED vars
  BY <1>21 DEF vars, dcmVars, motionVars, history
<1>22. CASE SendThrows
  <2>1. CASE rawCmd.send /\ ChangeInPlace
    BY <1>22, <2>1, ChangeKeepsMeant DEF SendThrows, motionVars
  <2>2. CASE UNCHANGED <<rawCmd, added, torn>>
    BY <1>22, <2>2 DEF SendThrows, motionVars
  <2> QED
    BY <1>22, <2>1, <2>2 DEF SendThrows
<1>23. CASE CallbackAfterThrow
  BY <1>23 DEF CallbackAfterThrow, NextCallback, dcmVars, motionVars, history
<1> QED
  BY <1>1, <1>2, <1>3, <1>4, <1>5, <1>6, <1>7, <1>8, <1>9, <1>10, <1>11,
     <1>12, <1>13, <1>14, <1>15, <1>16, <1>17, <1>18, <1>19, <1>20, <1>21,
     <1>22, <1>23
  DEF Next, Dcm, MotionStep

-----------------------------------------------------------------------------
(* What every reachable state satisfies. *)
LEMMA CycleInvariant == Spec => []CycleInv
<1>1. Init => CycleInv
  <2>1. Init => TypeOK /\ BelowBound
    <3>1. NoCommand \in [angle : Int, send : BOOLEAN, change : BOOLEAN]
      BY DEF NoCommand
    <3>2. [frame |-> 0, head |-> 0] \in [frame : 0..MaxFrame, head : Readings]
      BY ZeroFrame, ReadingsAssumption
    <3>3. Init => {last_frame_processed, anglesOf, sensorsOf} \subseteq 0..MaxFrame
      BY ZeroFrame DEF Init
    <3>4. Init => added \in Int
      BY DEF Init
    <3> QED
      BY <3>1, <3>2, <3>3, <3>4, ZeroFrame DEF Init, TypeOK, BelowBound
  <2>2. Init => Exclusion /\ Whole /\ Read /\ FrameIntact /\ Newer /\ Meant
    BY DEF Init, Exclusion, Whole, Read, FrameIntact, Newer, Meant, Working, Locked, Unmarked,
       NoCommand
  <2> QED
    BY <2>1, <2>2 DEF CycleInv
<1>2. CycleInv /\ [Next]_vars => CycleInv'
  BY TypeStep, ExclusionStep, WholeStep, NewerStep, MeantStep DEF CycleInv
<1> QED
  BY <1>1, <1>2, PTL DEF Spec

(* Motion computes with whole frames: unless a callback went on without the     *)
(* mutex, the angles and the sensors of a frame are of the frame MotionCore     *)
(* marks as processed, for any number of frames, exits and restarts.            *)
THEOREM WholeFrames == Spec => []LoopInv
<1>1. CycleInv => LoopInv
  BY DEF CycleInv, LoopInv
<1> QED
  BY <1>1, CycleInvariant, PTL

(* No frame is processed twice, whatever wakes motion from its wait. *)
THEOREM NoFrameTwice == Spec => FramesAdvance
<1> DEFINE Advance == mpc = "mark" /\ mpc' = "post" => last_frame_processed' > last_frame_processed
<1>1. ASSUME CycleInv, [Next]_vars PROVE [Advance]_vars
  <2> SUFFICES ASSUME mpc = "mark", mpc' = "post"
               PROVE  last_frame_processed' > last_frame_processed
    OBVIOUS
  <2>1. MotionMark
    BY <1>1 DEF Next, Dcm, MotionStep, PostProcessLock, PostProcessFrame, PopulateSensors,
       PostProcessNotify, PreProcessLock, SendToActuators, PreProcessNotify, NotifyOne,
       SendThrows, CallbackAfterThrow,
       MotionLock, MotionWait, MotionFrameStart, MotionPreProcess, MotionProcess,
       MotionPostAngles, MotionPostFlags, MotionUnlock, MotionStart, SpuriousWakeup,
       SecondPasses, MotionExit, MotionGoto, motionVars, vars
  <2> QED
    BY <1>1, <2>1 DEF CycleInv, Newer, Unmarked, MotionMark
<1> HIDE DEF Advance
<1>2. CycleInv /\ [Next]_vars => [Advance]_vars
  BY <1>1
<1>3. Spec => [][Advance]_vars
  BY <1>2, CycleInvariant, PTL DEF Spec
<1> QED
  BY <1>3 DEF FramesAdvance, Advance

(* However often sendToActuators sends a head command, the joint gets what       *)
(* motion meant by it, a relative one with the readings of its earlier sendings  *)
(* added, but for the cases SentAsMeant names: Exclusion leaves a callback that  *)
(* has the mutex no half-written command to send.                                *)
THEOREM HeadAsMeant == Spec => SentAsMeant
<1> DEFINE Sent == dpc = "pre" /\ dpc' = "pre_notify" /\ rawCmd.send =>
                     \/ rawCmd'.angle = Wanted
                     \/ mpc = "post_flags" /\ ~res
                     \/ torn
<1>1. ASSUME CycleInv, [Next]_vars PROVE [Sent]_vars
  <2> SUFFICES ASSUME dpc = "pre", dpc' = "pre_notify", rawCmd.send, ~torn,
                      ~(mpc = "post_flags" /\ ~res)
               PROVE  rawCmd'.angle = Wanted
    OBVIOUS
  <2>1. SendToActuators
    BY <1>1 DEF Next, Dcm, MotionStep, PostProcessLock, PostProcessFrame, PopulateSensors,
       PostProcessNotify, PreProcessLock, PreProcessNotify, NextCallback, TimedLock,
       SendThrows, CallbackAfterThrow,
       MotionLock, MotionWait, MotionFrameStart, MotionPreProcess, MotionProcess, MotionMark,
       MotionPostAngles, MotionPostFlags, MotionUnlock, MotionStart, SpuriousWakeup,
       SecondPasses, MotionExit, dcmVars, vars
  <2>2. mpc # "post_flags"
    BY <1>1 DEF CycleInv, Exclusion, Locked, Working
  <2>3. /\ rawCmd.change = meant.change /\ rawCmd.angle = RawAngle(meant) + added
        /\ ~meant.change => added = 0
    BY <1>1, <2>2 DEF CycleInv, Meant
  <2>4. rawCmd'.angle = SentAngle(rawCmd, raw.head)
    BY <1>1, <2>1 DEF CycleInv, TypeOK, SendToActuators, ChangeInPlace
  <2>5. meant.angle \in Int /\ raw.head \in Int /\ added \in Int
    BY <1>1, CommandType, ReadingsAssumption DEF CycleInv, TypeOK
  <2> QED
    BY <2>3, <2>4, <2>5, HeadOffsetAssumption DEF SentAngle, RawAngle, Wanted
<1> HIDE DEF Sent
<1>2. CycleInv /\ [Next]_vars => [Sent]_vars
  BY <1>1
<1>3. Spec => [][Sent]_vars
  BY <1>2, CycleInvariant, PTL DEF Spec
<1> QED
  BY <1>3 DEF SentAsMeant, Sent
=============================================================================
