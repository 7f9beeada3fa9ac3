------------------------ MODULE VisionLoggingProofs -------------------------
(***************************************************************************)
(* Proofs about VisionLogging: for every frame count the tool may ask for, *)
(* a log is never written without a file and never overfull.               *)
(***************************************************************************)
EXTENDS VisionLogging, TLAPS

USE FrameCountsAssumption, UIntRangeAssumption, MaxWrittenAssumption, WidthAssumption

(* The shared flags, the counter, the file and both threads keep their types.   *)
THEOREM LoggingTypeCorrect == Spec => []TypeOK
<1>1. Init => TypeOK
  <2>1. 0 \in 0..(UIntRange - 1) /\ [open |-> FALSE, written |-> 0] \in [open : BOOLEAN, written : Nat]
        /\ 0 \in Nat
    OBVIOUS
  <2> QED
    BY <2>1, Zenon DEF Init, TypeOK
<1>2. TypeOK /\ [Next]_vars => TypeOK'
  <2> SUFFICES ASSUME TypeOK, [Next]_vars PROVE TypeOK'
    OBVIOUS
  <2>1. CASE Udp
    <3>1. [open |-> TRUE, written |-> 0] \in [open : BOOLEAN, written : Nat]
      OBVIOUS
    <3> QED
      BY <2>1, <3>1, Zenon DEF Udp, EnableLogging, EnableMemoryLogging, OpenLog,
         StartDisableLogging, TypeOK, history
  <2>2. CASE LogBegin
    <3>1. PICK n \in FrameCounts : log_by_frame_' = (n > 0) /\ frames_to_log_' = n /\ asked' = n
      BY <2>2, Zenon DEF LogBegin
    <3>2. n \in Nat /\ n \in 0..(UIntRange - 1) /\ (n > 0) \in BOOLEAN
      OBVIOUS
    <3> QED
      BY <2>2, <3>1, <3>2, Zenon DEF LogBegin, TypeOK
  <2>3. CASE LogEnd
    BY <2>3 DEF LogEnd, TypeOK
  <2>4. CASE SkipLog \/ CheckDisable
    BY <2>4 DEF SkipLog, CheckDisable, VisionGoto, TypeOK, history
  <2>5. CASE WriteMemory
    BY <2>5 DEF WriteMemory, VisionGoto, TypeOK, history
  <2>6. CASE CountFrame
    <3>1. Decrement(frames_to_log_) \in 0..(UIntRange - 1)
      BY DEF Decrement, TypeOK
    <3> QED
      BY <2>6, <3>1 DEF CountFrame, VisionGoto, TypeOK
  <2>7. CASE CloseLog \/ ClearFlags
    BY <2>7 DEF CloseLog, ClearFlags, VisionGoto, TypeOK, history
  <2>8. CASE ZeroFrames \/ SendLogComplete
    <3>1. 0 \in 0..(UIntRange - 1)
      OBVIOUS
    <3> QED
      BY <2>8, <3>1, Zenon DEF ZeroFrames, SendLogComplete, VisionGoto, TypeOK, history
  <2>9. CASE UNCHANGED vars
    BY <2>9 DEF vars, history, TypeOK
  <2> QED
    BY <2>1, <2>2, <2>3, <2>4, <2>5, <2>6, <2>7, <2>8, <2>9 DEF Next, Tool, Vision
<1> QED
  BY <1>1, <1>2, PTL DEF Spec

(* No frame of a log is dropped for want of an open file, whatever the          *)
(* interleaving of the tool's packets and vision's frames.                      *)
THEOREM FileWhileLogging == Spec => []LoggingHasFile
<1>1. Init => LoggingHasFile
  BY DEF Init, LoggingHasFile
<1>2. LoggingHasFile /\ TypeOK /\ [Next]_vars => LoggingHasFile'
  <2> SUFFICES ASSUME LoggingHasFile, TypeOK, [Next]_vars PROVE LoggingHasFile'
    OBVIOUS
  <2> USE DEF LoggingHasFile, VisionGoto, history
  <2>1. CASE Udp
    <3>1. CASE EnableLogging \/ EnableMemoryLogging
      BY <3>1 DEF EnableLogging, EnableMemoryLogging
    <3>2. CASE OpenLog
      BY <3>2 DEF OpenLog
    <3>3. CASE StartDisableLogging
      BY <3>3, Zenon DEF StartDisableLogging
    <3> QED
      BY <2>1, <3>1, <3>2, <3>3 DEF Udp
  <2>2. CASE Tool
    <3>1. is_logging_' = is_logging_ /\ file' = file /\ vpc' = vpc /\ upc = "idle"
      BY <2>2, Zenon DEF Tool, LogBegin, LogEnd
    <3> QED
      BY <3>1, Zenon
  <2>3. CASE SkipLog \/ CountFrame \/ CheckDisable
    BY <2>3 DEF SkipLog, CountFrame, CheckDisable
  <2>4. CASE WriteMemory
    BY <2>4 DEF WriteMemory, TypeOK
  <2>5. CASE CloseLog \/ ClearFlags
    BY <2>5 DEF CloseLog, ClearFlags
  <2>6. CASE ZeroFrames \/ SendLogComplete
    BY <2>6 DEF ZeroFrames, SendLogComplete
  <2>7. CASE UNCHANGED vars
    BY <2>7 DEF vars
  <2> QED
    BY <2>1, <2>2, <2>3, <2>4, <2>5, <2>6, <2>7 DEF Next, Vision
<1> QED
  BY <1>1, <1>2, LoggingTypeCorrect, PTL DEF Spec

(* The strengthening BudgetInv is inductive. *)
LEMMA BudgetInductive == Spec => []BudgetInv
<1>1. Init => BudgetInv
  BY DEF Init, BudgetInv, Limited, Opened, InCount
<1>2. BudgetInv /\ TypeOK /\ [Next]_vars => BudgetInv'
  <2> SUFFICES ASSUME BudgetInv, TypeOK, [Next]_vars PROVE BudgetInv'
    OBVIOUS
  <2> USE DEF BudgetInv, TypeOK, Limited, Opened, InCount, VisionGoto, history
  <2>1. CASE EnableLogging \/ EnableMemoryLogging
    BY <2>1 DEF EnableLogging, EnableMemoryLogging
  <2>2. CASE OpenLog
    BY <2>2 DEF OpenLog
  <2>3. CASE StartDisableLogging
    BY <2>3 DEF StartDisableLogging
  <2>4. CASE LogBegin
    BY <2>4 DEF LogBegin
  <2>5. CASE LogEnd
    BY <2>5 DEF LogEnd
  <2>6. CASE SkipLog
    BY <2>6 DEF SkipLog
  <2>7. CASE WriteMemory
    BY <2>7 DEF WriteMemory
  <2>8. CASE CountFrame
    BY <2>8 DEF CountFrame, Decrement, LastFrame
  <2>9. CASE CheckDisable
    BY <2>9 DEF CheckDisable
  <2>10. CASE CloseLog
    BY <2>10 DEF CloseLog
  <2>11. CASE ClearFlags
    BY <2>11 DEF ClearFlags
  <2>12. CASE ZeroFrames
    BY <2>12 DEF ZeroFrames
  <2>13. CASE SendLogComplete
    BY <2>13 DEF SendLogComplete
  <2>14. CASE UNCHANGED vars
    BY <2>14 DEF vars
  <2> QED
    BY <2>1, <2>2, <2>3, <2>4, <2>5, <2>6, <2>7, <2>8, <2>9, <2>10, <2>11, <2>12,
       <2>13, <2>14 DEF Next, Udp, Tool, Vision
<1> QED
  BY <1>1, <1>2, LoggingTypeCorrect, PTL DEF Spec

(* The account of frames is inductive, with what the two facts above say of the *)
(* file and of where vision may be when a log begins.                           *)
LEMMA AccountInductive == Spec => []AccountInv
<1>1. Init => AccountInv
  BY DEF Init, AccountInv, Counted, Opened, InCount
<1>2. AccountInv /\ BudgetInv /\ LoggingHasFile /\ TypeOK /\ [Next]_vars => AccountInv'
  <2> SUFFICES ASSUME AccountInv, BudgetInv, LoggingHasFile, TypeOK, [Next]_vars PROVE AccountInv'
    OBVIOUS
  <2>0. vpc \in {"count", "close", "clear"} => is_logging_
    BY DEF BudgetInv
  <2> USE DEF AccountInv, TypeOK, Counted, Opened, InCount, VisionGoto, history
  <2>1. CASE EnableLogging \/ EnableMemoryLogging
    BY <2>1 DEF EnableLogging, EnableMemoryLogging
  <2>2. CASE OpenLog
    BY <2>2 DEF OpenLog
  <2>3. CASE StartDisableLogging
    BY <2>3 DEF StartDisableLogging
  <2>4. CASE LogBegin
    BY <2>0, <2>4 DEF LogBegin
  <2>5. CASE LogEnd
    BY <2>5 DEF LogEnd
  <2>6. CASE SkipLog
    BY <2>6 DEF SkipLog
  <2>7. CASE WriteMemory
    <3>1. /\ vpc = "frame" /\ vpc' = "count" /\ is_logging_
          /\ UNCHANGED <<is_logging_, log_by_frame_, frames_to_log_, upc, asked, wrapped, zeroed>>
      BY <2>7 DEF WriteMemory
    <3>2. upc # "enable"
      BY <3>1 DEF BudgetInv
    <3>3. CASE upc \in {"memory", "open"}
      <4>1. lost' = lost + 1
        BY <2>7, <3>3 DEF WriteMemory
      <4> QED
        BY <3>1, <3>3, <4>1
    <3>4. CASE Opened
      <4>1. file.open
        BY <3>1, <3>4 DEF LoggingHasFile
      <4>2. lost' = lost /\ file'.written = file.written + 1
        BY <2>7, <3>4, <4>1 DEF WriteMemory
      <4> QED
        BY <3>1, <3>4, <4>2
    <3> QED
      BY <3>2, <3>3, <3>4
  <2>8. CASE CountFrame
    BY <2>0, <2>8 DEF CountFrame, Decrement, LastFrame
  <2>9. CASE CheckDisable
    BY <2>9 DEF CheckDisable
  <2>10. CASE CloseLog
    BY <2>10 DEF CloseLog
  <2>11. CASE ClearFlags
    BY <2>11 DEF ClearFlags
  <2>12. CASE ZeroFrames
    BY <2>12 DEF ZeroFrames
  <2>13. CASE SendLogComplete
    BY <2>13 DEF SendLogComplete
  <2>14. CASE UNCHANGED vars
    BY <2>14 DEF vars
  <2> QED
    BY <2>1, <2>2, <2>3, <2>4, <2>5, <2>6, <2>7, <2>8, <2>9, <2>10, <2>11, <2>12,
       <2>13, <2>14 DEF Next, Udp, Tool, Vision
<1> QED
  BY <1>1, <1>2, LoggingTypeCorrect, FileWhileLogging, BudgetInductive, PTL DEF Spec

(* A limited log holds every frame counted for it, but for those that vision    *)
(* counted before the UDP thread had opened the file.                           *)
THEOREM FramesOnTheBooks == Spec => []FramesAccounted
<1>1. AccountInv /\ TypeOK => FramesAccounted
  BY DEF AccountInv, TypeOK, FramesAccounted, Counted, Opened, InCount
<1> QED
  BY <1>1, AccountInductive, LoggingTypeCorrect, PTL

(* A log of n frames gets at most n, unless the unsigned counter wrapped round. *)
THEOREM LogWithinCount == Spec => []NeverOverfull
<1>1. BudgetInv /\ TypeOK => NeverOverfull
  BY DEF BudgetInv, TypeOK, NeverOverfull, Limited, Opened, InCount
<1> QED
  BY <1>1, BudgetInductive, LoggingTypeCorrect, PTL
=============================================================================
