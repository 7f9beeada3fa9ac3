--------------------------- MODULE VisionLogging ----------------------------
(***************************************************************************)
(* Logging of memory to a file on the robot (core/VisionCore.cpp): the     *)
(* thread that listens to the tool's UDP packets starts and ends a log,    *)
(* the vision thread writes it and closes it.  The two share is_logging_,  *)
(* disable_log_, log_by_frame_, frames_to_log_ and the LogWriter without a *)
(* lock, so an action here is a piece of the code in which a thread        *)
(* touches the shared state once.                                          *)
(*                                                                         *)
(* A frame that is not due (the interval, a moving head, a required object *)
(* that is not seen) is a nondeterministic choice.  The text log is opened *)
(* and closed with the file and is left out.                               *)
(***************************************************************************)
EXTENDS Integers

CONSTANTS
  FrameCounts,   \* frame counts the tool asks for; 0 is "no limit"
  UIntRange,     \* number of values of frames_to_log_, 2^32 in the code
  MaxWritten     \* bound: frames written to one file

ASSUME FrameCountsAssumption == FrameCounts \subseteq Nat
ASSUME UIntRangeAssumption == UIntRange \in Nat \ {0}
ASSUME MaxWrittenAssumption == MaxWritten \in Nat
ASSUME WidthAssumption == \A n \in FrameCounts : n < UIntRange

VARIABLES
  is_logging_, disable_log_, log_by_frame_, frames_to_log_,
  file,   \* log_file_: whether it is open, and the frames it holds
  upc,    \* the UDP thread: "idle", "enable", "memory", "open", "end"
  vpc,    \* the vision thread: "frame", "count", "check", "close", "clear", "zero", "respond"
  (* history *)
  asked,  \* frames asked for by the last LogBegin that was accepted
  owed,   \* a LogEnd that found a log being made has not been answered
  wrapped,\* frames_to_log_ has gone below 0 since
  lost,   \* frames counted since before the log's own file was open
  zeroed  \* the end of the last log has zeroed its frames_to_log_

history == <<asked, owed, wrapped, lost, zeroed>>
vars == <<is_logging_, disable_log_, log_by_frame_, frames_to_log_, file, upc, vpc,
          history>>

Init ==
  /\ is_logging_ = FALSE /\ disable_log_ = FALSE
  /\ log_by_frame_ \in BOOLEAN          \* not initialised by the constructor
  /\ frames_to_log_ = 0
  /\ file = [open |-> FALSE, written |-> 0]
  /\ upc = "idle" /\ vpc = "frame"
  /\ asked = 0 /\ owed = FALSE /\ wrapped = FALSE /\ lost = 0 /\ zeroed = FALSE

-----------------------------------------------------------------------------
(* The UDP thread, CommunicationModule::listenToolUDP. *)

(* LogBegin: enableLogging(frames, frequency); refused while a log is made. *)
LogBegin ==
  /\ upc = "idle" /\ ~is_logging_
  /\ upc' = "enable"
  /\ \E n \in FrameCounts :
       /\ log_by_frame_' = (n > 0)
       /\ frames_to_log_' = n
       /\ asked' = n
  /\ wrapped' = FALSE /\ lost' = 0 /\ zeroed' = FALSE
  /\ UNCHANGED <<is_logging_, disable_log_, file, vpc, owed>>

(* enableLogging(): the flag is set before the file is opened. *)
EnableLogging ==
  /\ upc = "enable" /\ ~is_logging_
  /\ upc' = "memory"
  /\ is_logging_' = TRUE
  /\ UNCHANGED <<disable_log_, log_by_frame_, frames_to_log_, file, vpc, history>>

(* enableMemoryLogging sets it again: vision may have ended the log meanwhile, *)
(* on a disable_log_ that was left over.                                       *)
EnableMemoryLogging ==
  /\ upc = "memory"
  /\ upc' = "open"
  /\ is_logging_' = TRUE
  /\ UNCHANGED <<disable_log_, log_by_frame_, frames_to_log_, file, vpc, history>>

(* LogWriter::open, which closes any log left open. *)
OpenLog ==
  /\ upc = "open"
  /\ upc' = "idle"
  /\ file' = [open |-> TRUE, written |-> 0]
  /\ UNCHANGED <<is_logging_, disable_log_, log_by_frame_, frames_to_log_, vpc, history>>

(* LogEnd: startDisableLogging tests is_logging_, then sets disable_log_; when   *)
(* no log is made it answers LogComplete at once, which changes nothing here.    *)
LogEnd ==
  /\ upc = "idle" /\ is_logging_
  /\ upc' = "end"
  /\ owed' = TRUE
  /\ UNCHANGED <<is_logging_, disable_log_, log_by_frame_, frames_to_log_, file, vpc,
                 asked, wrapped, lost, zeroed>>

StartDisableLogging ==
  /\ upc = "end"
  /\ upc' = "idle"
  /\ disable_log_' = TRUE
  /\ UNCHANGED <<is_logging_, log_by_frame_, frames_to_log_, file, vpc, history>>

-----------------------------------------------------------------------------
(* The vision thread, VisionCore::processVisionFrame. *)

VisionGoto(from, to) == vpc = from /\ vpc' = to

(* optionallyWriteLog: the early returns. *)
SkipLog ==
  /\ VisionGoto("frame", "check")
  /\ UNCHANGED <<is_logging_, disable_log_, log_by_frame_, frames_to_log_, file, upc, history>>

(* optionallyWriteLog: LogWriter::writeMemory writes only to an open file, which *)
(* may still be that of a log that ended while it was opened.                    *)
WriteMemory ==
  /\ VisionGoto("frame", "count")
  /\ is_logging_ /\ file.written < MaxWritten /\ lost < MaxWritten
  /\ file' = IF file.open THEN [file EXCEPT !.written = @ + 1] ELSE file
  /\ lost' = IF upc \in {"memory", "open"} THEN lost + 1 ELSE lost
  /\ UNCHANGED <<is_logging_, disable_log_, log_by_frame_, frames_to_log_, upc,
                 asked, owed, wrapped, zeroed>>

(* optionallyWriteLog: frames_to_log_ is unsigned. *)
Decrement(n) == IF n = 0 THEN UIntRange - 1 ELSE n - 1

LastFrame(left) == left = 0

CountFrame_IfOpen ==
  /\ VisionGoto("count", "check")
  /\ frames_to_log_' = IF log_by_frame_ /\ file.open THEN Decrement(frames_to_log_) ELSE frames_to_log_
  /\ disable_log_' = (disable_log_ \/ (log_by_frame_ /\ LastFrame(frames_to_log_')))
  /\ wrapped' = (wrapped \/ (log_by_frame_ /\ frames_to_log_ = 0))
  /\ UNCHANGED <<is_logging_, log_by_frame_, file, upc, asked, owed, lost, zeroed>>
CountFrame_Assigns ==
  /\ VisionGoto("count", "check")
  /\ frames_to_log_' = IF log_by_frame_ THEN Decrement(frames_to_log_) ELSE frames_to_log_
  /\ disable_log_' = (log_by_frame_ /\ LastFrame(frames_to_log_'))
  /\ wrapped' = (wrapped \/ (log_by_frame_ /\ frames_to_log_ = 0))
  /\ UNCHANGED <<is_logging_, log_by_frame_, file, upc, asked, owed, lost, zeroed>>
CountFrame ==
  /\ VisionGoto("count", "check")
  /\ frames_to_log_' = IF log_by_frame_ THEN Decrement(frames_to_log_) ELSE frames_to_log_
  /\ disable_log_' = (disable_log_ \/ (log_by_frame_ /\ LastFrame(frames_to_log_')))
  /\ wrapped' = (wrapped \/ (log_by_frame_ /\ frames_to_log_ = 0))
  /\ UNCHANGED <<is_logging_, log_by_frame_, file, upc, asked, owed, lost, zeroed>>

(* if (is_logging_ && disable_log_). *)
CheckDisable ==
  /\ vpc = "check"
  /\ IF is_logging_ /\ disable_log_
     THEN vpc' = "close" /\ disable_log_' = FALSE
     ELSE vpc' = "frame" /\ UNCHANGED disable_log_
  /\ UNCHANGED <<is_logging_, log_by_frame_, frames_to_log_, file, upc, history>>

(* disableLogging: LogWriter::close, then the flags, then the counter. *)
CloseLog ==
  /\ VisionGoto("close", "clear")
  /\ file' = [file EXCEPT !.open = FALSE]
  /\ UNCHANGED <<is_logging_, disable_log_, log_by_frame_, frames_to_log_, upc, history>>

ClearFlags ==
  /\ VisionGoto("clear", "zero")
  /\ disable_log_' = FALSE
  /\ is_logging_' = FALSE
  /\ UNCHANGED <<log_by_frame_, frames_to_log_, file, upc, history>>

ZeroFrames_ClosesAgain ==
  /\ VisionGoto("zero", "respond")
  /\ frames_to_log_' = 0
  /\ zeroed' = (is_logging_ \/ upc # "idle")
  /\ file' = [file EXCEPT !.open = FALSE]
  /\ UNCHANGED <<is_logging_, disable_log_, log_by_frame_, upc, asked, owed, wrapped, lost>>
ZeroFrames ==
  /\ VisionGoto("zero", "respond")
  /\ frames_to_log_' = 0
  /\ zeroed' = (is_logging_ \/ upc # "idle")
  /\ UNCHANGED <<is_logging_, disable_log_, log_by_frame_, file, upc, asked, owed, wrapped, lost>>

(* sendToolResponse(LogComplete), and the next frame. *)
SendLogComplete ==
  /\ VisionGoto("respond", "frame")
  /\ owed' = FALSE
  /\ UNCHANGED <<is_logging_, disable_log_, log_by_frame_, frames_to_log_, file, upc,
                 asked, wrapped, lost, zeroed>>

-----------------------------------------------------------------------------
Udp == EnableLogging \/ EnableMemoryLogging \/ OpenLog \/ StartDisableLogging
Tool == LogBegin \/ LogEnd
Vision == SkipLog \/ WriteMemory \/ CountFrame \/ CheckDisable \/ CloseLog \/ ClearFlags
            \/ ZeroFrames \/ SendLogComplete

Next == Udp \/ Tool \/ Vision

Spec == Init /\ [][Next]_vars

(* Both threads run for ever; the tool need not send anything. *)
FairSpec == Spec /\ WF_vars(Udp) /\ WF_vars(Vision)

-----------------------------------------------------------------------------
(* Properties. *)

(* The type invariant. *)
TypeOK ==
  /\ is_logging_ \in BOOLEAN /\ disable_log_ \in BOOLEAN /\ log_by_frame_ \in BOOLEAN
  /\ frames_to_log_ \in 0..(UIntRange - 1)
  /\ file \in [open : BOOLEAN, written : Nat]
  /\ upc \in {"idle", "enable", "memory", "open", "end"}
  /\ vpc \in {"frame", "count", "check", "close", "clear", "zero", "respond"}
  /\ asked \in Nat /\ owed \in BOOLEAN /\ wrapped \in BOOLEAN
  /\ lost \in Nat /\ zeroed \in BOOLEAN

(* While a log is made there is an open file, so that no frame is dropped,      *)
(* except while the UDP thread is about to open it or vision has just closed    *)
(* it: a LogBegin cannot fall between vision's close and its clearing of        *)
(* is_logging_ and lose the file it opened.                                     *)
LoggingHasFile ==
  is_logging_ /\ upc \notin {"memory", "open"} /\ vpc # "clear" => file.open

(* A log of n frames never gets another one, unless frames_to_log_ has wrapped  *)
(* around (which takes a LogBegin that comes between vision's clearing of       *)
(* is_logging_ and of frames_to_log_).                                          *)
NeverOverfull ==
  is_logging_ /\ log_by_frame_ /\ upc = "idle" /\ ~wrapped =>
    file.written <= asked

(* A log that is limited gets every frame that was counted for it but those     *)
(* counted before its file was open, and its counter wraps round only if the    *)
(* end of the last log zeroed it.                                               *)
FramesAccounted ==
  /\ is_logging_ /\ log_by_frame_ /\ upc \in {"idle", "end"} /\ ~zeroed =>
       file.written + lost + frames_to_log_ = asked + (IF vpc = "count" THEN 1 ELSE 0)
  /\ wrapped /\ is_logging_ => zeroed

(* The strengthening of NeverOverfull: what is written and what is left make up the count, and   *)
(* a counter at 0 is either about to end the log or was zeroed before the first  *)
(* frame was written.                                                            *)
Limited == is_logging_ /\ log_by_frame_ /\ ~wrapped
Opened == upc \in {"idle", "end"}
InCount == IF vpc = "count" THEN 1 ELSE 0

BudgetInv ==
  /\ Limited => asked > 0 /\ frames_to_log_ <= asked
  /\ upc = "enable" => ~is_logging_
  /\ upc \in {"enable", "memory"} =>
       /\ ~wrapped => frames_to_log_ <= asked
       /\ log_by_frame_ => asked > 0
  /\ Limited /\ Opened =>
       /\ file.written + frames_to_log_ <= asked + InCount
       /\ frames_to_log_ = 0 =>
            \/ vpc \in {"close", "clear"}
            \/ vpc = "check" /\ disable_log_
            \/ file.written <= InCount
  /\ vpc \in {"zero", "respond"} /\ is_logging_ /\ Opened => file.written = 0
  /\ vpc \in {"count", "close", "clear"} => is_logging_

(* The strengthening of FramesAccounted: the account while the file is being    *)
(* opened, and where vision is when the counter is at 0.                        *)
Counted == log_by_frame_ /\ ~zeroed /\ (is_logging_ \/ upc \in {"enable", "memory", "open"})

AccountInv ==
  /\ Counted => (IF Opened THEN file.written ELSE 0) + lost + frames_to_log_ = asked + InCount
  /\ Counted /\ frames_to_log_ = 0 =>
       \/ vpc \in {"close", "clear", "zero"}
       \/ vpc = "check" /\ disable_log_ /\ is_logging_
  /\ wrapped /\ (is_logging_ \/ upc \in {"enable", "memory", "open"}) => zeroed

(* The tool is told LogComplete after every LogEnd, although vision may end the *)
(* log by itself between the UDP thread's test and its request, and resets      *)
(* disable_log_ twice.                                                          *)
LogEndAnswered == owed ~> ~owed
=============================================================================
