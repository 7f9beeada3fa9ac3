---------------------------- MODULE Interpreter -----------------------------
(***************************************************************************)
(* The python interpreter of the vision process and the two threads that   *)
(* use it: vision's thread, which starts it, runs a frame in it, and       *)
(* restarts it (core/python/PythonModule.cpp), and the thread that listens *)
(* to the tool (CommunicationModule::listenToolUDP), which asks for a      *)
(* restart and runs a behaviour.  PythonInterface serialises what they do  *)
(* inside python with PY_MUTEX; is_ok_, pyface_ and restart_requested_ are *)
(* read and written without it.                                            *)
(*                                                                         *)
(* A restart also ends the listening thread and starts another one         *)
(* (InterpreterModule::readConfig, UDPWrapper).  When vision dies          *)
(* data/scripts/restart_processes.sh starts it again.                      *)
(***************************************************************************)

VARIABLES
  vpc,                \* vision's thread
  inRestart,          \* it is in PythonModule::restart
  upc,                \* the listening thread; "none" before there is one
  destruct_,          \* UDPWrapper::destruct_ of the tool's socket
  mutex,              \* PY_MUTEX: "free" or "vision"
  pyface_,            \* "null" or "live"
  is_ok_,
  restart_requested_,
  armed,              \* interpreter_restart_requested_ is set
  interpreter,        \* there is a current interpreter (Py_NewInterpreter .. Py_EndInterpreter)
  bvr,                \* the behaviour loaded in it: "none", "sample", "asked"
  behaviorLoaded,     \* init.behaviorLoaded
  (* history *)
  overlap,            \* a RunBehavior met an interpreter that was broken or not up
  request,            \* the last restart asked for: "none", "asked", or "late", after the
                      \* interpreter was renewed and before the request was cleared
  chosen              \* a RunBehavior was executed after the first frame of this interpreter

interpreterVars == <<vpc, inRestart, upc, destruct_, mutex, pyface_, is_ok_, restart_requested_, armed,
          interpreter, bvr, behaviorLoaded, overlap, request, chosen>>

visionVars == <<vpc, inRestart>>
pythonVars == <<interpreter, bvr, behaviorLoaded, chosen>>

(* A new process. *)
PythonInit ==
  /\ vpc = "config" /\ inRestart = FALSE
  /\ upc = "none" /\ destruct_ = FALSE
  /\ mutex = "free"
  /\ pyface_ = "null" /\ is_ok_ = TRUE
  /\ restart_requested_ = FALSE /\ armed = FALSE
  /\ interpreter = FALSE /\ bvr = "none" /\ behaviorLoaded = FALSE
  /\ overlap = FALSE /\ request = "none" /\ chosen = FALSE

(* A call through a null pointer, or into python without an interpreter. *)
Die == vpc' = "dead" /\ upc' = "none"

-----------------------------------------------------------------------------
(* Vision's thread.  PythonModule::start: readConfig, which ends the listener   *)
(* of the last start and waits for it, ...                                      *)
ReadConfig ==
  /\ vpc = "config"
  /\ vpc' = "join" /\ inRestart' = FALSE
  /\ destruct_' = TRUE
  /\ UNCHANGED <<upc, mutex, pyface_, is_ok_, restart_requested_, armed, pythonVars,
                 overlap, request>>

InitUDP ==
  /\ vpc = "join" /\ upc \in {"none", "ended"}
  /\ vpc' = "create"
  /\ upc' = "recv" /\ destruct_' = FALSE
  /\ UNCHANGED <<inRestart, mutex, pyface_, is_ok_, restart_requested_, armed, pythonVars,
                 overlap, request>>

(* ... an interpreter if there is none, ... *)
CreateInterface ==
  /\ vpc = "create"
  /\ pyface_' = "live"
  /\ vpc' = IF pyface_ = "null" THEN "init" ELSE "clear"
  /\ UNCHANGED <<inRestart, upc, destruct_, mutex, is_ok_, restart_requested_, armed, pythonVars,
                 overlap, request>>

(* ... and the request cleared.  VisionCore::initModules then lets the tool ask; *)
(* a restart goes on with its frame.                                            *)
ClearRequest ==
  /\ vpc = "clear"
  /\ vpc' = IF armed THEN "call" ELSE "frame"
  /\ restart_requested_' = FALSE /\ armed' = TRUE
  /\ UNCHANGED <<inRestart, upc, destruct_, mutex, pyface_, is_ok_, pythonVars, overlap, request>>

(* PythonInterface::Init.  It leaves is_ok_ false until init() has returned. *)
InitBegin ==
  /\ vpc = "init" /\ mutex = "free"
  /\ \/ pyface_ = "null" /\ Die /\ UNCHANGED <<mutex, is_ok_, pythonVars, request>>
     \/ /\ pyface_ = "live"
        /\ vpc' = "initializing" /\ mutex' = "vision"
        /\ is_ok_' = FALSE
        /\ interpreter' = TRUE /\ bvr' = "none" /\ behaviorLoaded' = FALSE
        /\ chosen' = FALSE /\ request' = "none"
        /\ UNCHANGED upc
  /\ UNCHANGED <<inRestart, destruct_, pyface_, restart_requested_, armed, overlap>>

InitEnd ==
  /\ vpc = "initializing"
  /\ vpc' = IF inRestart THEN "config" ELSE "clear"
  /\ is_ok_' \in BOOLEAN   \* an error in init() leaves it false
  /\ mutex' = "free"
  /\ UNCHANGED <<inRestart, upc, destruct_, pyface_, restart_requested_, armed, pythonVars,
                 overlap, request>>

(* PythonModule::processFrame: a restart first, if one is asked for, ... *)
Restarts_UnlessBroken == restart_requested_ /\ is_ok_
Restarts == restart_requested_

ProcessFrame ==
  /\ vpc = "frame"
  /\ vpc' = (IF Restarts THEN "finalize" ELSE "call") /\ inRestart' = Restarts
  /\ UNCHANGED <<upc, destruct_, mutex, pyface_, is_ok_, restart_requested_, armed, pythonVars,
                 overlap, request>>

(* ... then the frame, also after a restart, unless python is broken; checkPython *)
(* would throw a broken interpreter away.                                         *)
Calls_Always == TRUE
Calls == is_ok_

CallFrame ==
  /\ vpc = "call"
  /\ vpc' = IF Calls /\ is_ok_ THEN "exec" ELSE "frame"
  /\ pyface_' = IF Calls /\ ~is_ok_ THEN "null" ELSE pyface_
  /\ UNCHANGED <<inRestart, upc, destruct_, mutex, is_ok_, restart_requested_, armed, pythonVars,
                 overlap, request>>

(* PythonInterface::Finalize. *)

Finalize ==
  /\ vpc = "finalize" /\ mutex = "free"
  /\ \/ pyface_ = "null" /\ Die /\ UNCHANGED interpreter
     \/ pyface_ = "live" /\ vpc' = "init" /\ interpreter' = FALSE /\ UNCHANGED upc
  /\ UNCHANGED <<inRestart, destruct_, mutex, pyface_, is_ok_, restart_requested_, armed,
                 bvr, behaviorLoaded, overlap, request, chosen>>

(* init.processBehaviorFrame loads sample in the first frame. *)
BehaviorOfFrame == IF behaviorLoaded THEN bvr ELSE "sample"

(* PythonInterface::Execute of a frame. *)
ExecuteBegin ==
  /\ vpc = "exec" /\ mutex = "free"
  /\ \/ pyface_ = "null" /\ Die /\ UNCHANGED <<mutex, bvr, behaviorLoaded>>
     \/ /\ pyface_ = "live"
        /\ vpc' = "executing" /\ mutex' = "vision"
        /\ bvr' = BehaviorOfFrame /\ behaviorLoaded' = TRUE
        /\ UNCHANGED upc
  /\ UNCHANGED <<inRestart, destruct_, pyface_, is_ok_, restart_requested_, armed,
                 interpreter, overlap, request, chosen>>

(* An exception in it: init.handle. *)
PythonError ==
  /\ vpc = "executing" /\ is_ok_
  /\ is_ok_' = FALSE
  /\ UNCHANGED <<visionVars, upc, destruct_, mutex, pyface_, restart_requested_, armed, pythonVars,
                 overlap, request>>

ExecuteEnd ==
  /\ vpc = "executing"
  /\ vpc' = "frame" /\ mutex' = "free"
  /\ UNCHANGED <<inRestart, upc, destruct_, pyface_, is_ok_, restart_requested_, armed, pythonVars,
                 overlap, request>>

-----------------------------------------------------------------------------
(* The listening thread.  After a packet it looks at destruct_. *)
NextPacket == IF destruct_ THEN "ended" ELSE "recv"

(* The packet UDPWrapper's destructor sends to itself. *)
ReceiveEmptyPacket_NotSent == FALSE

ReceiveEmptyPacket ==
  /\ upc = "recv" /\ destruct_
  /\ upc' = "ended"
  /\ UNCHANGED <<visionVars, destruct_, mutex, pyface_, is_ok_, restart_requested_, armed,
                 pythonVars, overlap, request>>

RestartInterpreter ==
  /\ upc = "recv"
  /\ upc' = NextPacket
  /\ restart_requested_' = (restart_requested_ \/ armed)
  /\ request' = CASE ~armed -> request
                  [] armed /\ vpc \in {"initializing", "config", "join", "create", "clear"} -> "late"
                  [] OTHER -> "asked"
  /\ UNCHANGED <<visionVars, destruct_, mutex, pyface_, is_ok_, armed, pythonVars, overlap>>

RunBehavior ==
  /\ upc = "recv"
  /\ upc' = "check"
  /\ UNCHANGED <<visionVars, destruct_, mutex, pyface_, is_ok_, restart_requested_, armed,
                 pythonVars, overlap, request>>

(* Vision is in its loop with python running. *)
Up == vpc \in {"frame", "call", "exec", "executing"} /\ is_ok_

(* PythonModule::call, from this thread: checkPython, ... *)
CheckPython ==
  /\ upc = "check"
  /\ upc' = CASE is_ok_ -> "exec"
              [] ~is_ok_ /\ pyface_ = "live" -> "delete"
              [] OTHER -> NextPacket
  /\ overlap' = (overlap \/ ~Up)
  /\ UNCHANGED <<visionVars, destruct_, mutex, pyface_, is_ok_, restart_requested_, armed,
                 pythonVars, request>>

DeleteInterface ==
  /\ upc = "delete"
  /\ upc' = NextPacket
  /\ pyface_' = "null"
  /\ UNCHANGED <<visionVars, destruct_, mutex, is_ok_, restart_requested_, armed,
                 pythonVars, overlap, request>>

(* ... and Execute, which needs a current interpreter. *)
ExecuteBehavior ==
  /\ upc = "exec" /\ mutex = "free"
  /\ overlap' = (overlap \/ ~Up)
  /\ \/ (pyface_ = "null" \/ ~interpreter) /\ Die /\ UNCHANGED <<inRestart, bvr, chosen>>
     \/ /\ pyface_ = "live" /\ interpreter
        /\ upc' = NextPacket
        /\ bvr' = "asked" /\ chosen' = behaviorLoaded
        /\ UNCHANGED visionVars
  /\ UNCHANGED <<destruct_, mutex, pyface_, is_ok_, restart_requested_, armed, interpreter,
                 behaviorLoaded, request>>

-----------------------------------------------------------------------------
(* restart_processes.sh. *)
StartAgain ==
  /\ vpc = "dead"
  /\ vpc' = "config" /\ inRestart' = FALSE
  /\ upc' = "none" /\ destruct_' = FALSE /\ mutex' = "free"
  /\ pyface_' = "null" /\ is_ok_' = TRUE
  /\ restart_requested_' = FALSE /\ armed' = FALSE
  /\ interpreter' = FALSE /\ bvr' = "none" /\ behaviorLoaded' = FALSE
  /\ overlap' = FALSE /\ request' = "none" /\ chosen' = FALSE

VisionStep ==
  \/ ReadConfig \/ InitUDP \/ CreateInterface \/ ClearRequest \/ InitBegin \/ InitEnd
  \/ ProcessFrame \/ CallFrame \/ Finalize \/ ExecuteBegin \/ ExecuteEnd

ListenerStep == ReceiveEmptyPacket \/ CheckPython \/ DeleteInterface \/ ExecuteBehavior

Packet == RestartInterpreter \/ RunBehavior

PythonNext == VisionStep \/ PythonError \/ ListenerStep \/ Packet \/ StartAgain

PythonSpec == PythonInit /\ [][PythonNext]_interpreterVars

(* Both threads run on, and the script looks for dead processes.  The tool need *)
(* not send anything, and python need not fail.                                 *)
FairPython ==
  PythonSpec /\ WF_interpreterVars(VisionStep) /\ WF_interpreterVars(ListenerStep) /\ WF_interpreterVars(StartAgain)

-----------------------------------------------------------------------------
(* Properties. *)

PythonTypeOK ==
  /\ vpc \in {"config", "join", "create", "clear", "init", "initializing", "frame", "call",
              "finalize", "exec", "executing", "dead"}
  /\ upc \in {"none", "recv", "check", "delete", "exec", "ended"}
  /\ mutex \in {"free", "vision"} /\ pyface_ \in {"null", "live"}
  /\ {inRestart, destruct_, is_ok_, restart_requested_, armed, interpreter, behaviorLoaded,
      overlap, chosen} \subseteq BOOLEAN
  /\ bvr \in {"none", "sample", "asked"} /\ request \in {"none", "asked", "late"}

(* Vision dies here only when the tool ran a behaviour while python was broken, *)
(* starting or restarting: no order of frames, python errors and restarts alone *)
(* reaches an interpreter that is not there.                                    *)
DiesOnlyByRunBehavior == vpc = "dead" => overlap

(* A frame runs in a live interpreter, under the mutex, whatever the listener   *)
(* does meanwhile, unless the listener threw the interpreter away.              *)
RunsInInterpreter ==
  vpc \in {"exec", "executing"} => interpreter /\ (pyface_ = "live" \/ overlap)

(* The behaviour the tool chose stays, unless it was chosen before the first    *)
(* frame of its interpreter: that frame loads sample over it.                   *)
ChosenBehaviorStays == chosen => bvr = "asked"

(* The invariant: the types; who may reach an interpreter that is not there; and *)
(* what runs in the one that is.                                                 *)
InterpreterInv == PythonTypeOK /\ DiesOnlyByRunBehavior /\ RunsInInterpreter /\ ChosenBehaviorStays

(* A restart that is asked for renews the interpreter, python broken or not,    *)
(* unless the request came while the last one was being completed: clearing     *)
(* that one clears it too.                                                      *)
RestartHonoured == request = "asked" ~> request # "asked" \/ vpc = "dead"

(* A restart waits for the listener with no way for it to wait for the restart. *)
RestartEnds == vpc = "join" ~> vpc # "join"
=============================================================================
