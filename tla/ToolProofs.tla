----------------------------- MODULE ToolProofs -----------------------------
(***************************************************************************)
(* Proofs about the two services the vision process gives the tool: the    *)
(* stream of memory (TCPStream) and the python interpreter it restarts and *)
(* runs behaviours in (Interpreter).                                       *)
(*                                                                         *)
(* BufferInv is inductive as it stands, because stopping_stream_ is set    *)
(* only while a stream thread exists; that each thread is joined before    *)
(* its object is assigned again needs the order of the restart, Restart.   *)
(* DiesOnlyByRunBehavior needs to know where the interpreter can be        *)
(* missing (InterpreterUp) and who can have deleted pyface_ (PyfaceUp).    *)
(***************************************************************************)
EXTENDS TCPStream, Interpreter, TLAPS

-----------------------------------------------------------------------------
(* The streaming buffer. *)

(* Every step of every thread keeps both ends of the buffer in order. *)
LEMMA StreamStep ==
  ASSUME BufferInv, [Next]_vars PROVE BufferInv'
<1> USE DEF BufferInv, TypeOK, BufferNotOverwritten, SendsFrames
<1>1. CASE StartServer
  BY <1>1 DEF StartServer, flags, streamVars, history
<1>2. CASE LoopTest
  BY <1>2 DEF LoopTest, MustRestart, flags, streamVars, history
<1>3. CASE LoopBlock
  BY <1>3 DEF LoopBlock, flags, streamVars, history
<1>4. CASE StopServer
  <2>1. {accepting_connections_, connection_established_, server_running_, peer,
         stopping_stream_, full, missed, overlooked}' \subseteq BOOLEAN
    BY <1>4 DEF StopServer, flags, streamVars, history
  <2> QED
    BY <1>4, <2>1 DEF StopServer, flags, streamVars, history
<1>5. CASE JoinServer
  <2>1. {accepting_connections_, connection_established_, server_running_, peer,
         stopping_stream_, full, missed, overlooked}' \subseteq BOOLEAN
    BY <1>5 DEF JoinServer, flags, streamVars, history
  <2> QED
    BY <1>5, <2>1 DEF JoinServer, flags, streamVars, history
<1>6. CASE JoinIo
  BY <1>6, ZenonT(60) DEF JoinIo, flags, streamVars, history
<1>7. CASE Accept
  <2>1. CASE io' = "callback" /\ UNCHANGED <<connection_established_, peer>>
    BY <1>7, <2>1 DEF Accept, streamVars, history
  <2>2. CASE io' = "established" /\ connection_established_' = TRUE /\ peer' = TRUE
    BY <1>7, <2>2 DEF Accept, streamVars, history
  <2> QED
    BY <1>7, <2>1, <2>2 DEF Accept
<1>8. CASE StopStream
  BY <1>8 DEF StopStream, flags, streamVars, history
<1>9. CASE NotifyStream
  BY <1>9 DEF NotifyStream, flags, streamVars, history
<1>10. CASE JoinStream
  BY <1>10, ZenonT(60) DEF JoinStream, flags, streamVars, history
<1>11. CASE SpawnStream
  BY <1>11 DEF SpawnStream, flags, streamVars, history
<1>12. CASE ServerStart
  BY <1>12 DEF ServerStart, flags, streamVars, history
<1>13. CASE ServerTest
  BY <1>13 DEF ServerTest, flags, streamVars, history
<1>14. CASE ServerBlock
  BY <1>14 DEF ServerBlock, flags, streamVars, history
<1>15. CASE StreamTop
  BY <1>15 DEF StreamTop, StreamGoto, flags, streamVars, history
<1>16. CASE StreamLock
  BY <1>16 DEF StreamLock, flags, streamVars, history
<1>17. CASE StreamTest
  BY <1>17 DEF StreamTest, StreamGoto, flags, streamVars, history
<1>18. CASE StreamPred
  BY <1>18 DEF StreamPred, StreamGoto, flags, streamVars, history
<1>19. CASE StreamBlock
  BY <1>19 DEF StreamBlock, StreamGoto, flags, streamVars, history
<1>20. CASE SendMessage
  <2>1. failed_messages_' \in 0..MaximumFailedMessages
    BY <1>20, FailedAssumption DEF SendMessage, MayFailAgain
  <2>2. CASE KeepConnection
    BY <1>20, <2>1, <2>2 DEF SendMessage, StreamGoto, KeepConnection
  <2>3. CASE ConnectionEnded
    <3>1. {accepting_connections_, connection_established_, server_running_, peer,
           stopping_stream_, full, missed, overlooked}' \subseteq BOOLEAN
      BY <1>20, <2>3 DEF SendMessage, ConnectionEnded
    <3> QED
      BY <1>20, <2>1, <2>3, <3>1 DEF SendMessage, StreamGoto, ConnectionEnded
  <2> QED
    BY <1>20, <2>2, <2>3 DEF SendMessage
<1>21. CASE ClearBuffer
  BY <1>21, ZenonT(60) DEF ClearBuffer, StreamGoto, flags, streamVars, history
<1>22. CASE VisionCheck
  BY <1>22 DEF VisionCheck, MayWrite, flags, streamVars, history
<1>23. CASE VisionWrite
  BY <1>23 DEF VisionWrite, flags, streamVars, history
<1>24. CASE VisionNotify
  BY <1>24 DEF VisionNotify, flags, streamVars, history
<1>25. CASE SpuriousWakeup
  BY <1>25 DEF SpuriousWakeup, flags, streamVars, history
<1>26. CASE Disconnect
  <2>1. {accepting_connections_, connection_established_, server_running_, peer,
         stopping_stream_, full, missed, overlooked}' \subseteq BOOLEAN
    BY <1>26 DEF Disconnect, flags, streamVars, history
  <2> QED
    BY <1>26, <2>1 DEF Disconnect, flags, streamVars, history
<1>27. CASE UNCHANGED vars
  BY <1>27 DEF vars, flags, streamVars, history
<1>28. CASE Accepted
  <2>1. {accepting_connections_, connection_established_, server_running_, peer,
         stopping_stream_, full, missed, overlooked}' \subseteq BOOLEAN
    BY <1>28 DEF Accepted, streamVars, history
  <2> QED
    BY <1>28, <2>1 DEF Accepted, streamVars, history
<1>29. CASE SpawnServer
  BY <1>29 DEF SpawnServer, flags, streamVars, history
<1>30. CASE Terminate
  BY <1>30 DEF Terminate, flags, history
<1> QED
  BY <1>1, <1>2, <1>3, <1>4, <1>5, <1>6, <1>7, <1>8, <1>9, <1>10, <1>11, <1>12,
     <1>13, <1>14, <1>15, <1>16, <1>17, <1>18, <1>19, <1>20, <1>21, <1>22, <1>23, <1>24,
     <1>25, <1>26, <1>27, <1>28, <1>29, <1>30
  DEF Next, Looper, Handler, Server, Stream, Vision

(* Vision never writes over a frame that has not been sent and the stream thread *)
(* never sends an empty buffer unless told to stop, for every number of failed   *)
(* messages and connections.                                                     *)
THEOREM StreamBuffer == Spec => []BufferInv
<1>1. Init => BufferInv
  <2>1. Init => {accepting_connections_, connection_established_, server_running_, peer,
                 stopping_stream_, full, missed, overlooked} \subseteq BOOLEAN
    BY DEF Init
  <2> QED
    BY <2>1, FailedAssumption DEF Init, BufferInv, TypeOK, BufferNotOverwritten, SendsFrames
<1>2. BufferInv /\ [Next]_vars => BufferInv'
  BY StreamStep
<1> QED
  BY <1>1, <1>2, PTL DEF Spec

-----------------------------------------------------------------------------
(* The threads and the mutex. *)

(* streaming_mutex_ is held exactly while the stream thread is between its lock  *)
(* and its unlock or wait.                                                       *)
MutexHeld ==
  streaming_mutex_ = "stream" <=> stream \in {"test", "pred", "block", "send", "clear"}

(* The order of a restart: the accept of one server is over before loop_server   *)
(* stops it, and both its threads are joined before the next one starts, but for *)
(* a server thread that stop_server overlooked.  Nothing outlives the process.   *)
Restart ==
  /\ io \in {"accept", "established"} => accepting_connections_
  /\ looper \in {"stop", "join_server", "join_io"} => ~accepting_connections_
  /\ looper \in {"start", "join_io"} => server = "none" \/ overlooked
  /\ ~Running => looper = "terminated"

(* The inductive invariant of the threads. *)
ThreadInv == ThreadsJoined /\ MutexHeld /\ Restart

(* Every step keeps the threads and the mutex in order. *)
LEMMA ThreadStep ==
  ASSUME BufferInv, ThreadInv, [Next]_vars PROVE ThreadInv'
<1> USE DEF BufferInv, TypeOK, ThreadInv, ThreadsJoined, MutexHeld, Restart, Running
<1>1. CASE StartServer
  BY <1>1 DEF StartServer, flags, streamVars, history
<1>2. CASE LoopTest
  BY <1>2 DEF LoopTest, MustRestart, flags, streamVars, history
<1>3. CASE LoopBlock
  BY <1>3 DEF LoopBlock, flags, streamVars, history
<1>4. CASE StopServer
  BY <1>4 DEF StopServer, flags, streamVars, history
<1>5. CASE JoinServer
  BY <1>5 DEF JoinServer, flags, streamVars, history
<1>6. CASE JoinIo
  BY <1>6 DEF JoinIo, flags, streamVars, history
<1>7. CASE Accept
  BY <1>7 DEF Accept, flags, streamVars, history
<1>8. CASE StopStream
  BY <1>8 DEF StopStream, flags, streamVars, history
<1>9. CASE NotifyStream
  BY <1>9 DEF NotifyStream, flags, streamVars, history
<1>10. CASE JoinStream
  BY <1>10 DEF JoinStream, flags, streamVars, history
<1>11. CASE SpawnStream
  BY <1>11 DEF SpawnStream, flags, streamVars, history
<1>12. CASE ServerStart
  BY <1>12 DEF ServerStart, flags, streamVars, history
<1>13. CASE ServerTest
  BY <1>13 DEF ServerTest, flags, streamVars, history
<1>14. CASE ServerBlock
  BY <1>14 DEF ServerBlock, flags, streamVars, history
<1>15. CASE StreamTop
  BY <1>15 DEF StreamTop, StreamGoto, flags, streamVars, history
<1>16. CASE StreamLock
  BY <1>16 DEF StreamLock, flags, streamVars, history
<1>17. CASE StreamTest
  BY <1>17 DEF StreamTest, StreamGoto, flags, streamVars, history
<1>18. CASE StreamPred
  BY <1>18 DEF StreamPred, StreamGoto, flags, streamVars, history
<1>19. CASE StreamBlock
  BY <1>19 DEF StreamBlock, StreamGoto, flags, streamVars, history
<1>20. CASE SendMessage
  BY <1>20, FailedAssumption
  DEF SendMessage, StreamGoto, KeepConnection, ConnectionEnded, MayFailAgain, flags,
      streamVars, history
<1>21. CASE ClearBuffer
  BY <1>21 DEF ClearBuffer, StreamGoto, flags, streamVars, history
<1>22. CASE VisionCheck
  BY <1>22 DEF VisionCheck, MayWrite, flags, streamVars, history
<1>23. CASE VisionWrite
  BY <1>23 DEF VisionWrite, flags, streamVars, history
<1>24. CASE VisionNotify
  BY <1>24 DEF VisionNotify, flags, streamVars, history
<1>25. CASE SpuriousWakeup
  BY <1>25 DEF SpuriousWakeup, flags, streamVars, history
<1>26. CASE Disconnect
  BY <1>26 DEF Disconnect, flags, streamVars, history
<1>27. CASE UNCHANGED vars
  BY <1>27 DEF vars, flags, streamVars, history
<1>28. CASE Accepted
  BY <1>28 DEF Accepted, streamVars, history
<1>29. CASE SpawnServer
  BY <1>29 DEF SpawnServer, flags, streamVars, history
<1>30. CASE Terminate
  BY <1>30 DEF Terminate, flags, history
<1> QED
  BY <1>1, <1>2, <1>3, <1>4, <1>5, <1>6, <1>7, <1>8, <1>9, <1>10, <1>11, <1>12,
     <1>13, <1>14, <1>15, <1>16, <1>17, <1>18, <1>19, <1>20, <1>21, <1>22, <1>23, <1>24,
     <1>25, <1>26, <1>27, <1>28, <1>29, <1>30
  DEF Next, Looper, Handler, Server, Stream, Vision

(* No thread object is assigned while its thread runs, unless stop_server looked *)
(* for the server thread before listener_handler had assigned it, and the mutex  *)
(* is held where the stream thread thinks it is: over any number of restarts of  *)
(* the server, lost notifications included.  With the streaming buffer this is   *)
(* all of StreamInv.                                                             *)
THEOREM ThreadsInOrder == Spec => [](StreamInv /\ MutexHeld)
<1>1. Init => ThreadInv
  BY DEF Init, ThreadInv, ThreadsJoined, MutexHeld, Restart, Running
<1>2. BufferInv /\ ThreadInv /\ [Next]_vars => ThreadInv'
  BY ThreadStep
<1>3. BufferInv /\ ThreadInv => StreamInv /\ MutexHeld
  BY DEF ThreadInv, StreamInv
<1> QED
  BY <1>1, <1>2, <1>3, StreamBuffer, PTL DEF Spec

-----------------------------------------------------------------------------
(* The python interpreter. *)

(* Vision has an interpreter from Py_NewInterpreter on, except between Finalize  *)
(* and Init; when it is started again it has one if it has a PythonInterface.    *)
InterpreterUp ==
  /\ vpc \in {"initializing", "clear", "frame", "call", "finalize", "exec", "executing"} =>
       interpreter
  /\ vpc \in {"config", "join", "create"} => interpreter \/ pyface_ = "null"

(* Only the listener deletes the PythonInterface, and it does so only when it    *)
(* has met a broken one.                                                         *)
PyfaceUp ==
  /\ upc = "delete" => overlap
  /\ pyface_ = "null" /\ ~overlap => vpc \in {"config", "join", "create"}

(* A behaviour counts as chosen only in an interpreter that has run a frame. *)
ChosenLate == chosen => behaviorLoaded

(* The inductive invariant of the interpreter. *)
PythonInv == InterpreterInv /\ InterpreterUp /\ PyfaceUp /\ ChosenLate

(* Every step keeps the invariant of the interpreter. *)
LEMMA PythonStep ==
  ASSUME PythonInv, [PythonNext]_interpreterVars PROVE PythonInv'
<1> USE DEF PythonInv, InterpreterUp, PyfaceUp, ChosenLate, InterpreterInv,
            PythonTypeOK, DiesOnlyByRunBehavior, RunsInInterpreter,
            ChosenBehaviorStays
<1>1. CASE ReadConfig
  BY <1>1, ZenonT(60) DEF ReadConfig, visionVars, pythonVars
<1>2. CASE InitUDP
  BY <1>2 DEF InitUDP, visionVars, pythonVars
<1>3. CASE CreateInterface
  BY <1>3 DEF CreateInterface, visionVars, pythonVars
<1>4. CASE ClearRequest
  BY <1>4, ZenonT(60) DEF ClearRequest, visionVars, pythonVars
<1>5. CASE InitBegin
  <2>1. CASE pyface_ = "null"
    BY <1>5, <2>1 DEF InitBegin, Die, pythonVars
  <2>2. CASE pyface_ = "live"
    <3>1. {inRestart, destruct_, is_ok_, restart_requested_, armed, interpreter, behaviorLoaded,
         overlap, chosen}' \subseteq BOOLEAN
      BY <1>5, <2>2 DEF InitBegin
    <3> QED
      BY <1>5, <2>2, <3>1 DEF InitBegin
  <2> QED
    BY <2>1, <2>2
<1>6. CASE InitEnd
  BY <1>6 DEF InitEnd, visionVars, pythonVars
<1>7. CASE ProcessFrame
  BY <1>7 DEF ProcessFrame, Restarts, visionVars, pythonVars
<1>8. CASE CallFrame
  BY <1>8 DEF CallFrame, Calls, visionVars, pythonVars
<1>9. CASE Finalize
  BY <1>9 DEF Finalize, Die, visionVars, pythonVars
<1>10. CASE ExecuteBegin
  BY <1>10
  DEF ExecuteBegin, Die, BehaviorOfFrame
<1>11. CASE ExecuteEnd
  BY <1>11 DEF ExecuteEnd, visionVars, pythonVars
<1>12. CASE PythonError
  BY <1>12, ZenonT(60) DEF PythonError, visionVars, pythonVars
<1>13. CASE ReceiveEmptyPacket
  BY <1>13 DEF ReceiveEmptyPacket, visionVars, pythonVars
<1>14. CASE CheckPython
  <2>1. {inRestart, destruct_, is_ok_, restart_requested_, armed, interpreter, behaviorLoaded,
         overlap, chosen}' \subseteq BOOLEAN
    BY <1>14 DEF CheckPython, Up, visionVars, pythonVars
  <2>2. upc' \in {"exec", "delete", "recv", "ended"} /\ (upc' = "delete" => ~is_ok_)
    BY <1>14 DEF CheckPython, NextPacket
  <2>3. (overlap => overlap') /\ (upc' = "delete" => overlap')
    BY <1>14, <2>2 DEF CheckPython, Up
  <2>4. UNCHANGED <<vpc, mutex, pyface_, interpreter, bvr, behaviorLoaded, request, chosen>>
    BY <1>14 DEF CheckPython, visionVars, pythonVars
  <2> QED
    BY <2>1, <2>2, <2>3, <2>4
<1>15. CASE DeleteInterface
  BY <1>15 DEF DeleteInterface, NextPacket, visionVars, pythonVars
<1>16. CASE ExecuteBehavior
  <2>1. {inRestart, destruct_, is_ok_, restart_requested_, armed, interpreter, behaviorLoaded,
         overlap, chosen}' \subseteq BOOLEAN
    BY <1>16 DEF ExecuteBehavior, Up, visionVars
  <2>2. CASE pyface_ = "null" \/ ~interpreter
    <3>1. overlap'
      BY <1>16, <2>2 DEF ExecuteBehavior, Up
    <3>2. vpc' = "dead" /\ upc' = "none"
          /\ UNCHANGED <<mutex, pyface_, interpreter, bvr, behaviorLoaded, request, chosen>>
      BY <1>16, <2>2 DEF ExecuteBehavior, Die
    <3> QED
      BY <2>1, <3>1, <3>2
  <2>3. CASE pyface_ = "live" /\ interpreter
    BY <1>16, <2>1, <2>3 DEF ExecuteBehavior, NextPacket, visionVars
  <2> QED
    BY <2>2, <2>3
<1>17. CASE RestartInterpreter
  BY <1>17 DEF RestartInterpreter, NextPacket, visionVars, pythonVars
<1>18. CASE RunBehavior
  BY <1>18 DEF RunBehavior, visionVars, pythonVars
<1>19. CASE StartAgain
  BY <1>19 DEF StartAgain, visionVars, pythonVars
<1>20. CASE UNCHANGED interpreterVars
  BY <1>20 DEF interpreterVars, visionVars, pythonVars
<1> QED
  BY <1>1, <1>2, <1>3, <1>4, <1>5, <1>6, <1>7, <1>8, <1>9, <1>10, <1>11, <1>12,
     <1>13, <1>14, <1>15, <1>16, <1>17, <1>18, <1>19, <1>20
  DEF PythonNext, VisionStep, ListenerStep, Packet

(* Vision dies in python only when the tool ran a behaviour while python was     *)
(* broken, starting or restarting; a frame runs in a live interpreter; and a     *)
(* behaviour the tool chose after the first frame is the one that stays.         *)
THEOREM InterpreterSafe == PythonSpec => []InterpreterInv
<1>1. PythonInit => PythonInv
  BY DEF PythonInit, PythonInv, InterpreterUp, PyfaceUp, ChosenLate, InterpreterInv,
     PythonTypeOK, DiesOnlyByRunBehavior, RunsInInterpreter,
     ChosenBehaviorStays
<1>2. PythonInv /\ [PythonNext]_interpreterVars => PythonInv'
  BY PythonStep
<1>3. PythonInv => InterpreterInv
  BY DEF PythonInv
<1> QED
  BY <1>1, <1>2, <1>3, PTL DEF PythonSpec
=============================================================================
