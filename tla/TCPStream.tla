----------------------------- MODULE TCPStream ------------------------------
(***************************************************************************)
(* Streaming of memory to the tool: TCPConnection::loop_server, its io and *)
(* server threads (core/communications/TCPConnection.cpp), the stream      *)
(* thread and the vision thread (CommunicationModule.cpp).                 *)
(*                                                                         *)
(* The condition variables are modelled as they work: a thread evaluates   *)
(* its predicate, then blocks; a notification given in between without the *)
(* mutex is lost.  looping_mutex_ and server_mutex_ are each taken by one  *)
(* thread only and are left out.  The server registers no receiver         *)
(* callback, so that it has no receiver thread.                            *)
(*                                                                         *)
(* The server is started once and never destroyed (shutdown of the process *)
(* is not modelled): looping_ stays TRUE.                                  *)
(***************************************************************************)
EXTENDS Naturals

CONSTANTS
  MaximumFailedMessages,  \* failed sends after which a connection is given up
  AcceptResults           \* outcomes of async_accept: "ok", "error"

ASSUME FailedAssumption == MaximumFailedMessages \in Nat
ASSUME AcceptAssumption == AcceptResults \subseteq {"ok", "error"}

VARIABLES
  accepting_connections_, connection_established_, server_running_,
  failed_messages_,
  peer,     \* the tool's end of the connection is there
  looper,   \* looping_thread_
  io,       \* io_thread_, with the handler it runs
  server,   \* server_thread_
  stream,   \* stream_thread_
  vision,   \* the vision thread in optionallyStream
  streaming_mutex_, \* who holds it: "none", "stream"
  stopping_stream_,
  full,     \* the streaming buffer holds a frame (size > 0)
  (* history *)
  missed,    \* stop_server or connection_ended notified a thread that was not yet waiting for it
  overlooked \* the server thread was created after stop_server had looked for one to join

flags == <<accepting_connections_, connection_established_, server_running_, failed_messages_>>
streamVars == <<stream, vision, streaming_mutex_, stopping_stream_, full>>
history == <<missed, overlooked>>
vars == <<flags, peer, looper, io, server, streamVars, history>>

Init ==
  /\ accepting_connections_ = FALSE /\ connection_established_ = FALSE
  /\ server_running_ = FALSE /\ failed_messages_ = 0
  /\ peer = FALSE
  /\ looper = "start" /\ io = "none" /\ server = "none"
  /\ stream = "none" /\ vision = "check"
  /\ streaming_mutex_ = "none" /\ stopping_stream_ = FALSE /\ full = FALSE
  /\ missed = FALSE /\ overlooked = FALSE

-----------------------------------------------------------------------------
(* The looping thread: loop_server. *)

(* start_server: async_accept, then the io thread. *)
StartServer ==
  /\ looper = "start"
  /\ looper' = "test"
  /\ accepting_connections_' = TRUE
  /\ io' = "accept"
  /\ UNCHANGED <<connection_established_, server_running_, failed_messages_, peer, server,
                 streamVars, history>>

(* The predicate of looping_cv_.wait. *)
MustRestart == ~accepting_connections_ /\ ~connection_established_

LoopTest ==
  /\ looper = "test"
  /\ looper' = IF MustRestart THEN "stop" ELSE "block"
  /\ UNCHANGED <<flags, peer, io, server, streamVars, history>>

LoopBlock ==
  /\ looper = "block"
  /\ looper' = "waiting"
  /\ UNCHANGED <<flags, peer, io, server, streamVars, history>>

(* stop_server: server_running_ = false and the notification, then the joins. *)
StopServer ==
  /\ looper = "stop"
  /\ looper' = "join_server"
  /\ server_running_' = FALSE
  /\ server' = IF server = "waiting" THEN "test" ELSE server
  /\ missed' = (missed \/ server \in {"created", "block"})
  /\ UNCHANGED <<accepting_connections_, connection_established_, failed_messages_, peer,
                 io, streamVars, overlooked>>

(* There is no thread to join if server_thread_ has not been assigned yet. *)
JoinServer ==
  /\ looper = "join_server" /\ server \in {"none", "done"}
  /\ looper' = "join_io"
  /\ server' = "none"
  /\ overlooked' = FALSE
  /\ UNCHANGED <<flags, peer, io, streamVars, missed>>

(* stop_io and clear_socket: the handler that runs is waited for. *)
JoinIo ==
  /\ looper = "join_io" /\ io = "idle"
  /\ looper' = "start"
  /\ io' = "none"
  /\ peer' = FALSE
  /\ UNCHANGED <<flags, server, streamVars, history>>

Looper == StartServer \/ LoopTest \/ LoopBlock \/ StopServer \/ JoinServer \/ JoinIo

-----------------------------------------------------------------------------
(* The io thread: listener_handler and the callback of startTCPServer. *)

Accept ==
  /\ io = "accept"
  /\ \/ /\ "ok" \in AcceptResults
        /\ io' = "established"
        /\ connection_established_' = TRUE /\ peer' = TRUE
     \/ /\ "error" \in AcceptResults
        /\ io' = "callback"
        /\ UNCHANGED <<connection_established_, peer>>
  /\ UNCHANGED <<accepting_connections_, server_running_, failed_messages_, looper, server,
                 streamVars, history>>

Accepted ==
  /\ io = "established"
  /\ io' = "accepted"
  /\ accepting_connections_' = FALSE
  /\ UNCHANGED <<connection_established_, server_running_, failed_messages_, peer, looper,
                 server, streamVars, history>>

(* The assignment to server_thread_. *)
SpawnServer ==
  /\ io = "accepted" /\ server = "none"
  /\ io' = "callback"
  /\ server' = "created"
  /\ missed' = (missed \/ looper = "join_server")
  /\ overlooked' = (looper = "join_io")
  /\ UNCHANGED <<flags, peer, looper, streamVars>>

(* It ends the process, by std::terminate, when server_thread_ still stands for a *)
(* thread that nobody has joined.                                                 *)
Terminate ==
  /\ io = "accepted" /\ server # "none"
  /\ io' = "terminated" /\ looper' = io' /\ server' = io' /\ stream' = io' /\ vision' = io'
  /\ peer' = FALSE
  /\ streaming_mutex_' = "none"
  /\ UNCHANGED <<flags, stopping_stream_, full, history>>

(* cleanupStreamThread, neither of whose first two steps takes the mutex. *)
StopStream ==
  /\ io = "callback"
  /\ io' = IF stream = "none" THEN "spawn" ELSE "notify"
  /\ stopping_stream_' = (stream # "none")
  /\ UNCHANGED <<flags, peer, looper, server, stream, vision, streaming_mutex_, full, history>>

NotifyStream ==
  /\ io = "notify"
  /\ io' = "join"
  /\ stream' = IF stream = "waiting" THEN "relock" ELSE stream
  /\ UNCHANGED <<flags, peer, looper, server, vision, streaming_mutex_, stopping_stream_,
                 full, history>>

JoinStream ==
  /\ io = "join" /\ stream = "ended"
  /\ io' = "spawn"
  /\ stream' = "none"
  /\ stopping_stream_' = FALSE
  /\ UNCHANGED <<flags, peer, looper, server, vision, streaming_mutex_, full, history>>

SpawnStream ==
  /\ io = "spawn"
  /\ io' = "idle"
  /\ stream' = "top"
  /\ UNCHANGED <<flags, peer, looper, server, vision, streaming_mutex_, stopping_stream_,
                 full, history>>

Handler == Accepted \/ SpawnServer \/ Terminate \/ StopStream \/ NotifyStream \/ JoinStream
             \/ SpawnStream

-----------------------------------------------------------------------------
(* The server thread: server_handler. *)

ServerStart ==
  /\ server = "created"
  /\ server' = "test"
  /\ server_running_' = TRUE
  /\ UNCHANGED <<accepting_connections_, connection_established_, failed_messages_, peer,
                 looper, io, streamVars, history>>

ServerTest ==
  /\ server = "test"
  /\ server' = IF server_running_ THEN "block" ELSE "done"
  /\ UNCHANGED <<flags, peer, looper, io, streamVars, history>>

ServerBlock ==
  /\ server = "block"
  /\ server' = "waiting"
  /\ UNCHANGED <<flags, peer, looper, io, streamVars, history>>

Server == ServerStart \/ ServerTest \/ ServerBlock

-----------------------------------------------------------------------------
(* The stream thread: CommunicationModule::stream. *)

StreamGoto(from, to) == stream = from /\ stream' = to

StreamTop ==
  /\ StreamGoto("top", IF connection_established_ THEN "lock" ELSE "ended")
  /\ UNCHANGED <<flags, peer, looper, io, server, vision, streaming_mutex_, stopping_stream_,
                 full, history>>

(* The mutex, taken for the first time or after a wait. *)
StreamLock ==
  /\ stream \in {"lock", "relock"} /\ streaming_mutex_ = "none"
  /\ stream' = IF stream = "lock" THEN "test" ELSE "pred"
  /\ streaming_mutex_' = "stream"
  /\ UNCHANGED <<flags, peer, looper, io, server, vision, stopping_stream_, full, history>>

StreamTest ==
  /\ StreamGoto("test", IF ~full /\ ~stopping_stream_ THEN "pred" ELSE "send")
  /\ UNCHANGED <<flags, peer, looper, io, server, vision, streaming_mutex_, stopping_stream_,
                 full, history>>

(* The predicate of streaming_cv_.wait, and the return behind it. *)
StreamPred_NoReturn ==
  /\ StreamGoto("pred", IF stopping_stream_ \/ full THEN "send" ELSE "block")
  /\ UNCHANGED <<flags, peer, looper, io, server, vision, streaming_mutex_, stopping_stream_,
                 full, history>>
StreamPred ==
  /\ StreamGoto("pred", IF stopping_stream_ THEN "ended" ELSE IF full THEN "send" ELSE "block")
  /\ streaming_mutex_' = IF stopping_stream_ THEN "none" ELSE streaming_mutex_
  /\ UNCHANGED <<flags, peer, looper, io, server, vision, stopping_stream_, full, history>>

StreamBlock ==
  /\ StreamGoto("block", "waiting")
  /\ streaming_mutex_' = "none"
  /\ UNCHANGED <<flags, peer, looper, io, server, vision, stopping_stream_, full, history>>

(* connection_ended: the flag and the notification, without looping_mutex_.  The *)
(* notification is in vain while listener_handler has not cleared                *)
(* accepting_connections_, which it does without another one.                    *)
ConnectionEnded_Silent == connection_established_' = FALSE /\ UNCHANGED <<looper, missed>>
ConnectionEnded ==
  /\ connection_established_' = FALSE
  /\ looper' = IF looper = "waiting" THEN "test" ELSE looper
  /\ missed' = (missed \/ looper = "block" \/ accepting_connections_)

KeepConnection == UNCHANGED <<connection_established_, looper, missed>>

MayFailAgain == failed_messages_ < MaximumFailedMessages

(* send_message: a failure ends the connection when the pipe is broken or when *)
(* too many have failed.                                                       *)
SendMessage ==
  /\ StreamGoto("send", "clear")
  /\ IF connection_established_ /\ ~peer
     THEN \/ /\ MayFailAgain
             /\ failed_messages_' = failed_messages_ + 1
             /\ KeepConnection
          \/ failed_messages_' = 0 /\ ConnectionEnded
     ELSE /\ failed_messages_' = IF connection_established_ THEN 0 ELSE failed_messages_
          /\ KeepConnection
  /\ UNCHANGED <<accepting_connections_, server_running_, peer, io, server, vision,
                 streaming_mutex_, stopping_stream_, full, overlooked>>

(* clearBuffer, and the mutex given back. *)
ClearBuffer ==
  /\ StreamGoto("clear", "top")
  /\ full' = FALSE
  /\ streaming_mutex_' = "none"
  /\ UNCHANGED <<flags, peer, looper, io, server, vision, stopping_stream_, history>>

Stream == StreamTop \/ StreamLock \/ StreamTest \/ StreamPred \/ StreamBlock \/ SendMessage
            \/ ClearBuffer

-----------------------------------------------------------------------------
(* The vision thread: optionallyStream, whose test of the buffer is not locked. *)

MayWrite_Always == connection_established_
MayWrite == connection_established_ /\ ~full

VisionCheck ==
  /\ vision = "check"
  /\ MayWrite
  /\ vision' = "write"
  /\ UNCHANGED <<flags, peer, looper, io, server, stream, streaming_mutex_, stopping_stream_,
                 full, history>>

VisionWrite ==
  /\ vision = "write" /\ streaming_mutex_ = "none"
  /\ vision' = "notify"
  /\ full' = TRUE
  /\ UNCHANGED <<flags, peer, looper, io, server, stream, streaming_mutex_, stopping_stream_,
                 history>>

VisionNotify_Silent ==
  /\ vision = "notify"
  /\ vision' = "check"
  /\ UNCHANGED <<flags, peer, looper, io, server, stream, streaming_mutex_, stopping_stream_,
                 full, history>>
VisionNotify ==
  /\ vision = "notify"
  /\ vision' = "check"
  /\ stream' = IF stream = "waiting" THEN "relock" ELSE stream
  /\ UNCHANGED <<flags, peer, looper, io, server, streaming_mutex_, stopping_stream_, full,
                 history>>

Vision == VisionCheck \/ VisionWrite \/ VisionNotify

(* wait() may return without a notification. *)
SpuriousWakeup ==
  /\ \/ looper = "waiting" /\ looper' = "test" /\ UNCHANGED <<server, stream>>
     \/ server = "waiting" /\ server' = "test" /\ UNCHANGED <<looper, stream>>
     \/ stream = "waiting" /\ stream' = "relock" /\ UNCHANGED <<looper, server>>
  /\ UNCHANGED <<flags, peer, io, vision, streaming_mutex_, stopping_stream_, full, history>>

(* The tool goes away, or the network to it. *)
Disconnect ==
  /\ peer
  /\ peer' = FALSE
  /\ UNCHANGED <<flags, looper, io, server, streamVars, history>>

-----------------------------------------------------------------------------
Next == Looper \/ Accept \/ Handler \/ Server \/ Stream \/ Vision \/ SpuriousWakeup
          \/ Disconnect

Spec == Init /\ [][Next]_vars

(* Every thread runs when it can; nobody need connect or disconnect, and no    *)
(* thread need wake up by itself.                                              *)
FairSpec ==
  /\ Spec
  /\ WF_vars(Looper) /\ WF_vars(Handler) /\ WF_vars(Server) /\ WF_vars(Stream)
  /\ WF_vars(Vision)

-----------------------------------------------------------------------------
(* Properties. *)

(* The process has not been ended. *)
Running == io # "terminated"

(* The type invariant. *)
TypeOK ==
  /\ {accepting_connections_, connection_established_, server_running_, peer,
      stopping_stream_, full, missed, overlooked} \subseteq BOOLEAN
  /\ failed_messages_ \in 0..MaximumFailedMessages
  /\ looper \in {"start", "test", "block", "waiting", "stop", "join_server", "join_io",
                "terminated"}
  /\ io \in {"none", "accept", "established", "accepted", "callback", "notify", "join",
            "spawn", "idle", "terminated"}
  /\ server \in {"none", "created", "test", "block", "waiting", "done", "terminated"}
  /\ stream \in {"none", "top", "lock", "relock", "test", "pred", "block", "waiting", "send",
                 "clear", "ended", "terminated"}
  /\ vision \in {"check", "write", "notify", "terminated"}
  /\ streaming_mutex_ \in {"none", "stream"}

(* A frame is never written over one that has not been sent, although           *)
(* optionallyStream looks at the buffer before it has the mutex.                *)
BufferNotOverwritten == vision = "write" => ~full

(* The stream thread sends only buffers that hold a frame, unless it was told   *)
(* to stop while it was not waiting.                                            *)
SendsFrames == stream = "send" /\ ~stopping_stream_ => full

(* The types, and both ends of the streaming buffer. *)
BufferInv == TypeOK /\ BufferNotOverwritten /\ SendsFrames

(* std::thread ends the process when an object that still stands for a thread    *)
(* is assigned.  listener_handler finds no server thread when it creates one,    *)
(* unless the last one was created after stop_server had looked for it: between  *)
(* accepting_connections_ = false and the assignment of server_thread_ the old   *)
(* stream thread can end the new connection.  The callback finds no stream       *)
(* thread, and start_server no io thread.                                        *)
ThreadsJoined ==
  /\ io \in {"accept", "established", "accepted"} => server = "none" \/ overlooked
  /\ ~Running => overlooked
  /\ io = "spawn" => stream = "none"
  /\ looper = "start" => io = "none"

(* The invariant: the types, the streaming buffer and the thread objects. *)
StreamInv == BufferInv /\ ThreadsJoined

(* A frame that has been written is sent, or the connection is lost: none of    *)
(* the notifications vision gives after it released the mutex is missed.        *)
FrameDelivered ==
  full /\ connection_established_ ~> ~full \/ ~connection_established_ \/ ~Running

(* A stream thread that waits when it is told to stop does end: if              *)
(* cleanupStreamThread's notification falls before the thread blocks, vision's  *)
(* next frame wakes it.                                                         *)
WaitingThreadEnds ==
  io = "join" /\ stream \in {"block", "waiting"} ~> io = "spawn"

(* When a connection has died the server is started again, unless a             *)
(* notification fell between a predicate and its wait, into listener_handler    *)
(* or before the server thread began, or an overlooked server thread ends the   *)
(* process.                                                                     *)
Dead == ~accepting_connections_ /\ ~connection_established_

RestartsUnlessMissed == Dead ~> accepting_connections_ \/ missed \/ ~Running

(* What the comment in TCPConnection.cpp:93 says: "If our connection has died,  *)
(* relock so we can restart the server."                                        *)
ServerRestarts == Dead ~> accepting_connections_
=============================================================================
