# A TLA+ model of the Austin Villa 393R robot code

The repository is the code of a soccer-playing Nao robot. This directory holds
TLA+ modules that model its concurrent core, the TLC configurations that check
them, and TLAPS proofs of the properties that matter most. File names below are
relative to the root of the repository (`core/...`, `interfaces/...`).

## 1. The system

Three operating-system processes run on the robot, besides the tool on a
laptop:

```
  naoqi (DCM, 100 Hz)         motion (100 Hz)               vision (30 Hz)
  interfaces/nao              interfaces/shared_motion      interfaces/shared_vision
  naointerface, dcmwrapper    MotionCore                    VisionCore + python
        |  raw_ blocks, frame_info     |   sync_ blocks            |   \
        |  LOCK_MOTION (mutex+cond.)   |   motion_vision_lock      |    UDP thread, stream
        +------------------------------+---------------------------+    thread, TCP server
                                                                          |
                                                                        the tool
```

The processes share memory blocks (`core/memory`). Motion and vision each work
on private copies and merge them with shared `sync_` blocks at the beginning
and the end of their frames; naoqi's callbacks and motion share `raw_` blocks.
`data/scripts/restart_processes.sh` starts motion and vision again when they
have died.

### Inventory

| Component | State | Operations | Interacts with | Hard behaviours | What makes it correct |
|---|---|---|---|---|---|
| Motion–vision exchange (`MotionCore`, `VisionCore`, `WalkRequestBlock`, `OdometryBlock`, `KickRequestBlock`, `WalkParamBlock`) | `sync_` blocks and two private copies of each | `receiveData`, `publishData` of both sides, the request methods of the behaviours | shared memory under `motion_vision_lock_` | the lock is released between receive and publish, so whole-block copies write back old values; python errors and restarts | each field keeps the value of the process that owns it; displacement is neither lost nor invented; handshake flags are not dropped |
| Motion loop and robot interface (`naointerface`, `dcmwrapper`, `shared_motion/main`, `Lock`) | mutex, condition, `frame_id`, `raw_` blocks, `last_frame_processed_` | `preProcess`, `postProcess`, the motion loop, exit handlers | naoqi's DCM thread | 9 ms `timed_lock` that goes on without the mutex, notifications without the mutex, death of motion with the mutex locked, exceptions that leave a callback with the mutex locked | whole frames, none twice; progress of both sides; commands reach the joints as meant |
| Kick module (`KickModule`, `behaviors/kick.py`) | `state_`, keyframe, frame counter, `kick_running_` | `start`, `performKick`, `finish`, `processFrame` | motion, and the Kick node of vision | recursion over keyframes of no duration, a status that comes one exchange late, requests that are repeated | keyframes in order and with their timing; one kick for one visit |
| Logging (`VisionCore`, `LogWriter`) | `is_logging_`, `disable_log_`, `log_by_frame_`, `frames_to_log_`, the file | LogBegin, LogEnd, the write of a frame, the end of a log | the tool (UDP thread), vision's thread | the two threads share all of it without a lock; an unsigned counter | frames have a file; no frame too many; every LogEnd is answered |
| Streaming (`TCPConnection`, `CommunicationModule`) | connection flags, four threads, the streaming buffer and its mutex | `start_server`, `stop_server`, `stream`, `optionallyStream`, `send_message` | the tool (TCP), vision's thread | condition variables notified without their mutex, joins of threads that may be about to wait | no frame overwritten or stuck; a dead connection is replaced |
| Walk engine (`RSWalkModule2014`) | generator, `prev_command_`, odometry | `processFrame` | motion | resets of the generators clear the odometry | (numeric gait control) |
| Fall detection (`python/util.py`, `primary_bvr.py`) | fall counters in the walk request | `checkFallen`, `setFallCounter` | the exchange | its counters travel through shared memory | a fall is reported |
| Get up, special motions (`GetupModule`, `SpecialMotionModule`) | state machine of keyframes | `processFrame` | motion | interruption, crossed arms, repeated attempts | dormant: nothing calls `setFalling` at this commit |
| Python tasks and state machines (`task.py`, `state_machine.py`, `pose.py`, `behaviors/*.py`) | the task of the state, the current node, timers, the state of `Sit` | `processFrame`, `run`, `transition`, `finish`, `reset` | motion (stiffness, poses, walk, kick), the state of the game | timeouts that run while nothing is run, several transitions in one frame, commands left out because of old readings, a kick that cannot be stopped | standing legs are not let go; a visit of a node starts afresh; machines finish |
| Python interpreter (`PythonModule`, `PythonInterface`, `InterpreterModule`, `UDPWrapper`) | `is_ok_`, `pyface_`, `restart_requested_`, the interpreter, `behaviorLoaded` | start, frame, restart, `checkPython`, `runBehavior` | vision's thread, the UDP thread | exceptions, deletion and execution from another thread, a restart that joins that thread | no use of an interpreter that is gone; restarts are honoured and end |
| Buttons and game state (`ButtonModule`, `GameStateBlock`, `primary_bvr.py`) | press counters, state, task | `processButtons`, `processCenterPresses`, `setState`, `processFrame` | vision, behaviours, the tool's packets | short, long and repeated touches; the state changes under vision's copies of it; states without a task | a click is counted once; copies are stale only within a frame; the task fits the state |
| Stream buffers, log format (`StreamBuffer`, `LogReader`) | byte buffers | `combine`, `separate` | logging, streaming | sizes in the data | planned |
| Memory blocks (`MemoryFrame`, `SharedMemory`) | named blocks in boost shared memory | allocation, lookup | all processes | – | not modelled: pure allocation |
| Image capture (`ImageCapture`, `NaoCamera`) | two flags, `nextBuf`, `prevBuf`, the driver's queue | `dequeueThread`, `requeue`, `dequeueBuffer`, `enqueueBuffer` | vision's thread, the camera driver | two threads and two condition variables, dequeueing and queueing that fail | vision reads a buffer the camera does not write; no image is skipped, no buffer lost but by a failed queueing |
| Vision, localization, opponents, kinematics, lights, sonar, audio | – | – | – | numeric code, sequential | not modelled |
| UTNaoTool, simulators | Qt windows | – | TCP, UDP | user interface | not modelled |

`PROJECT.json` lists the same parts with their sources and status, the hazards
with their lines, and the line ranges every definition models.

## 2. The modules

| Module | Models | Extends / uses |
|---|---|---|
| `MotionVisionSync` | the exchange between motion and vision | |
| `MCMotionVisionSync`, `sync_*.cfg` | its instances | `MotionVisionSync` |
| `MotionVisionSyncProofs` | its theorems | `MotionVisionSync` |
| `MotionLoop` | the 10 ms cycle | |
| `MCMotionLoop`, `loop_*.cfg` | its instances | `MotionLoop` |
| `MotionLoopProofs` | its theorems | `MotionLoop` |
| `Kick` | what motion relies on of a kick (abstract) | |
| `KickModule` | `core/motion/KickModule.cpp` | refines `Kick` |
| `KickRound` | the Kick node, the exchange and `KickModule` together | `KickModule` |
| `KickModuleProofs` | the theorems of both and the refinement | `KickRound` |
| `MCKickModule`, `MCKickRound`, `kick_*.cfg` | their instances | |
| `VisionLogging`, `log_*.cfg` | the log and its two threads | |
| `VisionLoggingProofs` | its theorems | `VisionLogging` |
| `TCPStream`, `stream_*.cfg` | the stream to the tool and the TCP server | |
| `GameState`, `game_state.cfg` | the state of the game, the buttons and the choice of the task | |
| `GameStateProofs` | its theorems | `GameState` |
| `Behavior`, `behavior.cfg` | tasks, state machines and the four behaviours | |
| `BehaviorProofs` | its theorems | `Behavior` |
| `Interpreter`, `interpreter.cfg` | the interpreter and the threads that use it | |
| `ToolProofs` | the theorems of the two parts the tool talks to | `TCPStream`, `Interpreter` |
| `ImageCapture`, `image_capture.cfg` | the handover of camera buffers | |
| `ImageCaptureProofs` | its theorems | `ImageCapture` |

Variables and operators keep the names of the source where they can
(`kick_running_`, `frames_to_log_`, `looping_cv_`'s thread is `looper`); actions
are named after the functions. Variables marked *history* record what a
property talks about and no action tests them. Definitions named `X_Something`
in front of a definition `X` are the same definition with a plausible mistake;
they are used to show that the properties notice it (`mutants` in
`PROJECT.json`) and by nothing else.

### MotionVisionSync

*State.* Each of the walk request, kick request, odometry, joint commands and
walk parameters is a record three times: `sync…` in shared memory, `mot…` and
`vis…` the copies. `engine` is the loaded walk engine, `kicking` is the kick
module's state, `mpc` and `vpc` say where the two processes are, `is_ok` is the
interpreter's.

*Steps.* A merge runs under the lock and is one action: `MotionReceiveData`,
`MotionPublishData`, `VisionReceiveData`, `VisionPublishData`. In between,
`ProcessMotionFrame` runs getup, kick and walk; `ProcessFrame` is one frame of
python, which may also fail inside the behaviour (the frame is still published)
or outside of it (it is not); `SkipFrame` is a frame with a broken interpreter;
`RestartPython` is the tool's restart, which reads the walk type again. A frame in
which the state of the game changes may create a `pose.Sit`, whose constructor
gives up vision's walk request and clears vision's copy of `kick_running_`
(`SitWalk`, `SitKick`); what is then published must still be motion's status.
A walk that is asked for before the gyroscopes are calibrated writes no joints
unless the robot stands (`Uncalibrated`).

*Data.* A displacement is a number of units, the joint commands are who wrote
them last, a parameter set is a model value; one fall counter stands for the
tilt and the roll one. Fields that no code gives a second value are left out
(listed in the module).

### MotionLoop

*State.* The mutex' holder, `frame_id`, the raw sensors (represented by the
frame they were read in), one head joint's raw command, motion's copies.

*Steps.* Each callback of the DCM thread is cut where motion can see a part of
it: lock, frame number, sensors and unlock, notify; lock, send and unlock,
notify. `TimedLock` goes on without the mutex when somebody holds it. Motion's
loop is cut in the same way. `MotionExit` is a death by a handled signal, whose
exit handler releases the mutex even if it is held by somebody else, or by
`kill -9`; `MotionStart` is the restart script. `SecondPasses` is the first
second of motion, in which nothing is sent.

`SendThrows` is the `ALError` that `sendToActuators` and `sendToLEDs` throw again:
it leaves `preProcess` before the unlock and the notification. If the callback had
the mutex, it stays locked, and since the interface's own `scoped_lock` still
counts as locked the next `timed_lock` throws as well, so nothing more happens; if
it went on without the mutex, the next callback runs (`CallbackAfterThrow`). The
history variables `meant`, `added` and `torn` say which command motion last wrote
whole, which readings it has been sent with before, and whether a half-written one
was sent or left behind.

### Kick, KickModule, KickRound

`KickModule` has one action for a frame of motion. A kick file is a function
from keyframe numbers to durations; the recursion of `performKick` over
keyframes of no duration is the operator `Landing`. `Kick` is the
abstract kick: a countdown that begins with a request when none runs, goes down by
one in every frame whatever is asked meanwhile, and is over at 0; one whose file
does not load never is. The refinement maps the countdown to the durations of the
file that have not passed yet (`Left`), so a module that listened to ABORT, started
again, or ended a frame too early or too late would not implement it. `KickRound` puts the Kick node of
`behaviors/kick.py` and the exchange of the kick request around `KickModule`;
motion runs `MinMotion` to `MaxMotion` frames per frame of vision, and the node's
count of vision's frames advances by up to `MaxSkip`. `Elapsed` adds up the
durations of a kick; no action uses it, it states how long a kick must take.

### VisionLogging

One action for each piece of code in which a thread touches the shared fields
once; `log_by_frame_` starts undefined, as in the constructor. `frames_to_log_`
is unsigned and wraps round at `UIntRange`. `is_logging_` is set twice on the way
to an open file (`EnableLogging`, `EnableMemoryLogging`), so a log that vision
ends in between, on a `disable_log_` left over from the last one, goes on. `lost`
counts the frames that were counted before the log had its own file, `zeroed`
says that the end of the last log hit the counter of this one.

### TCPStream

The looping thread, the io thread with the accept handler and its callback, the
server thread, the stream thread and vision. A wait on a condition variable is
two steps, the evaluation of the predicate and the blocking, so that a
notification given without the mutex can be lost in between; waits can also end
by themselves. `peer` is the tool's end of the connection. The accept
handler's three writes, `connection_established_`, `accepting_connections_` and
`server_thread_`, are three steps (`Accept`, `Accepted`, `SpawnServer`), because the
stream thread of the last connection may still run and end the new one in between.
`overlooked` records that the server thread was created after `stop_server` had
looked for one to join; the next accept then assigns a `std::thread` that stands for
a thread, which ends the process (`Terminate`). The server is never
destroyed in this model (`looping_` stays true), and the behaviour of sockets is
an environment: accepting succeeds or fails, a send fails when the peer is gone.

### GameState

Vision's frame is cut where it reads or writes the state of the game, which the
UDP thread may change at any time (`ToolState`): the behaviour (`ProcessFrame`),
the look at the sensors (`ProcessButtons`, which also keeps a copy of the
state), the chest's clicks (`ReadState`, `ProcessCenterPresses`) and the other
buttons (`ProcessBumpers`). Time is a number of frames and points in time are
kept as ages, so the model has no clock; the sentinel `start = -1` is "a second
ago", the reason why it is no click. A behaviour's own errors are in
`MotionVisionSync`; here python breaks only on a state without a task. The states
without one are real: `createStateTask` has no branch for TEST_ODOMETRY, TOP_CAM and BOTTOM_CAM, and no behaviour of the
repository defines `Testing`.

### Behavior

*State.* The task `primary_bvr.py` has created for the state of the game, the
current node of a Playing machine, the Sit task with its own states and its
subtask, and what they command as far as the legs are concerned: whether the walk
engine is asked for anything, the kick in progress, the stiffness commanded last
and the one the joints report. Timers are ages in frames.

*Steps.* A frame of vision is `ProcessFrame` (the choice of the task, the fall),
then `RunTask`, or `RunMachine` with one `FireEvent` for each turn of the loop in
`StateMachine.run` and `NoEvent` for its end, then `RunNode`. `Tick` is the time
between two frames, in which motion runs: a kick in progress and, after it, the
walk engine overwrite the stiffness, and the joints report a stiffness that may lag by
`Ramp` frames. The machines of `sample.py`, `kick.py`, `walk_kick.py` and
`keeper.py` are data (`Machine`).

Three things the code does show in the model. `setStiffness` is left out when the
joints already report the stiffness, which `Sit` makes good by asking for two
seconds. A fall stops the task but not its timers. And a kick, which takes 5.1 s
with the file the robot uses and which nothing aborts, may still be going on when
a new Sit task lets the knees go after less; the properties name that case
(`upset.kicked`).

### Interpreter

Vision's thread (`config` ... `executing`) and the UDP listener, with `PY_MUTEX`
where `PythonInterface` takes it. A call through a null `pyface_`, or into python
without an interpreter, is a death of vision (`Die`), after which
`restart_processes.sh` starts it again. `readConfig`, at every start, deletes the
tool's socket: the destructor sets `destruct_`, sends an empty packet to itself
and joins the listener. `overlap` records that a RunBehavior met python broken or
not up. RunBehavior also sets the state of the game to INITIAL, which is in
`GameState`.

### ImageCapture

The dequeue thread and vision's, cut at the mutex, the waits and the two cameras'
dequeues. The driver's queue is a sequence without repetitions. A dequeue may fail
at any time; with an empty queue it otherwise waits, with the mutex locked, and no
fairness ends that wait. Queueing fails for a buffer the driver has already and may
fail for any other; `swapBuffers` then overwrites the only place where the buffer was
known, and `dropped` counts those buffers. `OneLeft` is the state in which all but
one are gone. `buf` is the structure
`VIDIOC_DQBUF` fills in, so a failed dequeue hands over the buffer of the last
one. `getImage` also tests for an index below 0; the index is unsigned and the
test is never true, so the model takes the buffer whatever it is, and
`EveryImageOnce` says that it is one.

## 3. The runs

| Run | Checks | Bounds | Distinct states |
|---|---|---|---|
| `sync_requests` | `VisionOwnsRequest`, `SyncCurrentUnlessRaced`, `PoseComesWithNoWalk` | stand, none, one speed, walk kick, a pose, falls in one direction, getups, new Sit tasks | 2.5 million |
| `sync_status` | `KickStatusTruthful`, `ParamsNeverLost`, `OdometryConserved` | one walk type, two parameter sets, kicks, new Sit tasks, one unit of displacement at a time, two consumed | 4.0 million |
| `loop_cycle` | `LoopInv`, `FramesAdvance`, `SentAsMeant`, `MotionKeepsUp`, `CallbacksEnd` | two frames, an absolute and a relative head command, two readings, both kinds of death, exceptions in any callback | 128 819 |
| `kick_module` | `KeyframesInOrder`, `HeldForDuration`, `ImplementsKick`, `KickEnds` | all files of up to four keyframes of 0 to 2 frames, files that do not load | 1 449 |
| `kick_round` | `OneKickPerVisit`, `NodeCompletes` | a short and a long kick, one or two motion frames per vision frame, skips of up to three | 6 965 |
| `log_threads` | `LoggingHasFile`, `FramesAccounted`, `LogEndAnswered` | counts 0, 1, 2; an 8-valued counter; four frames in a file | 7 516 |
| `game_state` | `ResultCountsClicks`, `TaskFitsState`, `ClickAdvancesState`, `ClicksReported` | up to seven clicks in a row, touches shorter and longer than a click, one bumper, the tool's PLAYING and restarts at any time | 269 040 |
| `stream_tool` | `StreamInv`, `FrameDelivered`, `WaitingThreadEnds`, `RestartsUnlessMissed` | any number of connections and frames, one failed send | 23 223 |
| `stream_restart` | violated: `ServerRestarts` | | |
| `behavior` | `BehaviorInv`, `LimpOnlyWhenSeated`, `PoseIsHeld`, `VisitIsFresh`, `TasksFinish` | four behaviours, five states, falls at any time; times scaled, see below | 641 873 |
| `interpreter` | `InterpreterInv`, `RestartHonoured`, `RestartEnds` | none: any number of packets, errors, restarts and deaths | 1 024 |
| `image_capture` | `ImageNotOverwritten`, `DriverHasBuffer`, `EveryImageOnce`, `ImagesKeepComing` | three buffers per camera, as in the code | 152 742 |

`LoopInv`, `BehaviorInv`, `InterpreterInv` and `StreamInv` are the module's type
invariant together with its other state invariants (`FrameIntact`;
`FinishedIsLimp`; `DiesOnlyByRunBehavior`, `RunsInInterpreter` and
`ChosenBehaviorStays`; `BufferNotOverwritten`, `SendsFrames` and `ThreadsJoined`). The other type
invariants are proved, and so are `EngineMatchesType`, `StatusTruthful`,
`NeverOverfull`, `BumpersBetweenGames` and `MutexHeld`; the runs do not repeat
them.

What they show:

* **sync_requests.** However motion's copy of the whole walk request falls
  among vision's steps, the motion, the target and the kicking foot in shared
  memory are those of vision's last publication; the other fields (speed, the
  walk kick, fall counter) are too, unless vision published inside motion's
  window or a getup made motion stand. A pose never reaches motion with a
  request to walk.
* **sync_status.** `kick_running_` in shared memory is the state of motion's
  kick, although vision rewrites the whole kick request and a new Sit clears
  vision's copy of the status; a parameter set is in motion's hands or still
  flagged.
* **sync_status, the odometry.** A ledger of the displacement the walk engine produced:
  consumed by vision, pending, cleared by a reset of the generators before
  vision saw it, or published a second time because vision reset the shared
  block while motion held a copy. The model shows that the last happens; the
  invariant says that it is the only way in which displacement is counted twice
  and that nothing else is lost.
* **loop_cycle.** When no callback went on without the mutex, motion's joint
  angles, sensors and mark of the processed frame are of one frame; no frame is
  worked on twice whatever wakes motion; a head command is sent as motion
  meant it, however often: an absolute angle is the same each time, while a relative
  one is added to the reading and to the readings of all the times it was sent
  before, because `sendToActuators` adds in place (`dcmwrapper.cpp:286-292`); a motion
  that is late, or has died, so moves the head further in each cycle. `SentAsMeant`
  keeps that account, and excepts only a callback that without the mutex falls
  between motion's writing of the angles and of the flags, with what it or a motion
  that ended there leaves behind. Every frame is processed or overtaken, except that
  a mutex left locked for ever stops motion (`LockOrphaned`): by a motion that was
  killed, for its successor, or by a callback an exception threw out of. The
  interface's callbacks end, by their notification or by that exception, and go on
  with the next frame unless the exception left the interface's own lock locked.
* **kick_module, kick_round.** A kick commands all keyframes that take time, in
  order, each held for exactly its duration; it ends if its file could be
  loaded; the module does what `Kick` promises of it,
  whatever is requested in each frame. The Kick node's repeated requests start
  one kick, and it is over when the node is left. This rests on three assumptions
  on the constants, and fails without any of them: the kick lasts as long as the
  node asks for it, four frames of vision at most (510 frames in `default.yaml`);
  motion runs at least once per frame of vision; and vision's count advances by at
  most three at once. With a skip of four the node asks in one frame only, and a
  motion that is then in the middle of its own frame never sees it.
* **log_threads.** While a log is made there is an open file, except in the two
  windows the invariant names; a limited log holds every frame that was counted
  for it, but for those vision counted before the file was open and for the
  counter that was zeroed by the end of the last log, which takes a LogBegin
  between vision's clearing of `is_logging_` and of `frames_to_log_`; every LogEnd
  is answered.
* **stream_tool.** A frame is never written over an unsent one, the stream
  thread sends only frames unless it was told to stop while it was not waiting,
  a frame is sent or the connection ends, a waiting stream thread that is told
  to stop ends, and a dead connection is replaced unless a notification was
  missed. A thread object is joined before it is assigned, but for one window: the
  stream thread of the last connection may end the new one after
  `accepting_connections_ = false` and before the assignment of `server_thread_`
  (`TCPConnection.cpp:30-31`); `stop_server` then finds no thread to join, and the
  process is ended by the assignment of the next accept.
* **game_state.** However long the touches are, each click is in one result and
  no other touch is, and results come when the button is left alone. A copy of
  the state that vision holds is wrong only if the state has changed within the
  same frame: then, and only then, a click can undo a packet of the tool (and, as
  is proved, a bumper can change the kick-off of a game that has begun). The task that runs is
  that of the state the behaviour read last, unless that state has none, which
  breaks python until it is restarted in another state.
* **behavior.** Joints are released outside of a fall only when the last body
  command is the sitting pose and has had its time; a pose is sent to joints that
  hold; a Sit task or machine that is over has released them. Exceptions are a
  kick that was going on when the Sit task began, and a fall. Each visit of a
  node is timed from its entry, is run at least once and acts on its own signal;
  a machine left alone finishes, and so does Sit when the state goes back and
  forth between INITIAL and FINISHED.
* **interpreter.** Frames, python errors and restarts in any order never reach an
  interpreter that is not there; only a RunBehavior that comes while python is
  broken, starting or restarting can. A restart renews the interpreter also when
  python is broken, unless it is asked for while the last one is being completed
  and is cleared with it, and never waits for ever for the listener. A behaviour
  chosen after the first frame stays until a restart.
* **image_capture.** Each exchange gives vision a buffer of both cameras that
  came since the last one, the camera does not have it while vision reads it, and
  neither thread waits for ever. After a failed dequeue vision gets the old buffer
  again, as a new frame, and the driver has it too; the next good dequeue repairs
  that, and no buffer gets lost by it. A failed queueing loses the buffer for ever.
  When a camera has lost all but one of its buffers, that one goes to and fro between
  driver and vision, and the dequeue thread can wait for ever with the mutex locked;
  until then the properties hold as if nothing had failed.

The violated run states what a comment of the repository says:

| Run | Says | The code |
|---|---|---|
| `stream_restart` | `core/communications/TCPConnection.cpp:93`: "If our connection has died, relock so we can restart the server." | `connection_ended` and `stop_server` notify without the mutex, and the notification can be missed |

One known behaviour has no run of its own. `MotionCore::publishData` copies
the whole odometry block, so an old fall direction can come back for one exchange
although `OdometryBlock.h:58` says that motion does not set it; nothing reads the
direction but the log line that prints it.

### Bounds

`MaxTravel`, `MaxConsumed` cap the displacement; two units distinguish a unit
taken before from one taken after a race. `MaxFallen` = 3 is the first value
that counts as fallen. Each `sync_` run gives several values only to the
constants its properties depend on: the merges treat the blocks independently,
and the proofs cover all combinations; one of them is the change of the walk type,
which no run repeats (theorem `EngineLoaded`). `MaxFrame` = 2 lets motion be
overtaken while it works, and after the last frame `preProcess` still runs for ever.
`MaxAngle` stops the growth of a relative head command, after one sending that
changes it; the liveness properties exclude that point by name
(`AtBound`). Four keyframes hold every pattern of leading, inner and trailing
keyframes of no duration around two that take time. `UIntRange` = 8 exceeds every
count and the frames a file can hold, so that a wrapped counter cannot come back
to 0 within `MaxWritten`. One failed send before a connection is given up shows
both branches of `send_message`. `MaxPresses` = 7 reaches every meaning of a
number of clicks but the second one for the penalty kick; a click is at most one
frame long, the interval is one frame and a second two, which tells a click from
a longer touch and one sequence from the next, and the proofs cover the rest.

In `behavior` a frame is a quarter of a second for the long times: 2, 3 and 5 s
are 8, 9 and 11 frames and 0.7 s is 2, which keeps the order of all sums the code
compares (Sit's wait, a pose after it, the relaxing of the knees), and a kick of 24
outlasts the first two, as the 5.1 s of the robot's file do. The Kick node's frame
numbers 3 and 10 are those of the code. `Ramp` is the 0.3 s of a change of
stiffness, shorter than 0.7 s. Three buffers are `NaoCamera`'s
`frameBufferCount`, enough for two to be lost; the proofs cover more.

### Fairness

Weak fairness of a thread or process means that the operating system schedules
it: no loop of the code stops by itself. `MotionLoop` also assumes strong
fairness of taking the mutex, which is free for most of each 10 ms cycle because
a callback needs a small part of it, and of the restart, since the script looks
for the process every ten seconds for ever. Nothing is assumed of the tool, of
the network, of deaths of motion or of spurious wake-ups: these may happen or
not. `KickModule` assumes that motion's frames go on. In `VisionLogging` and
`TCPStream` each thread is fair, in `GameState` vision's, while touches and
packets may never come. `Behavior` assumes that vision's frames go on. In
`Interpreter` both threads and the restart script are fair, packets and python
errors are not. `ImageCapture` assumes fair threads, a camera that fills the buffers
it has (a dequeue from an empty queue need not end) and, as each thread waits with
the mutex released, strong fairness of taking it. `sync_` runs check safety only and state none.
Deadlock is checked everywhere except in the stream runs, where every thread may
rightly be waiting for the tool.

## 4. The proofs

| Theorem | Says | Rests on |
|---|---|---|
| `MotionVisionSyncProofs!TypeCorrect` | `Spec => []TypeOK` | one lemma per action |
| `RequestOwnership`, `RequestCurrent` | `VisionOwnsRequest`, `SyncCurrentUnlessRaced` | `CurrentInv` |
| `KickStatus` | `KickStatusTruthful` | `KickStatusInv` |
| `Conservation` | `OdometryConserved` | `OdometryInv` |
| `ParamsDelivered` | `ParamsNeverLost` | inductive with `TypeOK` |
| `EngineLoaded` | `EngineMatchesType` | inductive with `TypeOK` |
| `PoseWithoutWalk` | `PoseComesWithNoWalk` | `PoseInv` |
| `MotionLoopProofs!WholeFrames` | `LoopInv` | `CycleInv` |
| `NoFrameTwice`, `HeadAsMeant` | `FramesAdvance`, `SentAsMeant` | `CycleInv` |
| `KickModuleProofs!KickTypeCorrect` | the type invariant | `LandingExists` |
| `RunningIsTrue` | `StatusTruthful` | `PerformKickTruthful` |
| `Refinement` | `ImplementsKick`: `KickModule` implements `Kick` | `KeyframeInv`, `PerformKickAge` |
| `EveryKeyframe`, `KeyframesHeld` | `KeyframesInOrder`, `HeldForDuration` | `KeyframeInv` |
| `OneKick` | `OneKickPerVisit` of `KickRound` | `RoundInv`, `PerformKickAge` |
| `VisionLoggingProofs!LoggingTypeCorrect` | the type invariant | |
| `FileWhileLogging` | `LoggingHasFile` | its strengthening in the proof |
| `LogWithinCount` | `NeverOverfull` | `BudgetInv` |
| `FramesOnTheBooks` | `FramesAccounted` | `AccountInv`, and the two above |
| `GameStateProofs!GameTypeCorrect` | the type invariant | `ButtonInv` for the counters |
| `ClicksCounted` | `ResultCountsClicks` | `ButtonInv` |
| `TaskOfState` | `TaskFitsState` | inductive with the types |
| `ClickFromCurrentState`, `BumpersOnlyBetweenGames` | `ClickAdvancesState`, `BumpersBetweenGames` | `LocalInv` |
| `ToolProofs!StreamBuffer` | `BufferInv` of `TCPStream` | inductive as it stands |
| `ThreadsInOrder` | `StreamInv`, `MutexHeld` of `TCPStream` | `BufferInv`, `ThreadInv` |
| `InterpreterSafe` | `InterpreterInv` of `Interpreter` | `PythonInv` |
| `BehaviorProofs!FinishedRobotIsLimp` | `BehaviorInv` | `SitInv` |
| `PoseHeld`, `LegsLetGo`, `FreshVisits` | `PoseIsHeld`, `LimpOnlyWhenSeated`, `VisitIsFresh` | `SitInv` |
| `ImageCaptureProofs!CaptureTypeCorrect` | the type invariant | `CaptureInv` |
| `ImagesSafe`, `HandedOverOnce` | `ImageNotOverwritten`, `EveryImageOnce` | `CaptureInv` |
| `NoBufferLost` | `DriverHasBuffer` | `CaptureInv` |

The assumptions are the named `ASSUME`s on the constants in the component
modules, and no others: any sets of speeds, targets, parameter sets, files and
counts, any bounds, any width of the counter. Those with content are the order of
the times in `Behavior` (`Ramp <= T07 < T2 < T3 < T5`, as 0.3, 0.7, 2, 3 and 5 s
are), the times of a click in `GameState`, at least three buffers in
`ImageCapture`, and the rates and the duration of a kick in `KickRound`.

The inductive invariants, and why they are needed:

* `CurrentInv` adds that motion's copy, between receive and publish, is the
  last publication unless vision has published since; without it nothing is
  known of what motion writes back.
* `KickStatusInv` adds the status in motion's copy from the receive on.
* `OdometryInv` adds what the two copies of the block owe each other while
  motion is in its frame: what vision took since the receive (`again`) and what
  is left in the shared block are together at most what motion holds, as long
  as the generators were not reset, and were cleared after that.
* `PoseInv` follows a pose through the three copies: vision starts a frame with
  no command, so a pose and its noWalk are published by the same step.
* `BudgetInv` counts: frames written plus frames left make up the count, plus
  one between a write and its count; a counter at 0 is about to end the log or
  was zeroed before the first frame.
* `AccountInv` keeps the account also while the file is being opened, when nothing
  of what is written counts, and says where vision is when the counter is at 0:
  about to end the log, so that the next count does not wrap.
* `CaptureInv` = `HandoverInv` (who has the mutex, what the flags say of `nextBuf`)
  and, per camera, `BufferInv`: either vision's buffer is not queued and, besides the
  forgotten ones, only that one is missing from the queue, or its dequeue failed and
  it is the last one of a queue with all that are left. The last element matters: of
  at least two, it is not the next one to be dequeued, so that the exchange after a
  failure finds another buffer. The third case is a camera's last buffer (`OneLeft`).
* `ButtonInv` ties `start` to the time the button has been down, without which
  nothing is known of a click when the button comes up, and says that results
  of the bumpers do not outlast a frame. It needs that a click's shortest time
  is below one frame and its longest below a second, as in the code.
* `LocalInv`: vision's two copies of the state are the state until it moves.
* `LandingExists`: the keyframe `Landing` chooses exists, by the least element
  of a set of numbers, which is proved from the induction in the prover.
* `KeyframeInv` (`OnTime`): at the end of each frame of motion the goal of the
  kick is a keyframe that takes time and of which no more has passed than it
  takes; without it nothing excludes that `Run` starts on a keyframe of no
  duration and stays there.
* `RoundInv` follows one visit of the Kick node. `RequestInv` says where the
  request is by the number of frames the node has counted, `RunningInv` which copy
  of `kick_running_` is current. `StillKicking` compares two clocks: as long as a
  request can still reach motion, the kick is younger than the frames motion can
  have run since the first request, which are fewer than a kick takes.
  `PerformKickAge` shows that a frame of motion makes the kick one frame older
  and ends it only at its full duration, whatever keyframes of no duration it
  has; `ElapsedFacts` gives the durations' sum by the least counterexample.
  `SeenInv` is the other half: after the first publication the next frame motion
  begins has the request, after the second the kick has been started, after the
  third vision has been told.
* `CycleInv`: motion has the mutex wherever it works (`Exclusion`), the two halves
  of a frame the callback writes differ only where motion cannot look with the
  mutex (`Whole`), what motion has read is of `frame_id` (`Read`), which is newer
  than the last mark (`Newer`), and a whole command is the one motion meant, plus
  the readings of its earlier sendings if it is relative (`Meant`). An ending motion that gives back a callback's mutex is
  the case that makes `Exclusion` hard: no motion runs until that callback is over.
* `ThreadInv` adds the order of a restart of the server (`Restart`): the accept of one
  server has cleared `accepting_connections_` before `loop_server` stops it, and the
  server thread is joined before the next start, or was overlooked because it did not
  exist yet.
* `PythonInv` adds where vision has an interpreter (`InterpreterUp`), that only a
  RunBehavior which met a broken python deletes the `PythonInterface` (`PyfaceUp`),
  and that a chosen behaviour is in an interpreter that has run a frame.
* `SitInv` follows a robot that sits down: what the state of `Sit` says of its
  timers (`SitOrder`), that nobody else moves the joints meanwhile (`Undisturbed`),
  that the pose has had its time (`Seated`), that the knees' release is sensed before the
  body's and the body's is then not left out (`Released`), and that limp joints
  are stiffened in time for the pose (`Stiffened`). `SensedInTime` connects the
  commanded stiffness with the sensed one that decides whether a command is left
  out. `OfThisVisit` ties a node's timer and signal to the present visit.

Each inductive invariant was checked by TLC on the constants of the component's run
before it was proved.

Checked by TLC only: liveness (`MotionKeepsUp`, `CallbacksEnd`, `KickEnds`,
`NodeCompletes`, `LogEndAnswered`, `FrameDelivered`, `WaitingThreadEnds`,
`RestartsUnlessMissed`, `ClicksReported`, `TasksFinish`, `RestartHonoured`,
`RestartEnds`, `ImagesKeepComing`), as the prover has no fairness and no
`ENABLED`. Every safety property of the runs is proved.

## 5. What is left out

* The exchange after a restart of motion: `shared_motion/main.cpp:69` removes
  and recreates `motion_vision_lock` while vision keeps the old one, so the
  merges are not atomic any more. The model has atomic merges.
* The tool's side of TCP, and the destruction of the server at exit.
* Text logs, the contents of frames, LEDs, speech, joint values, the gait.
* `setLogSelections`, which replaces the selections while vision reads them: a
  use after free has no state to model.
* `KickModule` when no file loads: `kick_running_` stays true for ever. It is
  modelled (`Loads`), and excluded from `KickEnds` by `seq # NULL`.
* In `Behavior`: what the head, the arms and the speech do, and the events no
  behaviour uses (`NegationEvent`, `IterationEvent`, `FailureEvent`, machines as
  nodes).
* A failed accept of the TCP server: it is modelled (`AcceptResults`), and nothing
  accepts any more after it, but no line of the repository says what should
  happen.
* What naoqi does with an exception that leaves a callback is not in the repository:
  the model assumes that the DCM goes on with the next callback. The two dequeues of
  `NaoCamera::updateBuffers` at the start are assumed to succeed; otherwise the run
  begins in a state of the kind that a failed dequeue leads to later.
* In `Behavior`: the stiffness the joints report (`Sensing`) is an environment with a
  lag of up to `Ramp` frames. The tool's SetStiffness packet and its manual control
  of the robot, which command the joints without a task, are omitted.
* Camera settings: `checkCameraParams` is never called.
* Everything marked *not modelled* in section 1: image processing, localization,
  kinematics and the gait are numeric and sequential, and the tool is a Qt user
  interface. They and the vendored libraries make up most of the repository's
  lines.

## 6. Plan

In order of importance:

1. done: `MotionVisionSync`, `MotionLoop`, `KickModule`, `KickRound`,
   `VisionLogging`, `TCPStream`, `GameState`, `Behavior`, `Interpreter`,
   `ImageCapture`.
2. done: a theorem for every invariant and action property of the runs. Left: the
   exchange of `KickRound` as a refinement of the kick part of `MotionVisionSync`.
3. `StreamBuffer`: `combine` and `separate` as operators, checked to be inverse
   over bounded buffers.
4. the exchange without mutual exclusion after motion's restart, as a variant of
   `MotionVisionSync` whose merges are cut into fields.
5. the client of `TCPConnection` and shutdown, composed with `TCPStream`.
6. `Getup` and special motions, when something requests them.
