------------------------------ MODULE Behavior ------------------------------
(***************************************************************************)
(* The behaviours vision runs in python: the task of the state of the game *)
(* (core/python/primary_bvr.py), the tasks of pose.py, and the state       *)
(* machines (state_machine.py) of behaviors/sample.py, kick.py,            *)
(* walk_kick.py and keeper.py.                                             *)
(*                                                                         *)
(* A frame is a step of primary_bvr, the checks of a machine's events, and *)
(* the run of one task or node.  Timers are kept as ages: one unit is one  *)
(* frame, and an age stops growing at the largest time it is compared      *)
(* with.  What the tasks command is kept as far as it matters to the legs: *)
(* the stiffness and the last body command.                                *)
(***************************************************************************)
EXTENDS Integers, Sequences

CONSTANTS
  Behaviors,   \* the behaviours that may be loaded: "sample", "kick", "walk_kick", "keeper"
  States,      \* the states of the game
  T07,         \* 0.7 s, in frames
  T2, T3, T5,  \* 2, 3 and 5 s
  Ramp,        \* frames a change of stiffness needs to be sensed
  KickTime     \* how long a kick lasts in motion

ASSUME BehaviorsAssumption == Behaviors \subseteq {"sample", "kick", "walk_kick", "keeper"}
ASSUME StatesAssumption ==
  States \subseteq {"INITIAL", "READY", "SET", "PLAYING", "PENALISED", "FINISHED"}
ASSUME TimesAssumption ==
  /\ {T07, T2, T3, T5, Ramp, KickTime} \subseteq Nat \ {0}
  /\ Ramp <= T07 /\ T07 < T2 /\ T2 < T3 /\ T3 < T5

VARIABLES
  pc,       \* "wait", "bvr", "run", "events", "node": where vision is in its frame
  gs,       \* primary_bvr.currentState
  fallen,   \* what checkFallen returned
  task,     \* currentTask: its kind and behaviour, its age, whether it has started and finished
  node,     \* the node of the Playing machine: its index, age, completion, signal
  sit,      \* the Sit task: its age, its state and that state's age, its subtask
  walkOn,   \* the walk request asks the walk engine for something
  kickLeft, \* frames for which motion still kicks
  stiff,    \* the stiffness commanded last, and for how long
  sensed,   \* core.joint_stiffness
  (* history *)
  body,     \* the last body command: who gave it, and for how long it has stood
  visit,    \* how long the node has been the current one, and the signal posted in that time
  upset     \* since the Sit task began: falls and kicks in progress

vars == <<pc, gs, fallen, task, node, sit, walkOn, kickLeft, stiff, sensed, body, visit, upset>>

(* Bound: the largest age a node's timer is compared with. *)
MaxNodeAge == IF T5 > 10 THEN T5 + 1 ELSE 11

Capped(n, max) == IF n > max THEN max ELSE n

-----------------------------------------------------------------------------
(* The machines of behaviors/*.py.  A node is its index; C, T and S are the     *)
(* events of state_machine.py.  finish = 0 is a machine that has no finish node.*)
C == [on |-> "C"]
T(t) == [on |-> "T", time |-> t]
S(s) == [on |-> "S", signal |-> s]

(* StateMachine._add_transition: a chain of nodes, the last one the finish node. *)
Chain(kinds, events) ==
  [kinds  |-> kinds,
   events |-> [i \in 1..Len(kinds) |->
                 IF i = Len(kinds) THEN <<>> ELSE <<[event |-> events[i], target |-> i + 1]>>],
   finish |-> Len(kinds)]

Keeper ==
  LET block == <<[event |-> T(T5), target |-> 1]>>
  IN [kinds  |-> <<"Blocker", "Block", "Block", "Block">>,
      events |-> << <<[event |-> S("left"), target |-> 2],
                      [event |-> S("right"), target |-> 3],
                      [event |-> S("center"), target |-> 4]>>, block, block, block>>,
      finish |-> 0]

Machine(b) ==
  CASE b = "sample" -> Chain(<<"Stand", "Walk", "Sit", "Off">>, <<C, T(T5), C>>)
    [] b = "kick" -> Chain(<<"Stand", "Kick", "Stand", "Sit", "Off">>, <<C, C, C, C>>)
    [] b = "walk_kick" -> Chain(<<"Stand", "Kick", "Stand", "Walk", "Stand", "Sit", "Off">>,
                                <<C, C, C, T(T5), C, C>>)
    [] OTHER -> Keeper

(* How long Stand.run stands: 5 s in sample.py, 3 s in kick.py and walk_kick.py. *)
StandTime(b) == IF b = "sample" THEN T5 ELSE T3

Kind == Machine(task.bvr).kinds[node.at]

-----------------------------------------------------------------------------
(* Node.reset: the timer, the completion and the signal are those of a new visit. *)
ResetNode_KeepsCompletion(i) == [at |-> i, age |-> 0, complete |-> node.complete, out |-> "None"]
ResetNode(i) == [at |-> i, age |-> 0, complete |-> FALSE, out |-> "None"]

NewVisit == [age |-> 0, signal |-> "None"]

(* Sit.__init__; a Sit task is reset, and starts, when its node is entered. *)
NewSit == [age |-> 0, state |-> "stop", stAge |-> 0, sub |-> "none", subAge |-> 0, finished |-> FALSE]

Calm == [fell |-> FALSE, kicked |-> FALSE]

(* createStateTask, with the Ready of sample.py and the Playing of a behaviour. *)
TaskKind(s) ==
  CASE s = "PLAYING" -> "Playing"
    [] s = "READY" -> "Ready"
    [] s = "PENALISED" -> "StandStraight"
    [] OTHER -> "Sit"

NewTask(s, b) ==
  [kind |-> TaskKind(s), bvr |-> IF s = "PLAYING" THEN b ELSE "None",
   age |-> 0, started |-> FALSE, finished |-> FALSE]

AreDistinct(s1, s2) == s1 # s2 /\ {s1, s2} # {"INITIAL", "FINISHED"}

(* The first frame creates the task of the initial state. *)
Init ==
  /\ pc = "run" /\ gs = "INITIAL" /\ fallen = FALSE
  /\ task = NewTask("INITIAL", "None")
  /\ node = [at |-> 1, age |-> 0, complete |-> FALSE, out |-> "None"] /\ visit = NewVisit
  /\ sit = NewSit
  /\ walkOn = FALSE /\ kickLeft = 0
  /\ stiff = [cmd |-> "Zero", age |-> Ramp] /\ sensed = "Zero"
  /\ body = [by |-> "none", age |-> 0]
  /\ upset = Calm

-----------------------------------------------------------------------------
(* commands.setStiffness: nothing is sent when the joints are sensed to be at   *)
(* that stiffness already.                                                      *)
SetStiffness(c) ==
  stiff' = IF sensed = c \/ stiff.cmd = c THEN stiff ELSE [cmd |-> c, age |-> 0]

(* The command as it goes into the next frame: a kick in progress and, after    *)
(* it, the walk engine write the stiffness in every frame of motion.            *)
EngineCommand ==
  CASE walkOn -> "Engine"
    [] ~walkOn /\ kickLeft > 0 -> "One"
    [] OTHER -> stiff.cmd

(* The stiffness of the walk engine need not be that of cfgstiff.One. *)
Settled(c) == IF c = "Engine" THEN {"One", "mid"} ELSE {c}

(* What the joints report: the old stiffness, one on the way, or the new one. *)
Sensing(c, age) ==
  IF age >= Ramp THEN Settled(c) ELSE {sensed, "mid"} \cup Settled(c)

(* A kick in progress is not stopped by anything vision asks for. *)
KickGoesOn == IF kickLeft > 0 THEN kickLeft - 1 ELSE 0

(* The frames motion runs between two frames of vision. *)
MotionFrames ==
  LET age == IF EngineCommand # stiff.cmd THEN 0 ELSE Capped(stiff.age + 1, Ramp)
  IN /\ stiff' = [cmd |-> EngineCommand, age |-> age]
     /\ sensed' \in Sensing(EngineCommand, age)
     /\ kickLeft' = KickGoesOn
     /\ body' = CASE walkOn -> [by |-> "engine", age |-> 0]
                  [] ~walkOn /\ kickLeft > 0 -> [by |-> "kick", age |-> 0]
                  [] OTHER -> [body EXCEPT !.age = Capped(@ + 1, T2 + 1)]

(* Time passes, and motion runs.  The timers of a task run from its start. *)
Tick ==
  /\ pc = "wait"
  /\ pc' = "bvr"
  /\ MotionFrames
  /\ IF task.started
     THEN /\ task' = [task EXCEPT !.age = Capped(@ + 1, T5 + 1)]
          /\ node' = [node EXCEPT !.age = Capped(@ + 1, MaxNodeAge)]
          /\ sit' = [sit EXCEPT !.age = Capped(@ + 1, T2), !.stAge = Capped(@ + 1, T07 + 1),
                                !.subAge = Capped(@ + 1, T2 + 1)]
          /\ visit' = [visit EXCEPT !.age = Capped(@ + 1, MaxNodeAge)]
     ELSE UNCHANGED <<task, node, sit, visit>>
  /\ upset' = [upset EXCEPT !.kicked = @ \/ kickLeft > 0]
  /\ UNCHANGED <<gs, fallen, walkOn>>

(* primary_bvr.processFrame up to the run of the task.  A behaviour loaded      *)
(* since the last change of state comes into use with the new task.  While      *)
(* fallen the task is not run, but its timers go on.                            *)
ProcessFrame(s, down, b) ==
  /\ pc = "bvr"
  /\ gs' = s
  /\ fallen' = (down /\ s \in {"READY", "PLAYING"})
  /\ IF AreDistinct(s, gs)
     THEN /\ task' = NewTask(s, b) /\ node' = ResetNode(1) /\ visit' = NewVisit
          /\ sit' = NewSit
          /\ upset' = [fell |-> fallen', kicked |-> kickLeft > 0]
     ELSE UNCHANGED <<task, node, sit, visit>> /\ upset' = [upset EXCEPT !.fell = @ \/ fallen']
  /\ IF fallen'
     THEN pc' = "wait" /\ SetStiffness("Zero") /\ walkOn' = FALSE
     ELSE pc' = "run" /\ UNCHANGED <<stiff, walkOn>>
  /\ UNCHANGED <<kickLeft, sensed, body>>

-----------------------------------------------------------------------------
(* The guards of Sit.run and ToPose.run on their timers. *)
StillStopping_Once == sit.age = 0
StillStopping == sit.age < T2

KneesRelaxed == sit.stAge > T07

PoseReached_AtOnce == TRUE
PoseReached == sit.subAge > T2

(* Sit.run.  The subtask it returns is a ToPoseMoveHead; armsBack is what the   *)
(* shoulders' sensors say.                                                      *)
SitAdvances(armsBack) ==
  CASE sit.state \in {"stop", "checkarms"} ->
         [sit EXCEPT !.state = IF armsBack THEN "movearms" ELSE "sit", !.stAge = 0]
    [] sit.state = "movearms" -> [sit EXCEPT !.state = "sit", !.stAge = 0, !.sub = "new"]
    [] sit.state = "sit" -> [sit EXCEPT !.state = "relaxknee", !.stAge = 0, !.sub = "new"]
    [] sit.state = "relaxknee" -> [sit EXCEPT !.state = "relaxbody", !.stAge = 0]
    [] sit.state = "relaxbody" /\ KneesRelaxed -> [sit EXCEPT !.state = "finish", !.stAge = 0]
    [] sit.state = "finish" -> [sit EXCEPT !.finished = TRUE]
    [] OTHER -> sit

(* Its stiffness commands. *)
SitStiffness_KneesOnly ==
  IF sit.state = "relaxknee" THEN SetStiffness("Knee") ELSE UNCHANGED stiff
SitStiffness ==
  CASE sit.state = "relaxknee" -> SetStiffness("Knee")
    [] sit.state = "relaxbody" /\ KneesRelaxed -> SetStiffness("Zero")
    [] OTHER -> UNCHANGED stiff

(* The subtask, a MultiTask of ToPose and MoveHead: started in its first frame, *)
(* over when both of its parts are, and finished one frame later.               *)
RunPose ==
  \/ /\ sit.sub = "new"
     /\ sit' = [sit EXCEPT !.sub = "posing", !.subAge = 0]
     /\ walkOn' = FALSE
     /\ body' = [by |-> "pose", age |-> 0]
  \/ /\ sit.sub = "posing"
     /\ sit' = IF PoseReached THEN [sit EXCEPT !.sub = "posed"] ELSE sit
     /\ UNCHANGED <<walkOn, body>>
  \/ /\ sit.sub = "posed"
     /\ sit' = [sit EXCEPT !.sub = "none"]
     /\ UNCHANGED <<walkOn, body>>

(* Task.processFrame of Sit: its own run only when there is no unfinished subtask. *)
SitFrame ==
  \/ /\ ~sit.finished /\ sit.sub # "none"
     /\ RunPose
     /\ UNCHANGED stiff
  \/ /\ ~sit.finished /\ sit.sub = "none" /\ StillStopping
     /\ SetStiffness("One")
     /\ walkOn' = FALSE
     /\ UNCHANGED <<sit, body>>
  \/ /\ ~sit.finished /\ sit.sub = "none" /\ ~StillStopping
     /\ \E armsBack \in BOOLEAN : sit' = SitAdvances(armsBack)
     /\ SitStiffness
     /\ UNCHANGED <<walkOn, body>>
  \/ sit.finished /\ UNCHANGED <<sit, stiff, walkOn, body>>

-----------------------------------------------------------------------------
(* BaseTask._startrun of a task that is no state machine. *)
RunTask ==
  /\ pc = "run" /\ task.kind # "Playing"
  /\ pc' = "wait"
  /\ \/ /\ task.kind = "Sit"
        /\ SitFrame
        /\ task' = [task EXCEPT !.started = TRUE, !.finished = sit'.finished]
     \/ /\ task.kind = "Ready" /\ ~task.finished
        /\ walkOn' = TRUE
        /\ task' = [task EXCEPT !.started = TRUE, !.finished = task.age > T5]
        /\ UNCHANGED <<sit, stiff, body>>
     \/ /\ task.kind = "StandStraight" /\ ~task.finished
        /\ walkOn' = TRUE
        /\ \E standing \in BOOLEAN :   \* received_, then finished_standing_
              task' = [task EXCEPT !.started = TRUE, !.finished = standing \/ task.age > T2]
        /\ UNCHANGED <<sit, stiff, body>>
     \/ /\ task.kind # "Sit" /\ task.finished
        /\ UNCHANGED <<task, sit, walkOn, stiff, body>>
  /\ UNCHANGED <<gs, fallen, node, kickLeft, sensed, visit, upset>>

(* StateMachine.run begins with the events; a finished machine is not run. *)
RunMachine ==
  /\ pc = "run" /\ task.kind = "Playing"
  /\ pc' = IF task.finished THEN "wait" ELSE "events"
  /\ task' = [task EXCEPT !.started = TRUE]
  /\ UNCHANGED <<gs, fallen, node, sit, walkOn, kickLeft, stiff, sensed, body, visit, upset>>

Ready(e) ==
  CASE e.on = "C" -> node.complete
    [] e.on = "T" -> node.age > e.time
    [] e.on = "S" -> node.out = e.signal

Transitions == Machine(task.bvr).events[node.at]

(* One turn of the loop of StateMachine.run: the first event that is ready      *)
(* moves the machine, and the new node's events are looked at in the same frame *)
(* unless it is the finish node.                                                *)
FireEvent ==
  /\ pc = "events"
  /\ \E i \in DOMAIN Transitions :
       LET to == Transitions[i].target
           last == to = Machine(task.bvr).finish
       IN /\ Ready(Transitions[i].event)
          /\ \A j \in 1..(i - 1) : ~Ready(Transitions[j].event)
          /\ node' = ResetNode(to)
          /\ visit' = NewVisit
          /\ task' = [task EXCEPT !.finished = last]
          /\ pc' = IF last THEN "node" ELSE "events"
          /\ sit' = IF Machine(task.bvr).kinds[to] = "Sit" THEN NewSit ELSE sit
          /\ upset' = IF Machine(task.bvr).kinds[to] = "Sit"
                      THEN [fell |-> FALSE, kicked |-> kickLeft > 0] ELSE upset
  /\ UNCHANGED <<gs, fallen, walkOn, kickLeft, stiff, sensed, body>>

NoEvent ==
  /\ pc = "events"
  /\ \A i \in DOMAIN Transitions : ~Ready(Transitions[i].event)
  /\ pc' = "node"
  /\ UNCHANGED <<gs, fallen, task, node, sit, walkOn, kickLeft, stiff, sensed, body, visit, upset>>

(* Node.processFrame of the current node. *)
StandNode ==
  /\ Kind = "Stand"
  /\ walkOn' = TRUE
  /\ node' = [node EXCEPT !.complete = node.age > StandTime(task.bvr)]
  /\ UNCHANGED <<sit, kickLeft, stiff, body, visit>>

WalkNode ==
  /\ Kind = "Walk"
  /\ walkOn' = TRUE
  /\ UNCHANGED <<node, sit, kickLeft, stiff, body, visit>>

KickOver_WhileRunning == node.age > 10 /\ kickLeft > 0
KickOver == node.age > 10 /\ kickLeft = 0

(* A kick that is asked for begins unless one is going on; the node sees the    *)
(* kick_running_ of the last exchange.                                          *)
KickNode ==
  /\ Kind = "Kick"
  /\ walkOn' = IF node.age <= 3 THEN FALSE ELSE walkOn
  /\ kickLeft' = IF node.age <= 3 /\ kickLeft = 0 THEN KickTime ELSE kickLeft
  /\ node' = [node EXCEPT !.complete = KickOver]
  /\ UNCHANGED <<sit, stiff, body, visit>>

SitNode ==
  /\ Kind = "Sit"
  /\ SitFrame
  /\ node' = [node EXCEPT !.complete = sit'.finished]
  /\ UNCHANGED <<kickLeft, visit>>

OffNode ==
  /\ Kind = "Off"
  /\ SetStiffness("Zero")
  /\ UNCHANGED <<node, sit, walkOn, kickLeft, body, visit>>

(* The ball is far, or close and on one of three sides. *)
BlockerNode ==
  /\ Kind = "Blocker"
  /\ \E signal \in {"None", "left", "right", "center"} :
       IF signal = "None" THEN UNCHANGED <<node, visit>>
       ELSE node' = [node EXCEPT !.out = signal] /\ visit' = [visit EXCEPT !.signal = signal]
  /\ UNCHANGED <<sit, walkOn, kickLeft, stiff, body>>

BlockNode == Kind = "Block" /\ UNCHANGED <<node, sit, walkOn, kickLeft, stiff, body, visit>>

RunNode ==
  /\ pc = "node"
  /\ pc' = "wait"
  /\ StandNode \/ WalkNode \/ KickNode \/ SitNode \/ OffNode \/ BlockerNode \/ BlockNode
  /\ UNCHANGED <<gs, fallen, task, sensed, upset>>

-----------------------------------------------------------------------------
Next ==
  \/ Tick
  \/ \E s \in States, down \in BOOLEAN, b \in Behaviors : ProcessFrame(s, down, b)
  \/ RunTask \/ RunMachine \/ FireEvent \/ NoEvent \/ RunNode

Spec == Init /\ [][Next]_vars

(* Vision's loop goes on. *)
FairSpec == Spec /\ WF_vars(Next)

-----------------------------------------------------------------------------
(* Properties. *)

TypeOK ==
  /\ pc \in {"wait", "bvr", "run", "events", "node"}
  /\ gs \in States \cup {"INITIAL"} /\ fallen \in BOOLEAN
  /\ task \in [kind : {"Sit", "StandStraight", "Ready", "Playing"}, bvr : Behaviors \cup {"None"},
               age : 0..(T5 + 1), started : BOOLEAN, finished : BOOLEAN]
  /\ node \in [at : 1..7, age : 0..MaxNodeAge, complete : BOOLEAN,
               out : {"None", "left", "right", "center"}]
  /\ task.kind = "Playing" => task.bvr # "None" /\ node.at \in DOMAIN Machine(task.bvr).kinds
  /\ sit \in [age : 0..T2, state : {"stop", "checkarms", "movearms", "sit", "relaxknee",
                                    "relaxbody", "finish"},
              stAge : 0..(T07 + 1), sub : {"none", "new", "posing", "posed"},
              subAge : 0..(T2 + 1), finished : BOOLEAN]
  /\ walkOn \in BOOLEAN /\ kickLeft \in 0..KickTime
  /\ stiff \in [cmd : {"One", "Engine", "Knee", "Zero"}, age : 0..Ramp]
  /\ sensed \in {"One", "mid", "Knee", "Zero"}

(* The legs are let go, except after a fall, only when the last body command is *)
(* a sitting pose that has had its two seconds.  A kick that was still going on *)
(* when the Sit task began is the exception: nothing stops it, and it lasts     *)
(* longer than Sit waits.                                                       *)
LimpOnlyWhenSeated ==
  [][stiff.cmd # "Zero" /\ stiff'.cmd = "Zero" /\ ~fallen'
       => (body.by = "pose" /\ body.age > T2) \/ upset.kicked]_vars

(* A pose is sent to joints that hold: the stiffness Sit asked for in its first *)
(* two seconds was not dropped because the joints were still sensed stiff while *)
(* they were being released.                                                    *)
PoseIsHeld ==
  [][body'.by = "pose" /\ body' # body /\ body'.age = 0 => stiff.cmd # "Zero" \/ upset.fell]_vars

(* A Sit task, or a machine, that has finished leaves the joints released,      *)
(* although each of its commands is given once and may be left out.             *)
FinishedIsLimp ==
  pc = "wait" /\ (task.kind = "Sit" \/ task.kind = "Playing") /\ task.finished
    => stiff.cmd = "Zero" \/ upset.kicked

(* The invariant: the types, and FinishedIsLimp. *)
BehaviorInv == TypeOK /\ FinishedIsLimp

(* Each visit of a node is a new one, however often the node was left before    *)
(* and whatever was left in it: it is run at least once, although the loop over *)
(* the events goes on with it in the same frame; a time event is measured from  *)
(* its entry and taken in the first frame after its time; and the keeper blocks *)
(* only where the ball was seen since it last went back to watching.            *)
VisitIsFresh ==
  [][/\ FireEvent => visit.age > 0
     /\ \A i \in DOMAIN Transitions :
          Transitions[i].event.on = "T" =>
            /\ FireEvent => visit.age > Transitions[i].event.time
            /\ NoEvent => visit.age <= Transitions[i].event.time
     /\ Kind = "Blocker" /\ FireEvent => visit.signal # "None" /\ visit.signal = node.out]_vars

(* The state machine of a behaviour that is left to play, upright, comes to its *)
(* end, and the keeper goes on watching for the ball.                           *)
MachineFinishes ==
  <>[](gs = "PLAYING" /\ ~fallen)
    => <>[]task.finished \/ []<>(task.bvr = "keeper" /\ node.at = 1)

(* So does the Sit task of a robot out of play, even when its state goes back   *)
(* and forth between initial and finished.                                      *)
SitFinishes == <>[](gs \in {"INITIAL", "FINISHED"}) => <>[](task.kind = "Sit" /\ task.finished)

(* What a robot that is left alone was told to do comes to an end. *)
TasksFinish == MachineFinishes /\ SitFinishes
=============================================================================
