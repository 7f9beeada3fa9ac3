--------------------------- MODULE BehaviorProofs ---------------------------
(***************************************************************************)
(* Proofs about Behavior: the legs are let go only by a robot that sits,   *)
(* a pose is sent to joints that hold, and each visit of a node of a state *)
(* machine is a new one, for every length of the timers that agrees with   *)
(* TimesAssumption.                                                        *)
(*                                                                         *)
(* Sit gives each of its commands once and the stiffness commands are      *)
(* left out when the joints are sensed to have them already.  What makes   *)
(* it work is time: the invariant relates the ages of Sit's timers to the  *)
(* ages of the last stiffness and of the last body command.                *)
(***************************************************************************)
EXTENDS Behavior, TLAPS

Playing == task.kind = "Playing"

(* A Sit task or node is the current one, or the Off node behind it: nobody else *)
(* asks for a walk, a kick or a pose.                                            *)
Sitting == task.kind = "Sit" \/ (Playing /\ Kind \in {"Sit", "Off"})

(* The types of the history. *)
HistoryOK ==
  /\ body \in [by : {"none", "kick", "engine", "pose"}, age : 0..(T2 + 1)]
  /\ visit \in [age : 0..MaxNodeAge, signal : {"None", "left", "right", "center"}]
  /\ upset \in [fell : BOOLEAN, kicked : BOOLEAN]

(* Where vision is in its frame, and in the machine. *)
InFrame ==
  /\ pc \in {"events", "node"} => Playing /\ task.started
  /\ pc = "events" => ~task.finished
  /\ Playing /\ task.finished => Kind = "Off"
  /\ Playing /\ Kind = "Off" => sit.finished
  /\ Playing /\ Kind = "Sit" /\ node.complete => sit.finished
  /\ task.kind = "Sit" /\ task.finished => sit.finished

(* The visit of a node: its timer and its signal are the node's, and a node that *)
(* has completed or posted a signal did so in an earlier frame.                  *)
OfThisVisit ==
  /\ visit.age = node.age /\ visit.signal = node.out
  /\ node.complete \/ node.out # "None" =>
       task.started /\ (pc # "wait" => node.age > 0)

(* The joints are sensed at the stiffness that has been commanded long enough. *)
SensedInTime == stiff.age >= Ramp => sensed \in Settled(stiff.cmd)

(* What Sit has done by the state it is in. *)
SitOrder ==
  /\ sit.state # "stop" \/ sit.sub # "none" => sit.age >= T2
  /\ sit.sub # "none" => sit.state \in {"sit", "relaxknee"}
  /\ sit.finished => sit.state = "finish"

(* While the robot sits nothing but a kick from before drives its joints. *)
Undisturbed ==
  Sitting =>
    /\ kickLeft > 0 => upset.kicked
    /\ walkOn => /\ pc \in {"run", "events", "node"}
                 /\ sit.age = 0 /\ sit.sub = "none" /\ ~sit.finished

(* The pose that lets the robot sit has had its time. *)
Seated ==
  Sitting /\ ~upset.kicked =>
    /\ sit.sub = "posing" => body.by = "pose" /\ body.age >= sit.subAge
    /\ sit.sub = "posed" \/ (sit.state = "relaxknee" /\ sit.sub = "none")
         \/ sit.state \in {"relaxbody", "finish"}
         => body.by = "pose" /\ body.age > T2

(* Once the knees are relaxed their stiffness has been sensed before the body is *)
(* relaxed; after that everything is.                                            *)
Released ==
  Sitting /\ ~upset.kicked =>
    /\ sit.state = "relaxbody" /\ stiff.cmd # "Zero" /\ stiff.age < Ramp =>
         sit.stAge <= stiff.age
    /\ sit.state = "finish" => stiff.cmd = "Zero"

(* Before the legs are let go, joints that are limp have been so only since Sit  *)
(* began, and are made stiff as soon as they are sensed to be limp.              *)
Stiffened ==
  Sitting /\ ~upset.fell /\ sit.state # "finish" /\ stiff.cmd = "Zero" =>
    sit.age <= stiff.age /\ (pc = "wait" => stiff.age < Ramp)

(* The inductive invariant. *)
SitInv ==
  /\ TypeOK /\ HistoryOK /\ InFrame /\ OfThisVisit /\ SensedInTime /\ SitOrder
  /\ Undisturbed /\ Seated /\ Released /\ Stiffened

-----------------------------------------------------------------------------
(* The machines. *)

Kinds(b) == Machine(b).kinds
KindSet == {"Stand", "Walk", "Kick", "Sit", "Off", "Blocker", "Block"}

(* A machine has at most seven nodes, and does not begin with a Sit or Off node; *)
(* its finish node is an Off node.                                               *)
NodesOK(b) ==
  /\ DOMAIN Kinds(b) \subseteq 1..7 /\ 1 \in DOMAIN Kinds(b)
  /\ \A i \in DOMAIN Kinds(b) : Kinds(b)[i] \in KindSet
  /\ Kinds(b)[1] \notin {"Sit", "Off"}

(* A transition leads to a node of the machine; an Off node is the finish node   *)
(* and is entered from a Sit node only; a time event is alone in its node; and   *)
(* only a Blocker node waits for signals, which are never None.                  *)
TransitionOK(b, i, tr, dom) ==
  /\ tr.target \in DOMAIN Kinds(b)
  /\ tr.target = Machine(b).finish <=> Kinds(b)[tr.target] = "Off"
  /\ Kinds(b)[tr.target] = "Off" <=> Kinds(b)[i] = "Sit"
  /\ \/ tr.event = C /\ Kinds(b)[i] # "Blocker"
     \/ tr.event = T(T5) /\ dom = {1} /\ Kinds(b)[i] \notin {"Blocker", "Sit"}
     \/ tr.event \in {S("left"), S("right"), S("center")} /\ Kinds(b)[i] = "Blocker"

ShapeOK(b) ==
  /\ NodesOK(b)
  /\ \A i \in DOMAIN Kinds(b) : \A j \in DOMAIN Machine(b).events[i] :
       TransitionOK(b, i, Machine(b).events[i][j], DOMAIN Machine(b).events[i])

(* sample.py, kick.py, walk_kick.py: chains. *)
LEMMA SampleShape == ShapeOK("sample")
<1> DEFINE kinds == <<"Stand", "Walk", "Sit", "Off">>
           events == <<C, T(T5), C>>
           m == Machine("sample")
<1>1. m = Chain(kinds, events)
  BY DEF Machine
<1>2. Len(kinds) = 4 /\ DOMAIN kinds = 1..4
  OBVIOUS
<1>3. Kinds("sample") = kinds /\ m.finish = 4
  BY <1>1, <1>2 DEF Kinds, Chain
<1>4. NodesOK("sample")
  BY <1>2, <1>3 DEF NodesOK, KindSet
<1>5. ASSUME NEW i \in 1..4, NEW j \in DOMAIN m.events[i]
      PROVE  TransitionOK("sample", i, m.events[i][j], DOMAIN m.events[i])
  <2>1. /\ i \in 1..(4 - 1) /\ DOMAIN m.events[i] = {1}
        /\ m.events[i][j] = [event |-> events[i], target |-> i + 1]
    <3> HIDE DEF kinds, events, m
    <3>1. m.events[i] = IF i = 4 THEN <<>> ELSE <<[event |-> events[i], target |-> i + 1]>>
      BY <1>1, <1>2 DEF Chain
    <3> QED
      BY <1>5, <3>1
  <2> HIDE DEF m
  <2> QED
    BY <1>2, <1>3, <2>1 DEF TransitionOK, m
<1> QED
  BY <1>2, <1>3, <1>4, <1>5 DEF ShapeOK

LEMMA KickShape == ShapeOK("kick")
<1> DEFINE kinds == <<"Stand", "Kick", "Stand", "Sit", "Off">>
           events == <<C, C, C, C>>
           m == Machine("kick")
<1>1. m = Chain(kinds, events)
  BY DEF Machine
<1>2. Len(kinds) = 5 /\ DOMAIN kinds = 1..5
  OBVIOUS
<1>3. Kinds("kick") = kinds /\ m.finish = 5
  BY <1>1, <1>2 DEF Kinds, Chain
<1>4. NodesOK("kick")
  BY <1>2, <1>3 DEF NodesOK, KindSet
<1>5. ASSUME NEW i \in 1..5, NEW j \in DOMAIN m.events[i]
      PROVE  TransitionOK("kick", i, m.events[i][j], DOMAIN m.events[i])
  <2>1. /\ i \in 1..(5 - 1) /\ DOMAIN m.events[i] = {1}
        /\ m.events[i][j] = [event |-> events[i], target |-> i + 1]
    <3> HIDE DEF kinds, events, m
    <3>1. m.events[i] = IF i = 5 THEN <<>> ELSE <<[event |-> events[i], target |-> i + 1]>>
      BY <1>1, <1>2 DEF Chain
    <3> QED
      BY <1>5, <3>1
  <2> HIDE DEF m
  <2> QED
    BY <1>2, <1>3, <2>1 DEF TransitionOK, m
<1> QED
  BY <1>2, <1>3, <1>4, <1>5 DEF ShapeOK

LEMMA WalkKickShape == ShapeOK("walk_kick")
<1> DEFINE kinds == <<"Stand", "Kick", "Stand", "Walk", "Stand", "Sit", "Off">>
           events == <<C, C, C, T(T5), C, C>>
           m == Machine("walk_kick")
<1>1. m = Chain(kinds, events)
  BY DEF Machine
<1>2. Len(kinds) = 7 /\ DOMAIN kinds = 1..7
  OBVIOUS
<1>3. Kinds("walk_kick") = kinds /\ m.finish = 7
  BY <1>1, <1>2 DEF Kinds, Chain
<1>4. NodesOK("walk_kick")
  BY <1>2, <1>3 DEF NodesOK, KindSet
<1>5. ASSUME NEW i \in 1..7, NEW j \in DOMAIN m.events[i]
      PROVE  TransitionOK("walk_kick", i, m.events[i][j], DOMAIN m.events[i])
  <2>1. /\ i \in 1..(7 - 1) /\ DOMAIN m.events[i] = {1}
        /\ m.events[i][j] = [event |-> events[i], target |-> i + 1]
    <3> HIDE DEF kinds, events, m
    <3>1. m.events[i] = IF i = 7 THEN <<>> ELSE <<[event |-> events[i], target |-> i + 1]>>
      BY <1>1, <1>2 DEF Chain
    <3> QED
      BY <1>5, <3>1
  <2> HIDE DEF m
  <2> QED
    BY <1>2, <1>3, <2>1 DEF TransitionOK, m
<1> QED
  BY <1>2, <1>3, <1>4, <1>5 DEF ShapeOK

(* keeper.py. *)
LEMMA KeeperShape == ASSUME NEW b, b \notin {"sample", "kick", "walk_kick"} PROVE ShapeOK(b)
<1>1. Machine(b) = Keeper
  BY DEF Machine
<1>2. Kinds(b) = <<"Blocker", "Block", "Block", "Block">> /\ Machine(b).finish = 0
  BY <1>1 DEF Kinds, Keeper
<1>3. NodesOK(b)
  BY <1>2 DEF NodesOK, KindSet
<1>4. ASSUME NEW i \in 1..4, NEW j \in DOMAIN Machine(b).events[i]
      PROVE  TransitionOK(b, i, Machine(b).events[i][j], DOMAIN Machine(b).events[i])
  <2>1. CASE i = 1
    <3>1. Machine(b).events[i] = <<[event |-> S("left"), target |-> 2],
            [event |-> S("right"), target |-> 3], [event |-> S("center"), target |-> 4]>>
      BY <1>1, <2>1 DEF Keeper
    <3> QED
      BY <1>2, <2>1, <3>1 DEF TransitionOK
  <2>2. CASE i # 1
    <3>1. Machine(b).events[i] = <<[event |-> T(T5), target |-> 1]>>
      BY <1>1, <2>2 DEF Keeper
    <3> QED
      BY <1>2, <2>2, <3>1 DEF TransitionOK
  <2> QED
    BY <2>1, <2>2
<1> QED
  BY <1>2, <1>3, <1>4 DEF ShapeOK

(* Every behaviour's machine is of this shape. *)
LEMMA MachineShape == ASSUME NEW b PROVE ShapeOK(b)
  BY SampleShape, KickShape, WalkKickShape, KeeperShape

-----------------------------------------------------------------------------
(* A frame of Sit. *)

(* The times as the provers need them. *)
LEMMA Times ==
  /\ T07 \in Nat /\ T2 \in Nat /\ T3 \in Nat /\ T5 \in Nat /\ Ramp \in Nat /\ KickTime \in Nat
  /\ 0 < Ramp /\ 0 < KickTime /\ Ramp <= T07 /\ T07 < T2 /\ T2 < T3 /\ T3 < T5
  BY TimesAssumption

SitRec ==
  [age : 0..T2,
   state : {"stop", "checkarms", "movearms", "sit", "relaxknee", "relaxbody", "finish"},
   stAge : 0..(T07 + 1), sub : {"none", "new", "posing", "posed"},
   subAge : 0..(T2 + 1), finished : BOOLEAN]
StiffRec == [cmd : {"One", "Engine", "Knee", "Zero"}, age : 0..Ramp]
BodyRec == [by : {"none", "kick", "engine", "pose"}, age : 0..(T2 + 1)]

(* What a frame of Sit reads and writes. *)
SitTypes ==
  /\ sit \in SitRec /\ stiff \in StiffRec /\ body \in BodyRec
  /\ sensed \in {"One", "mid", "Knee", "Zero"} /\ kickLeft \in Nat

(* The part of the invariant that a frame of Sit can disturb. *)
SitPart ==
  SitTypes /\ SensedInTime /\ SitOrder /\ Undisturbed /\ Seated /\ Released /\ Stiffened

(* The numbers of a frame of Sit. *)
SitNumbers ==
  /\ sit.age \in Nat /\ sit.age <= T2 /\ sit.stAge \in Nat /\ sit.subAge \in Nat
  /\ stiff.age \in Nat /\ stiff.age <= Ramp /\ body.age \in Nat

LEMMA SitIsNumbers == ASSUME SitTypes PROVE SitNumbers
  BY Times DEF SitTypes, SitNumbers, SitRec, StiffRec, BodyRec

(* A frame of the pose Sit has asked for. *)
LEMMA RunPoseStep ==
  ASSUME SitPart, Sitting, ~walkOn, sit.sub # "none", ~sit.finished, RunPose, pc # "wait",
         UNCHANGED <<stiff, kickLeft, sensed, upset>>
  PROVE  SitPart' /\ walkOn' = FALSE
<1> DEFINE same == /\ sit'.age = sit.age /\ sit'.state = sit.state /\ sit'.stAge = sit.stAge
                   /\ ~sit'.finished
<1>1. SitNumbers /\ SitOrder /\ Undisturbed /\ Seated /\ Released /\ Stiffened /\ sit.age >= T2
  BY SitIsNumbers DEF SitPart, SitOrder
<1>2. CASE sit.sub = "new"
  <2>1. sit' \in SitRec /\ same /\ sit'.sub = "posing" /\ sit'.subAge = 0
    <3>1. sit' = [sit EXCEPT !.sub = "posing", !.subAge = 0] /\ sit \in SitRec
      BY <1>2 DEF SitPart, SitTypes, RunPose
    <3>2. 0 \in 0..(T2 + 1)
      BY Times
    <3>3. sit' \in SitRec
      BY <3>1, <3>2 DEF SitRec
    <3>4. sit'.sub = "posing" /\ sit'.subAge = 0 /\ same
      BY <3>1 DEF SitRec
    <3> QED
      BY <3>3, <3>4
  <2>2. body' = [by |-> "pose", age |-> 0] /\ walkOn' = FALSE
    BY <1>2 DEF RunPose
  <2>3. SitTypes'
    BY <2>1, <2>2, Times DEF SitPart, SitTypes, BodyRec
  <2>4. SitOrder'
    BY <1>1, <1>2, <2>1 DEF SitOrder
  <2>5. Undisturbed'
    BY <1>1, <2>2 DEF Undisturbed
  <2>6. Seated'
    BY <1>1, <1>2, <2>1, <2>2 DEF Seated, SitOrder
  <2>7. Released'
    BY <1>1, <1>2, <2>1 DEF Released, SitOrder
  <2>8. Stiffened'
    BY <1>1, <1>2, <2>1, Times DEF Stiffened, SitOrder, SitNumbers
  <2> QED
    BY <2>2, <2>3, <2>4, <2>5, <2>6, <2>7, <2>8 DEF SitPart, SensedInTime
<1>3. CASE sit.sub = "posing" /\ PoseReached
  <2>1. sit' \in SitRec /\ same /\ sit'.sub = "posed"
    <3>1. sit' = [sit EXCEPT !.sub = "posed"] /\ sit \in SitRec
      BY <1>3 DEF SitPart, SitTypes, RunPose
    <3>2. sit' \in SitRec
      BY <3>1 DEF SitRec
    <3>3. sit'.sub = "posed" /\ same
      BY <3>1 DEF SitRec
    <3> QED
      BY <3>2, <3>3
  <2>2. UNCHANGED body /\ walkOn' = FALSE
    BY <1>3 DEF RunPose
  <2>3. SitTypes'
    BY <2>1, <2>2 DEF SitPart, SitTypes
  <2>4. SitOrder'
    BY <1>1, <1>3, <2>1 DEF SitOrder
  <2>5. Undisturbed'
    BY <1>1, <2>2 DEF Undisturbed
  <2>6. Seated'
    BY <1>1, <1>3, <2>1, <2>2, Times DEF Seated, SitOrder, PoseReached, SitNumbers
  <2>7. Released'
    BY <1>1, <1>3, <2>1 DEF Released, SitOrder
  <2>8. Stiffened'
    BY <1>1, <1>3, <2>1, Times DEF Stiffened, SitOrder, SitNumbers
  <2> QED
    BY <2>2, <2>3, <2>4, <2>5, <2>6, <2>7, <2>8 DEF SitPart, SensedInTime
<1>4. CASE sit.sub = "posing" /\ ~PoseReached
  <2>1. UNCHANGED <<sit, body>> /\ walkOn' = FALSE
    BY <1>4 DEF RunPose
  <2>2. Undisturbed'
    BY <1>1, <2>1 DEF Undisturbed
  <2>3. Stiffened'
    BY <1>1, <2>1, Times DEF Stiffened, SitNumbers
  <2> QED
    BY <1>1, <2>1, <2>2, <2>3
    DEF SitPart, SitTypes, SensedInTime, SitOrder, Seated, Released
<1>5. CASE sit.sub = "posed"
  <2>1. sit' \in SitRec /\ same /\ sit'.sub = "none"
    <3>1. sit' = [sit EXCEPT !.sub = "none"] /\ sit \in SitRec
      BY <1>5 DEF SitPart, SitTypes, RunPose
    <3>2. sit' \in SitRec
      BY <3>1 DEF SitRec
    <3>3. sit'.sub = "none" /\ same
      BY <3>1 DEF SitRec
    <3> QED
      BY <3>2, <3>3
  <2>2. UNCHANGED body /\ walkOn' = FALSE
    BY <1>5 DEF RunPose
  <2>3. SitTypes'
    BY <2>1, <2>2 DEF SitPart, SitTypes
  <2>4. SitOrder'
    BY <1>1, <1>5, <2>1 DEF SitOrder
  <2>5. Undisturbed'
    BY <1>1, <2>2 DEF Undisturbed
  <2>6. Seated'
    BY <1>1, <1>5, <2>1, <2>2 DEF Seated, SitOrder
  <2>7. Released'
    BY <1>1, <1>5, <2>1 DEF Released, SitOrder
  <2>8. Stiffened'
    BY <1>1, <1>5, <2>1, Times DEF Stiffened, SitOrder, SitNumbers
  <2> QED
    BY <2>2, <2>3, <2>4, <2>5, <2>6, <2>7, <2>8 DEF SitPart, SensedInTime
<1>6. sit.sub \in {"new", "posing", "posed"}
  BY DEF SitPart, SitTypes, SitRec
<1> QED
  BY <1>2, <1>3, <1>4, <1>5, <1>6

(* A frame in which Sit still waits for the robot to stop. *)
LEMMA StoppingStep ==
  ASSUME SitPart, Sitting, sit.sub = "none", StillStopping, pc # "wait",
         SetStiffness("One"), walkOn' = FALSE,
         UNCHANGED <<sit, body, kickLeft, sensed, upset>>
  PROVE  SitPart'
<1>1. SitNumbers /\ SitOrder /\ Undisturbed /\ sit.state = "stop" /\ sit.age < T2
  BY SitIsNumbers, Times DEF SitPart, SitOrder, SitNumbers, StillStopping
<1>2. stiff' = stiff \/ stiff' = [cmd |-> "One", age |-> 0]
  BY DEF SetStiffness
<1>3. SitTypes'
  BY <1>2, Times DEF SitPart, SitTypes, StiffRec
<1>4. SensedInTime'
  BY <1>2, Times DEF SitPart, SensedInTime
<1>5. SitOrder' /\ Undisturbed'
  BY <1>1 DEF SitOrder, Undisturbed
<1>6. Seated' /\ Released'
  BY <1>1 DEF Seated, Released
<1>7. Stiffened'
  <2> SUFFICES ASSUME ~upset.fell, stiff'.cmd = "Zero"
               PROVE  sit.age <= stiff'.age /\ stiff'.age < Ramp
    BY DEF Stiffened
  <2>1. stiff' = stiff /\ sensed = "One"
    BY <1>2 DEF SetStiffness
  <2>2. sit.age <= stiff.age
    BY <1>1, <2>1 DEF SitPart, Stiffened
  <2>3. stiff.age < Ramp
    BY <1>1, <2>1, Times DEF SitPart, SensedInTime, Settled, SitNumbers
  <2> QED
    BY <2>1, <2>2, <2>3
<1> QED
  BY <1>3, <1>4, <1>5, <1>6, <1>7 DEF SitPart

(* A frame in which Sit goes on to its next state, or waits in the one it is in. *)
LEMMA AdvanceStep ==
  ASSUME SitPart, Sitting, sit.sub = "none", ~sit.finished, ~StillStopping, pc # "wait",
         NEW armsBack \in BOOLEAN, sit' = SitAdvances(armsBack), SitStiffness,
         UNCHANGED <<walkOn, body, kickLeft, sensed, upset>>
  PROVE  SitPart' /\ walkOn' = FALSE
<1>1. SitNumbers /\ SitOrder /\ Undisturbed /\ Seated /\ Released /\ Stiffened
  BY SitIsNumbers DEF SitPart
<1>2. sit.age >= T2 /\ sit \in SitRec /\ stiff \in StiffRec
  BY <1>1, Times DEF StillStopping, SitNumbers, SitPart, SitTypes
<1>3. ~walkOn
  BY <1>1, <1>2, Times DEF Undisturbed
<1>4. ~upset.fell /\ sit.state # "finish" => stiff.cmd # "Zero"
  BY <1>1, <1>2, Times DEF Stiffened, SitNumbers
<1>5. 0 \in 0..(T07 + 1) /\ 0 \in 0..Ramp /\ 0 < Ramp
  BY Times
<1> DEFINE kept == sit' \in SitRec /\ sit'.age = sit.age
<1>6. ASSUME kept, SitOrder', stiff' \in StiffRec, SensedInTime', Seated', Released',
             sit'.state # "finish" => stiff' = stiff \/ stiff'.cmd = "Knee"
      PROVE  SitPart' /\ walkOn' = FALSE
  <2>1. SitTypes'
    BY <1>6 DEF SitPart, SitTypes
  <2>2. Undisturbed' /\ walkOn' = FALSE
    BY <1>1, <1>3 DEF Undisturbed
  <2>3. CASE sit.state # "finish"
    <3>1. Stiffened'
      BY <1>4, <1>6, <2>3 DEF Stiffened
    <3> QED
      BY <1>6, <2>1, <2>2, <3>1 DEF SitPart
  <2>4. CASE sit.state = "finish"
    <3>1. sit'.state = "finish"
      BY <1>2, <2>4 DEF SitAdvances, SitRec
    <3>2. Stiffened'
      BY <3>1 DEF Stiffened
    <3> QED
      BY <1>6, <2>1, <2>2, <3>2 DEF SitPart
  <2> QED
    BY <2>3, <2>4
<1>7. CASE sit.state \in {"stop", "checkarms"}
  <2>1. PICK st \in {"movearms", "sit"} : sit' = [sit EXCEPT !.state = st, !.stAge = 0]
    BY <1>7 DEF SitAdvances
  <2>2. kept
    BY <1>2, <1>5, <2>1 DEF SitRec
  <2>3. sit'.state = st /\ sit'.sub = "none" /\ ~sit'.finished
    BY <1>2, <2>1 DEF SitRec
  <2>4. stiff' = stiff
    BY <1>7 DEF SitStiffness
  <2>5. SitOrder' /\ Seated' /\ Released'
    BY <1>2, <2>2, <2>3 DEF SitOrder, Seated, Released
  <2> QED
    BY <1>2, <1>6, <2>2, <2>4, <2>5 DEF SitPart, SensedInTime
<1>8. CASE sit.state = "movearms"
  <2>1. sit' = [sit EXCEPT !.state = "sit", !.stAge = 0, !.sub = "new"]
    BY <1>8 DEF SitAdvances
  <2>2. kept
    BY <1>2, <1>5, <2>1 DEF SitRec
  <2>3. sit'.state = "sit" /\ sit'.sub = "new" /\ ~sit'.finished
    BY <1>2, <2>1 DEF SitRec
  <2>4. stiff' = stiff
    BY <1>8 DEF SitStiffness
  <2>5. SitOrder' /\ Seated' /\ Released'
    BY <1>2, <2>2, <2>3 DEF SitOrder, Seated, Released
  <2> QED
    BY <1>2, <1>6, <2>2, <2>4, <2>5 DEF SitPart, SensedInTime
<1>9. CASE sit.state = "sit"
  <2>1. sit' = [sit EXCEPT !.state = "relaxknee", !.stAge = 0, !.sub = "new"]
    BY <1>9 DEF SitAdvances
  <2>2. kept
    BY <1>2, <1>5, <2>1 DEF SitRec
  <2>3. sit'.state = "relaxknee" /\ sit'.sub = "new" /\ ~sit'.finished
    BY <1>2, <2>1 DEF SitRec
  <2>4. stiff' = stiff
    BY <1>9 DEF SitStiffness
  <2>5. SitOrder' /\ Seated' /\ Released'
    BY <1>2, <2>2, <2>3 DEF SitOrder, Seated, Released
  <2> QED
    BY <1>2, <1>6, <2>2, <2>4, <2>5 DEF SitPart, SensedInTime
<1>10. CASE sit.state = "relaxknee"
  <2>1. sit' = [sit EXCEPT !.state = "relaxbody", !.stAge = 0]
    BY <1>10 DEF SitAdvances
  <2>2. kept
    BY <1>2, <1>5, <2>1 DEF SitRec
  <2>3. sit'.state = "relaxbody" /\ sit'.stAge = 0 /\ sit'.sub = "none" /\ ~sit'.finished
    BY <1>2, <2>1 DEF SitRec
  <2>4. stiff' = stiff \/ stiff' = [cmd |-> "Knee", age |-> 0]
    BY <1>10 DEF SitStiffness, SetStiffness
  <2>5. stiff' \in StiffRec /\ SensedInTime' /\ stiff'.age \in Nat
    BY <1>1, <1>2, <1>5, <2>4, Times DEF StiffRec, SitPart, SensedInTime, SitNumbers
  <2>6. SitOrder' /\ Released'
    BY <1>2, <2>2, <2>3, <2>5 DEF SitOrder, Released
  <2>7. Seated'
    BY <1>1, <1>10, <2>3 DEF Seated
  <2>8. stiff' = stiff \/ stiff'.cmd = "Knee"
    BY <2>4
  <2> QED
    BY <1>6, <2>2, <2>5, <2>6, <2>7, <2>8
<1>11. CASE sit.state = "relaxbody" /\ KneesRelaxed
  <2>1. sit' = [sit EXCEPT !.state = "finish", !.stAge = 0]
    BY <1>11 DEF SitAdvances
  <2>2. kept
    BY <1>2, <1>5, <2>1 DEF SitRec
  <2>3. sit'.state = "finish" /\ sit'.sub = "none" /\ ~sit'.finished
    BY <1>2, <2>1 DEF SitRec
  <2>4. SetStiffness("Zero")
    BY <1>11 DEF SitStiffness
  <2>5. stiff' = stiff \/ stiff' = [cmd |-> "Zero", age |-> 0]
    BY <2>4 DEF SetStiffness
  <2>6. stiff' \in StiffRec /\ SensedInTime'
    BY <1>2, <1>5, <2>5, Times DEF StiffRec, SitPart, SensedInTime
  <2>7. ~upset.kicked => stiff'.cmd = "Zero"
    <3> SUFFICES ASSUME ~upset.kicked, stiff.cmd # "Zero" PROVE sensed # "Zero"
      BY <2>4 DEF SetStiffness
    <3>1. stiff.age >= Ramp
      BY <1>1, <1>11, Times DEF Released, KneesRelaxed, SitNumbers
    <3> QED
      BY <1>2, <3>1 DEF SitPart, SensedInTime, Settled, StiffRec
  <2>8. SitOrder' /\ Released'
    BY <1>2, <2>2, <2>3, <2>7 DEF SitOrder, Released
  <2>9. Seated'
    BY <1>1, <1>11, <2>3 DEF Seated
  <2> QED
    BY <1>6, <2>2, <2>3, <2>6, <2>8, <2>9
<1>12. CASE sit.state = "relaxbody" /\ ~KneesRelaxed
  <2>1. sit' = sit /\ stiff' = stiff
    BY <1>12 DEF SitAdvances, SitStiffness
  <2>2. SitOrder' /\ Seated' /\ Released'
    BY <1>1, <2>1 DEF SitOrder, Seated, Released
  <2> QED
    BY <1>2, <1>6, <2>1, <2>2 DEF SitPart, SensedInTime
<1>13. CASE sit.state = "finish"
  <2>1. sit' = [sit EXCEPT !.finished = TRUE]
    BY <1>13 DEF SitAdvances
  <2>2. kept
    BY <1>2, <2>1 DEF SitRec
  <2>3. sit'.state = "finish" /\ sit'.sub = "none"
    BY <1>2, <1>13, <2>1 DEF SitRec
  <2>4. stiff' = stiff
    BY <1>13 DEF SitStiffness
  <2>5. SitOrder' /\ Seated' /\ Released'
    BY <1>1, <1>2, <1>13, <2>2, <2>3, <2>4 DEF SitOrder, Seated, Released
  <2> QED
    BY <1>2, <1>6, <2>2, <2>4, <2>5 DEF SitPart, SensedInTime
<1>14. sit.state \in {"stop", "checkarms", "movearms", "sit", "relaxknee", "relaxbody", "finish"}
  BY <1>2 DEF SitRec
<1> QED
  BY <1>7, <1>8, <1>9, <1>10, <1>11, <1>12, <1>13, <1>14

(* A frame of Sit keeps its part of the invariant and leaves the walk off. *)
LEMMA SitFrameStep ==
  ASSUME SitPart, Sitting, SitFrame, pc # "wait", UNCHANGED <<kickLeft, sensed, upset>>
  PROVE  SitPart' /\ walkOn' = FALSE
<1>1. SitNumbers /\ SitOrder /\ Undisturbed /\ Stiffened
  BY SitIsNumbers DEF SitPart
<1>2. CASE sit.finished
  <2>1. UNCHANGED <<sit, stiff, walkOn, body>> /\ sit.state = "finish"
    BY <1>1, <1>2 DEF SitFrame, SitOrder
  <2>2. walkOn' = FALSE /\ Undisturbed'
    BY <1>1, <1>2, <2>1 DEF Undisturbed
  <2>3. Stiffened'
    BY <2>1 DEF Stiffened
  <2> QED
    BY <2>1, <2>2, <2>3
    DEF SitPart, SitTypes, SensedInTime, SitOrder, Seated, Released
<1>3. CASE ~sit.finished /\ sit.sub # "none"
  <2>1. ~walkOn /\ RunPose /\ UNCHANGED stiff
    BY <1>1, <1>3 DEF SitFrame, Undisturbed
  <2> QED
    BY <1>3, <2>1, RunPoseStep
<1>4. CASE ~sit.finished /\ sit.sub = "none" /\ StillStopping
  <2>1. SetStiffness("One") /\ walkOn' = FALSE /\ UNCHANGED <<sit, body>>
    BY <1>4 DEF SitFrame
  <2> QED
    BY <1>4, <2>1, StoppingStep
<1>5. CASE ~sit.finished /\ sit.sub = "none" /\ ~StillStopping
  <2>1. PICK armsBack \in BOOLEAN : sit' = SitAdvances(armsBack)
    BY <1>5 DEF SitFrame
  <2>2. SitStiffness /\ UNCHANGED <<walkOn, body>>
    BY <1>5 DEF SitFrame
  <2> QED
    BY <1>5, <2>1, <2>2, AdvanceStep
<1> QED
  BY <1>2, <1>3, <1>4, <1>5

-----------------------------------------------------------------------------
(* The frame and the machine. *)

TaskRec ==
  [kind : {"Sit", "StandStraight", "Ready", "Playing"}, bvr : Behaviors \cup {"None"},
   age : 0..(T5 + 1), started : BOOLEAN, finished : BOOLEAN]
NodeRec ==
  [at : 1..7, age : 0..MaxNodeAge, complete : BOOLEAN,
   out : {"None", "left", "right", "center"}]
VisitRec == [age : 0..MaxNodeAge, signal : {"None", "left", "right", "center"}]
UpsetRec == [fell : BOOLEAN, kicked : BOOLEAN]

(* The types a frame of Sit does not touch. *)
FlowTypes ==
  /\ pc \in {"wait", "bvr", "run", "events", "node"}
  /\ gs \in States \cup {"INITIAL"} /\ fallen \in BOOLEAN
  /\ task \in TaskRec /\ node \in NodeRec /\ visit \in VisitRec /\ upset \in UpsetRec
  /\ Playing => task.bvr # "None" /\ node.at \in DOMAIN Kinds(task.bvr)
  /\ walkOn \in BOOLEAN /\ kickLeft \in 0..KickTime

(* The invariant in two parts: what a frame of Sit can disturb, and the rest. *)
LEMMA Parts == SitInv <=> FlowTypes /\ InFrame /\ OfThisVisit /\ SitPart
<1>1. kickLeft \in 0..KickTime => kickLeft \in Nat
  BY Times
<1> QED
  BY <1>1 DEF SitInv, TypeOK, HistoryOK, FlowTypes, SitPart, SitTypes, TaskRec, NodeRec, VisitRec,
     UpsetRec, SitRec, StiffRec, BodyRec, Playing, Kinds

(* The node's timer can grow. *)
LEMMA NodeAges == MaxNodeAge \in Nat /\ MaxNodeAge > 0
  BY Times DEF MaxNodeAge

(* As long as the task and the node are the same, so is what they are. *)
LEMMA SameNode ==
  ASSUME task'.kind = task.kind, task'.bvr = task.bvr, node'.at = node.at
  PROVE  (Playing' <=> Playing) /\ Kind' = Kind /\ (Sitting' <=> Sitting)
  BY DEF Playing, Kind, Sitting

(* The current node is one of its machine. *)
LEMMA KindOfNode ==
  ASSUME FlowTypes, Playing
  PROVE  /\ node.at \in DOMAIN Kinds(task.bvr) /\ Kind = Kinds(task.bvr)[node.at]
         /\ Kind \in KindSet
  BY MachineShape DEF FlowTypes, ShapeOK, NodesOK, Kind, Kinds

(* Time passes. *)
LEMMA TickStep ==
  ASSUME FlowTypes, InFrame, OfThisVisit, SitPart, Tick
  PROVE  (FlowTypes /\ InFrame /\ OfThisVisit /\ SitPart)'
<1>1. pc = "wait" /\ pc' = "bvr" /\ MotionFrames /\ UNCHANGED <<gs, fallen, walkOn>>
  BY DEF Tick
<1>2. SitNumbers /\ kickLeft \in Nat
  BY SitIsNumbers DEF SitPart, SitTypes
<1>3. /\ task' \in TaskRec /\ task'.kind = task.kind /\ task'.bvr = task.bvr
      /\ task'.started = task.started /\ task'.finished = task.finished
  <2>1. Capped(task.age + 1, T5 + 1) \in 0..(T5 + 1)
    BY Times DEF FlowTypes, TaskRec, Capped
  <2>2. task' = task \/ task' = [task EXCEPT !.age = Capped(task.age + 1, T5 + 1)]
    BY DEF Tick
  <2> QED
    BY <2>1, <2>2 DEF FlowTypes, TaskRec
<1>4. /\ node' \in NodeRec /\ node'.at = node.at /\ node'.complete = node.complete
      /\ node'.out = node.out
      /\ node'.age = IF task.started THEN Capped(node.age + 1, MaxNodeAge) ELSE node.age
  <2>1. Capped(node.age + 1, MaxNodeAge) \in 0..MaxNodeAge
    BY NodeAges DEF FlowTypes, NodeRec, Capped
  <2>2. node' = IF task.started THEN [node EXCEPT !.age = Capped(node.age + 1, MaxNodeAge)] ELSE node
    BY DEF Tick
  <2> QED
    BY <2>1, <2>2 DEF FlowTypes, NodeRec
<1>5. /\ visit' \in VisitRec /\ visit'.signal = visit.signal
      /\ visit'.age = IF task.started THEN Capped(visit.age + 1, MaxNodeAge) ELSE visit.age
  <2>1. Capped(visit.age + 1, MaxNodeAge) \in 0..MaxNodeAge
    BY NodeAges DEF FlowTypes, VisitRec, Capped
  <2>2. visit' = IF task.started THEN [visit EXCEPT !.age = Capped(visit.age + 1, MaxNodeAge)] ELSE visit
    BY DEF Tick
  <2> QED
    BY <2>1, <2>2 DEF FlowTypes, VisitRec
<1>6. /\ upset' \in UpsetRec /\ upset'.fell = upset.fell
      /\ upset'.kicked <=> upset.kicked \/ kickLeft > 0
  BY DEF Tick, FlowTypes, UpsetRec
<1>7. /\ sit' \in SitRec /\ sit'.state = sit.state /\ sit'.sub = sit.sub
      /\ sit'.finished = sit.finished /\ sit'.age >= sit.age /\ sit'.age <= sit.age + 1
      /\ sit'.stAge <= sit.stAge + 1 /\ sit'.subAge <= sit.subAge + 1
      /\ sit'.subAge <= T2 + 1 /\ sit'.age \in Nat /\ sit'.stAge \in Nat /\ sit'.subAge \in Nat
  <2> DEFINE a == Capped(sit.age + 1, T2)
             b == Capped(sit.stAge + 1, T07 + 1)
             c == Capped(sit.subAge + 1, T2 + 1)
  <2>1. /\ sit \in SitRec /\ sit.subAge <= T2 + 1
        /\ sit' = sit \/ sit' = [sit EXCEPT !.age = a, !.stAge = b, !.subAge = c]
    BY Times DEF Tick, SitPart, SitTypes, SitRec
  <2>2. /\ a \in 0..T2 /\ a >= sit.age /\ a <= sit.age + 1
        /\ b \in 0..(T07 + 1) /\ b <= sit.stAge + 1
        /\ c \in 0..(T2 + 1) /\ c <= sit.subAge + 1
    BY <1>2, <2>1, Times DEF SitRec, SitNumbers, Capped
  <2> HIDE DEF a, b, c
  <2>3. CASE sit' = sit
    BY <1>2, <2>1, <2>3 DEF SitNumbers
  <2>4. CASE sit' = [sit EXCEPT !.age = a, !.stAge = b, !.subAge = c]
    <3>1. sit' \in SitRec
      BY <2>1, <2>2, <2>4 DEF SitRec
    <3>2. /\ sit'.state = sit.state /\ sit'.sub = sit.sub /\ sit'.finished = sit.finished
          /\ sit'.age = a /\ sit'.stAge = b /\ sit'.subAge = c
      BY <2>1, <2>4 DEF SitRec
    <3> QED
      BY <2>2, <3>1, <3>2, Times
  <2> QED
    BY <2>1, <2>3, <2>4
<1>8. (Playing' <=> Playing) /\ Kind' = Kind /\ (Sitting' <=> Sitting)
  BY <1>3, <1>4, SameNode
<1>9. Sitting => ~walkOn /\ (kickLeft > 0 => upset.kicked)
  BY <1>1 DEF SitPart, Undisturbed
<1>10. /\ stiff'.cmd = EngineCommand /\ EngineCommand \in {"One", "Engine", "Knee", "Zero"}
       /\ stiff'.age = IF EngineCommand # stiff.cmd THEN 0 ELSE Capped(stiff.age + 1, Ramp)
       /\ stiff'.age \in 0..Ramp /\ stiff' \in StiffRec
       /\ sensed' \in Sensing(EngineCommand, stiff'.age)
  <2>1. EngineCommand \in {"One", "Engine", "Knee", "Zero"}
    BY DEF EngineCommand, SitPart, SitTypes, StiffRec
  <2>2. Capped(stiff.age + 1, Ramp) \in 0..Ramp /\ 0 \in 0..Ramp
    BY <1>2, Times DEF Capped, SitNumbers
  <2> QED
    BY <1>1, <2>1, <2>2 DEF MotionFrames, StiffRec
<1>11. SensedInTime' /\ sensed' \in {"One", "mid", "Knee", "Zero"}
  BY <1>10 DEF SensedInTime, Sensing, Settled, SitPart, SitTypes
<1>12. kickLeft' \in 0..KickTime /\ kickLeft' \in Nat /\ (kickLeft' > 0 => kickLeft > 0)
  <2>1. kickLeft' = IF kickLeft > 0 THEN kickLeft - 1 ELSE 0
    BY <1>1 DEF MotionFrames, KickGoesOn
  <2> QED
    BY <1>2, <2>1, Times DEF FlowTypes
<1>13. /\ body' \in BodyRec
       /\ kickLeft = 0 /\ ~walkOn =>
            body'.by = body.by /\ body'.age = Capped(body.age + 1, T2 + 1)
  <2>1. body \in BodyRec /\ Capped(body.age + 1, T2 + 1) \in 0..(T2 + 1) /\ 0 \in 0..(T2 + 1)
    BY Times DEF SitPart, SitTypes, BodyRec, Capped
  <2>2. \/ body' = [by |-> "kick", age |-> 0] /\ kickLeft > 0
        \/ body' = [by |-> "engine", age |-> 0] /\ walkOn
        \/ body' = [body EXCEPT !.age = Capped(body.age + 1, T2 + 1)]
    BY <1>1 DEF MotionFrames
  <2> QED
    BY <1>2, <2>1, <2>2 DEF BodyRec
<1>14. FlowTypes'
  BY <1>1, <1>3, <1>4, <1>5, <1>6, <1>8, <1>12 DEF FlowTypes
<1>15. InFrame'
  BY <1>1, <1>3, <1>4, <1>7, <1>8 DEF InFrame
<1>16. OfThisVisit'
  BY <1>1, <1>3, <1>4, <1>5, NodeAges DEF OfThisVisit, Capped, FlowTypes, NodeRec
<1>17. SitTypes'
  BY <1>7, <1>10, <1>11, <1>12, <1>13 DEF SitTypes
<1>18. SitOrder'
  BY <1>2, <1>7, Times DEF SitPart, SitOrder, SitNumbers
<1>19. Undisturbed'
  BY <1>1, <1>6, <1>8, <1>9, <1>12 DEF Undisturbed
<1>20. ASSUME Sitting', ~upset'.kicked
       PROVE  /\ Sitting /\ ~upset.kicked /\ kickLeft = 0 /\ ~walkOn
              /\ EngineCommand = stiff.cmd
  <2>1. Sitting /\ ~upset.kicked /\ kickLeft = 0 /\ ~walkOn
    BY <1>2, <1>6, <1>8, <1>9, <1>20
  <2> QED
    BY <2>1 DEF EngineCommand
<1>21. Seated'
  <2> SUFFICES ASSUME Sitting', ~upset'.kicked
               PROVE  /\ sit'.sub = "posing" => body'.by = "pose" /\ body'.age >= sit'.subAge
                      /\ sit'.sub = "posed" \/ (sit'.state = "relaxknee" /\ sit'.sub = "none")
                           \/ sit'.state \in {"relaxbody", "finish"}
                           => body'.by = "pose" /\ body'.age > T2
    BY DEF Seated
  <2>1. Sitting /\ ~upset.kicked /\ kickLeft = 0 /\ ~walkOn
    BY <1>20
  <2>2. body'.by = body.by /\ body'.age = Capped(body.age + 1, T2 + 1)
    BY <1>13, <2>1
  <2> QED
    BY <1>2, <1>7, <2>1, <2>2, Times DEF SitPart, Seated, Capped, SitNumbers
<1>22. Released'
  <2> SUFFICES ASSUME Sitting', ~upset'.kicked
               PROVE  /\ sit'.state = "relaxbody" /\ stiff'.cmd # "Zero" /\ stiff'.age < Ramp =>
                           sit'.stAge <= stiff'.age
                      /\ sit'.state = "finish" => stiff'.cmd = "Zero"
    BY DEF Released
  <2>1. Sitting /\ ~upset.kicked /\ EngineCommand = stiff.cmd
    BY <1>20
  <2>2. stiff'.cmd = stiff.cmd /\ stiff'.age = Capped(stiff.age + 1, Ramp)
    BY <1>10, <2>1
  <2> QED
    BY <1>2, <1>7, <2>1, <2>2, Times DEF SitPart, Released, Capped, SitNumbers
<1>23. Stiffened'
  <2> SUFFICES ASSUME Sitting', ~upset'.fell, sit'.state # "finish", stiff'.cmd = "Zero"
               PROVE  sit'.age <= stiff'.age
    BY <1>1 DEF Stiffened
  <2>1. Sitting /\ ~upset.fell /\ sit.state # "finish" /\ ~walkOn
    BY <1>6, <1>7, <1>8, <1>9
  <2>2. stiff.cmd = "Zero" /\ EngineCommand = stiff.cmd
    BY <1>10, <2>1 DEF EngineCommand
  <2>3. sit.age <= stiff.age /\ stiff.age < Ramp
    BY <1>1, <2>1, <2>2 DEF SitPart, Stiffened
  <2> QED
    BY <1>2, <1>7, <1>10, <2>2, <2>3, Times DEF Capped, SitNumbers
<1> QED
  BY <1>11, <1>14, <1>15, <1>16, <1>17, <1>18, <1>19, <1>21, <1>22, <1>23 DEF SitPart

(* A frame begins: a new task or the old one, and a fall. *)
LEMMA ProcessFrameStep ==
  ASSUME FlowTypes, InFrame, OfThisVisit, SitPart,
         NEW s \in States, NEW down \in BOOLEAN, NEW b \in Behaviors, ProcessFrame(s, down, b)
  PROVE  (FlowTypes /\ InFrame /\ OfThisVisit /\ SitPart)'
<1>1. /\ pc = "bvr" /\ gs' = s /\ fallen' = (down /\ s \in {"READY", "PLAYING"})
      /\ UNCHANGED <<kickLeft, sensed, body>>
  BY DEF ProcessFrame
<1>2. \/ fallen' /\ pc' = "wait" /\ SetStiffness("Zero") /\ walkOn' = FALSE
      \/ ~fallen' /\ pc' = "run" /\ UNCHANGED <<stiff, walkOn>>
  BY DEF ProcessFrame
<1>3. /\ stiff' \in StiffRec /\ SensedInTime' /\ stiff'.age \in Nat
      /\ stiff' = stiff \/ (stiff' = [cmd |-> "Zero", age |-> 0])
  <2>1. stiff' = stiff \/ stiff' = [cmd |-> "Zero", age |-> 0]
    BY <1>2 DEF SetStiffness
  <2> QED
    BY <1>1, <2>1, Times DEF SitPart, SitTypes, StiffRec, SensedInTime
<1>4. pc' \in {"wait", "run"} /\ gs' \in States /\ fallen' \in BOOLEAN /\ walkOn' \in BOOLEAN
  BY <1>1, <1>2 DEF FlowTypes
<1>5. CASE AreDistinct(s, gs)
  <2>1. /\ task' = NewTask(s, b) /\ node' = ResetNode(1) /\ visit' = NewVisit /\ sit' = NewSit
        /\ upset' = [fell |-> fallen', kicked |-> kickLeft > 0]
    BY <1>5 DEF ProcessFrame
  <2>2. /\ task'.kind \in {"Sit", "StandStraight", "Ready", "Playing"}
        /\ task'.kind = "Playing" <=> s = "PLAYING"
        /\ task'.kind = "Sit" => ~fallen'
        /\ ~task'.started /\ ~task'.finished /\ (s = "PLAYING" => task'.bvr = b)
    BY <1>1, <2>1 DEF NewTask, TaskKind
  <2>3. task' \in TaskRec
    BY <2>1, Times DEF NewTask, TaskKind, TaskRec
  <2>4. node' \in NodeRec /\ node'.at = 1 /\ ~node'.complete /\ node'.out = "None" /\ node'.age = 0
    BY <2>1, NodeAges DEF ResetNode, NodeRec
  <2>5. visit' \in VisitRec /\ visit'.age = 0 /\ visit'.signal = "None"
    BY <2>1, NodeAges DEF NewVisit, VisitRec
  <2>6. upset' \in UpsetRec /\ (upset'.kicked <=> kickLeft > 0)
    <3> DEFINE f == fallen'
               k == kickLeft > 0
    <3>1. f \in BOOLEAN /\ k \in BOOLEAN /\ upset' = [fell |-> f, kicked |-> k]
      BY <1>4, <2>1
    <3> HIDE DEF f, k
    <3>2. upset' \in UpsetRec /\ upset'.kicked = k
      BY <3>1 DEF UpsetRec
    <3> QED
      BY <3>2 DEF k
  <2>7. /\ sit' \in SitRec /\ sit'.state = "stop" /\ sit'.sub = "none" /\ ~sit'.finished
        /\ sit'.age = 0
    BY <2>1, Times DEF NewSit, SitRec
  <2>8. b # "None"
    BY BehaviorsAssumption
  <2>9. Playing' => task'.bvr = b /\ 1 \in DOMAIN Kinds(b) /\ Kind' \notin {"Sit", "Off"}
    BY <2>2, <2>4, MachineShape DEF ShapeOK, NodesOK, Playing, Kind, Kinds
  <2>10. FlowTypes'
    BY <1>1, <1>4, <2>3, <2>4, <2>5, <2>6, <2>8, <2>9 DEF FlowTypes
  <2>11. InFrame'
    BY <1>4, <2>2, <2>9 DEF InFrame
  <2>12. OfThisVisit'
    BY <2>4, <2>5 DEF OfThisVisit
  <2>13. Sitting' => pc' = "run" /\ stiff' = stiff
    BY <1>2, <2>2, <2>9 DEF Sitting
  <2>14. SitTypes' /\ SitOrder'
    BY <1>1, <1>3, <2>7 DEF SitPart, SitTypes, SitOrder
  <2>15. Undisturbed' /\ Seated' /\ Released'
    BY <1>1, <2>6, <2>7, <2>13 DEF Undisturbed, Seated, Released
  <2>16. Stiffened'
    BY <1>3, <2>7, <2>13 DEF Stiffened
  <2> QED
    BY <1>3, <2>10, <2>11, <2>12, <2>14, <2>15, <2>16 DEF SitPart
<1>6. CASE ~AreDistinct(s, gs)
  <2>1. UNCHANGED <<task, node, sit, visit>> /\ upset' = [upset EXCEPT !.fell = @ \/ fallen']
    BY <1>6 DEF ProcessFrame
  <2>2. upset' \in UpsetRec /\ upset'.kicked = upset.kicked /\ (upset'.fell <=> upset.fell \/ fallen')
    BY <1>4, <2>1 DEF FlowTypes, UpsetRec
  <2>3. (Playing' <=> Playing) /\ Kind' = Kind /\ (Sitting' <=> Sitting)
    BY <2>1, SameNode
  <2>4. FlowTypes'
    BY <1>1, <1>4, <2>1, <2>2, <2>3 DEF FlowTypes
  <2>5. InFrame' /\ OfThisVisit'
    BY <1>1, <1>4, <2>1, <2>3 DEF InFrame, OfThisVisit
  <2>6. SitTypes' /\ SitOrder'
    BY <1>1, <1>3, <2>1 DEF SitPart, SitTypes, SitOrder
  <2>7. Undisturbed'
    BY <1>1, <1>2, <2>1, <2>2, <2>3 DEF SitPart, Undisturbed
  <2>8. Seated'
    BY <1>1, <2>1, <2>2, <2>3 DEF SitPart, Seated
  <2>9. Released'
    BY <1>3, <2>1, <2>2, <2>3 DEF SitPart, Released
  <2>10. Stiffened'
    BY <1>2, <2>1, <2>2, <2>3 DEF SitPart, Stiffened
  <2> QED
    BY <1>3, <2>4, <2>5, <2>6, <2>7, <2>8, <2>9, <2>10 DEF SitPart
<1> QED
  BY <1>5, <1>6

(* A frame of a task that is no state machine. *)
LEMMA RunTaskStep ==
  ASSUME FlowTypes, InFrame, OfThisVisit, SitPart, RunTask
  PROVE  (FlowTypes /\ InFrame /\ OfThisVisit /\ SitPart)'
<1>1. /\ pc = "run" /\ pc' = "wait" /\ task.kind # "Playing"
      /\ UNCHANGED <<gs, fallen, node, kickLeft, sensed, visit, upset>>
  BY DEF RunTask
<1>2. CASE task.kind = "Sit"
  <2>1. SitFrame /\ task' = [task EXCEPT !.started = TRUE, !.finished = sit'.finished]
    BY <1>2 DEF RunTask
  <2>2. Sitting
    BY <1>2 DEF Sitting
  <2>3. SitPart' /\ walkOn' = FALSE
    BY <1>1, <2>1, <2>2, SitFrameStep
  <2>4. sit'.finished \in BOOLEAN
    BY <2>3 DEF SitPart, SitTypes, SitRec
  <2>5. /\ task' \in TaskRec /\ task'.kind = "Sit" /\ task'.started
        /\ task'.finished = sit'.finished
    BY <1>2, <2>1, <2>4 DEF FlowTypes, TaskRec
  <2>6. ~Playing'
    BY <2>5 DEF Playing
  <2>7. FlowTypes'
    BY <1>1, <2>3, <2>5, <2>6 DEF FlowTypes
  <2>8. InFrame' /\ OfThisVisit'
    BY <1>1, <2>5, <2>6 DEF InFrame, OfThisVisit
  <2> QED
    BY <2>3, <2>7, <2>8
<1>3. CASE task.kind # "Sit"
  <2>1. /\ task' \in TaskRec /\ task'.kind = task.kind
        /\ task.started => task'.started
    <3>1. \/ task' = task
          \/ \E f \in BOOLEAN : task' = [task EXCEPT !.started = TRUE, !.finished = f]
      <4>1. (task.age > T5) \in BOOLEAN
        OBVIOUS
      <4>2. \A standing \in BOOLEAN : (standing \/ task.age > T2) \in BOOLEAN
        OBVIOUS
      <4> QED
        BY <1>3, <4>1, <4>2 DEF RunTask
    <3> QED
      BY <3>1 DEF FlowTypes, TaskRec
  <2>2. UNCHANGED <<sit, stiff, body>> /\ walkOn' \in BOOLEAN
    BY <1>3 DEF RunTask, FlowTypes
  <2>3. ~Playing' /\ ~Sitting'
    BY <1>1, <1>3, <2>1 DEF Playing, Sitting
  <2>4. FlowTypes'
    BY <1>1, <2>1, <2>2, <2>3 DEF FlowTypes
  <2>5. InFrame' /\ OfThisVisit'
    BY <1>1, <1>3, <2>1, <2>3 DEF InFrame, OfThisVisit
  <2>6. SitPart'
    BY <1>1, <2>2, <2>3
    DEF SitPart, SitTypes, SensedInTime, SitOrder, Undisturbed, Seated, Released, Stiffened
  <2> QED
    BY <2>4, <2>5, <2>6
<1> QED
  BY <1>2, <1>3

(* StateMachine.run begins, or does not because the machine has finished. *)
LEMMA RunMachineStep ==
  ASSUME FlowTypes, InFrame, OfThisVisit, SitPart, RunMachine
  PROVE  (FlowTypes /\ InFrame /\ OfThisVisit /\ SitPart)'
<1>1. /\ pc = "run" /\ Playing /\ pc' = IF task.finished THEN "wait" ELSE "events"
      /\ task' = [task EXCEPT !.started = TRUE]
      /\ UNCHANGED <<gs, fallen, node, sit, walkOn, kickLeft, stiff, sensed, body, visit, upset>>
  BY DEF RunMachine, Playing
<1>2. /\ task' \in TaskRec /\ task'.kind = task.kind /\ task'.bvr = task.bvr /\ task'.started
      /\ task'.finished = task.finished
  BY <1>1 DEF FlowTypes, TaskRec
<1>3. (Playing' <=> Playing) /\ Kind' = Kind /\ (Sitting' <=> Sitting)
  BY <1>1, <1>2, SameNode
<1>4. FlowTypes'
  BY <1>1, <1>2, <1>3 DEF FlowTypes
<1>5. InFrame' /\ OfThisVisit'
  BY <1>1, <1>2, <1>3 DEF InFrame, OfThisVisit
<1>6. task.finished => Sitting /\ sit.finished /\ sit.state = "finish"
  BY <1>1 DEF InFrame, Sitting, SitPart, SitOrder
<1>7. Undisturbed'
  BY <1>1, <1>3, <1>6 DEF SitPart, Undisturbed
<1>8. Stiffened'
  BY <1>1, <1>3, <1>6 DEF SitPart, Stiffened
<1> QED
  BY <1>1, <1>3, <1>4, <1>5, <1>7, <1>8
  DEF SitPart, SitTypes, SensedInTime, SitOrder, Seated, Released

(* No event of the current node is ready. *)
LEMMA NoEventStep ==
  ASSUME FlowTypes, InFrame, OfThisVisit, SitPart, NoEvent
  PROVE  (FlowTypes /\ InFrame /\ OfThisVisit /\ SitPart)'
<1>1. /\ pc = "events" /\ pc' = "node"
      /\ UNCHANGED <<gs, fallen, task, node, sit, walkOn, kickLeft, stiff, sensed, body, visit,
                     upset>>
  BY DEF NoEvent
<1>2. (Playing' <=> Playing) /\ Kind' = Kind /\ (Sitting' <=> Sitting)
  BY <1>1, SameNode
<1>3. FlowTypes'
  BY <1>1, <1>2 DEF FlowTypes
<1>4. InFrame' /\ OfThisVisit'
  BY <1>1, <1>2 DEF InFrame, OfThisVisit
<1>5. Undisturbed' /\ Stiffened'
  BY <1>1, <1>2 DEF SitPart, Undisturbed, Stiffened
<1> QED
  BY <1>1, <1>2, <1>3, <1>4, <1>5
  DEF SitPart, SitTypes, SensedInTime, SitOrder, Seated, Released

(* What the shape of a machine says of the current node's transitions. *)
LEMMA CurrentTransition ==
  ASSUME FlowTypes, Playing, NEW i \in DOMAIN Transitions
  PROVE  TransitionOK(task.bvr, node.at, Transitions[i], DOMAIN Transitions)
<1>1. node.at \in DOMAIN Kinds(task.bvr)
  BY DEF FlowTypes
<1> QED
  BY <1>1, MachineShape DEF ShapeOK, Transitions

(* When the three kinds of event are ready. *)
LEMMA ReadyC == ASSUME Ready(C) PROVE node.complete
<1>1. C.on = "C"
  BY DEF C
<1> QED
  BY <1>1 DEF Ready

LEMMA ReadyT == Ready(T(T5)) <=> node.age > T5
<1>1. T(T5).on = "T" /\ T(T5).time = T5
  BY DEF T
<1> QED
  BY <1>1 DEF Ready

LEMMA ReadyS == ASSUME NEW x, Ready(S(x)) PROVE node.out = x
<1>1. S(x).on = "S" /\ S(x).signal = x
  BY DEF S
<1> QED
  BY <1>1 DEF Ready

(* An event moves the machine. *)
LEMMA FireEventStep ==
  ASSUME FlowTypes, InFrame, OfThisVisit, SitPart, FireEvent
  PROVE  (FlowTypes /\ InFrame /\ OfThisVisit /\ SitPart)'
<1>1. /\ pc = "events" /\ Playing /\ task.started
      /\ UNCHANGED <<gs, fallen, walkOn, kickLeft, stiff, sensed, body>>
  BY DEF FireEvent, InFrame
<1> DEFINE kinds == Kinds(task.bvr)
<1>2. PICK i \in DOMAIN Transitions :
        LET to == Transitions[i].target
            last == to = Machine(task.bvr).finish
        IN /\ Ready(Transitions[i].event)
           /\ node' = ResetNode(to) /\ visit' = NewVisit
           /\ task' = [task EXCEPT !.finished = last]
           /\ pc' = IF last THEN "node" ELSE "events"
           /\ sit' = IF kinds[to] = "Sit" THEN NewSit ELSE sit
           /\ upset' = IF kinds[to] = "Sit" THEN [fell |-> FALSE, kicked |-> kickLeft > 0]
                                            ELSE upset
  BY DEF FireEvent, Kinds
<1> DEFINE to == Transitions[i].target
           last == to = Machine(task.bvr).finish
<1>3. /\ to \in DOMAIN kinds /\ (last <=> kinds[to] = "Off") /\ (kinds[to] = "Off" <=> Kind = "Sit")
      /\ Kind = "Sit" => Transitions[i].event = C
      /\ Kind = kinds[node.at] /\ DOMAIN kinds \subseteq 1..7
  <2>1. TransitionOK(task.bvr, node.at, Transitions[i], DOMAIN Transitions)
    BY <1>1, CurrentTransition
  <2>2. Kind = kinds[node.at]
    BY <1>1, KindOfNode
  <2>3. DOMAIN kinds \subseteq 1..7
    BY MachineShape DEF ShapeOK, NodesOK
  <2> QED
    BY <2>1, <2>2, <2>3 DEF TransitionOK
<1>4. Kind = "Sit" => sit.finished
  BY <1>1, <1>2, <1>3, ReadyC DEF InFrame
<1>5. /\ node' = ResetNode(to) /\ visit' = NewVisit
      /\ task' = [task EXCEPT !.finished = last] /\ pc' = IF last THEN "node" ELSE "events"
      /\ kinds[to] = "Sit" => sit' = NewSit /\ upset' = [fell |-> FALSE, kicked |-> kickLeft > 0]
      /\ kinds[to] # "Sit" => UNCHANGED <<sit, upset>>
  BY <1>2
<1>6. last \in BOOLEAN
  OBVIOUS
<1> HIDE DEF last, to
<1>7. /\ task' \in TaskRec /\ task'.kind = task.kind /\ task'.bvr = task.bvr
      /\ task'.finished = last /\ task'.started
  BY <1>1, <1>5, <1>6 DEF FlowTypes, TaskRec
<1>8. node' \in NodeRec /\ node'.at = to /\ ~node'.complete /\ node'.out = "None" /\ node'.age = 0
  BY <1>3, <1>5, NodeAges DEF ResetNode, NodeRec
<1>9. visit' \in VisitRec /\ visit'.age = 0 /\ visit'.signal = "None"
  BY <1>5, NodeAges DEF NewVisit, VisitRec
<1>10. Playing' /\ Kind' = kinds[to]
  BY <1>1, <1>7, <1>8 DEF Playing, Kind, Kinds
<1>11. OfThisVisit'
  BY <1>8, <1>9 DEF OfThisVisit
<1>12. pc' \in {"events", "node"}
  BY <1>5
<1>13. CASE kinds[to] = "Sit"
  <2>1. sit' = NewSit /\ upset' = [fell |-> FALSE, kicked |-> kickLeft > 0]
    BY <1>5, <1>13
  <2>2. /\ sit' \in SitRec /\ sit'.state = "stop" /\ sit'.sub = "none" /\ ~sit'.finished
        /\ sit'.age = 0
    BY <2>1, Times DEF NewSit, SitRec
  <2>3. upset' \in UpsetRec /\ (upset'.kicked <=> kickLeft > 0)
    <3> DEFINE k == kickLeft > 0
    <3>1. k \in BOOLEAN /\ upset' = [fell |-> FALSE, kicked |-> k]
      BY <2>1
    <3> HIDE DEF k
    <3>2. upset' \in UpsetRec /\ upset'.kicked = k
      BY <3>1 DEF UpsetRec
    <3> QED
      BY <3>2 DEF k
  <2>4. FlowTypes'
    BY <1>1, <1>3, <1>7, <1>8, <1>9, <1>10, <1>12, <2>3 DEF FlowTypes
  <2>5. InFrame'
    BY <1>3, <1>5, <1>7, <1>8, <1>10, <1>13 DEF InFrame, Playing
  <2>6. SitTypes' /\ SensedInTime' /\ SitOrder'
    BY <1>1, <2>2 DEF SitPart, SitTypes, SensedInTime, SitOrder
  <2>7. Undisturbed' /\ Seated' /\ Released'
    BY <1>1, <1>12, <2>2, <2>3 DEF Undisturbed, Seated, Released
  <2>8. Stiffened'
    BY <1>1, <1>12, <2>2, SitIsNumbers DEF SitPart, Stiffened, SitNumbers
  <2> QED
    BY <1>11, <2>4, <2>5, <2>6, <2>7, <2>8 DEF SitPart
<1>14. CASE kinds[to] # "Sit"
  <2>1. UNCHANGED <<sit, upset>>
    BY <1>5, <1>14
  <2>2. FlowTypes'
    BY <1>1, <1>3, <1>7, <1>8, <1>9, <1>10, <1>12, <2>1 DEF FlowTypes
  <2>3. InFrame'
    BY <1>3, <1>4, <1>5, <1>7, <1>8, <1>10, <1>14, <2>1 DEF InFrame, Playing
  <2>4. Sitting' => Sitting /\ sit.finished /\ sit.state = "finish"
    BY <1>1, <1>3, <1>4, <1>10, <1>14 DEF Sitting, Playing, SitPart, SitOrder
  <2>5. SitTypes' /\ SensedInTime' /\ SitOrder'
    BY <1>1, <2>1 DEF SitPart, SitTypes, SensedInTime, SitOrder
  <2>6. Undisturbed' /\ Seated' /\ Released' /\ Stiffened'
    BY <1>1, <1>12, <2>1, <2>4 DEF SitPart, Undisturbed, Seated, Released, Stiffened
  <2> QED
    BY <1>11, <2>2, <2>3, <2>5, <2>6 DEF SitPart
<1> QED
  BY <1>13, <1>14

(* The current node runs. *)
LEMMA RunNodeStep ==
  ASSUME FlowTypes, InFrame, OfThisVisit, SitPart, RunNode
  PROVE  (FlowTypes /\ InFrame /\ OfThisVisit /\ SitPart)'
<1>1. /\ pc = "node" /\ pc' = "wait" /\ Playing /\ task.started
      /\ UNCHANGED <<gs, fallen, task, sensed, upset>>
  BY DEF RunNode, InFrame
<1>2. node \in NodeRec /\ visit \in VisitRec /\ Kind \in KindSet
  BY <1>1, KindOfNode DEF FlowTypes
<1>3. ASSUME NEW c, c \in BOOLEAN, node' = [node EXCEPT !.complete = c], UNCHANGED visit
      PROVE  /\ node' \in NodeRec /\ visit' \in VisitRec /\ node'.at = node.at
             /\ node'.complete = c /\ OfThisVisit'
  <2>1. /\ node' \in NodeRec /\ node'.at = node.at /\ node'.complete = c
        /\ node'.age = node.age /\ node'.out = node.out
    BY <1>2, <1>3 DEF NodeRec
  <2> QED
    BY <1>1, <1>2, <1>3, <2>1 DEF OfThisVisit
<1>4. ASSUME node'.at = node.at
      PROVE  Playing' /\ Kind' = Kind /\ (Sitting' <=> Sitting)
  BY <1>1, <1>4, SameNode
<1>5. ASSUME node' \in NodeRec, visit' \in VisitRec, node'.at = node.at, OfThisVisit',
             walkOn' \in BOOLEAN, kickLeft' \in 0..KickTime, UNCHANGED <<sit, stiff, body>>,
             Kind \notin {"Sit", "Off"}
      PROVE  (FlowTypes /\ InFrame /\ OfThisVisit /\ SitPart)'
  <2>1. Playing' /\ Kind' = Kind /\ ~Sitting'
    BY <1>1, <1>4, <1>5 DEF Sitting, Playing
  <2>2. FlowTypes'
    BY <1>1, <1>5, <2>1 DEF FlowTypes
  <2>3. InFrame'
    BY <1>1, <1>5, <2>1 DEF InFrame, Playing
  <2>4. kickLeft' \in Nat
    BY <1>5, Times
  <2>5. SitPart'
    BY <1>1, <1>5, <2>1, <2>4
    DEF SitPart, SitTypes, SensedInTime, SitOrder, Undisturbed, Seated, Released, Stiffened
  <2> QED
    BY <1>5, <2>2, <2>3, <2>5
<1>6. walkOn \in BOOLEAN /\ kickLeft \in 0..KickTime /\ KickTime \in 0..KickTime
  BY Times DEF FlowTypes
<1>7. CASE StandNode
  <2> DEFINE c == node.age > StandTime(task.bvr)
  <2>1. /\ c \in BOOLEAN /\ node' = [node EXCEPT !.complete = c] /\ Kind = "Stand"
        /\ walkOn' = TRUE /\ UNCHANGED <<sit, kickLeft, stiff, body, visit>>
    BY <1>7 DEF StandNode
  <2> HIDE DEF c
  <2> QED
    BY <1>3, <1>5, <1>6, <2>1
<1>8. CASE WalkNode
  <2>1. /\ Kind = "Walk" /\ walkOn' = TRUE
        /\ UNCHANGED <<node, sit, kickLeft, stiff, body, visit>>
    BY <1>8 DEF WalkNode
  <2>2. OfThisVisit'
    BY <1>1, <2>1 DEF OfThisVisit
  <2> QED
    BY <1>2, <1>5, <1>6, <2>1, <2>2
<1>9. CASE KickNode
  <2> DEFINE c == KickOver
  <2>1. /\ c \in BOOLEAN /\ node' = [node EXCEPT !.complete = c] /\ Kind = "Kick"
        /\ UNCHANGED <<sit, stiff, body, visit>>
    BY <1>9 DEF KickNode, KickOver
  <2>2. walkOn' \in BOOLEAN /\ kickLeft' \in 0..KickTime
    BY <1>6, <1>9 DEF KickNode
  <2> HIDE DEF c
  <2> QED
    BY <1>3, <1>5, <2>1, <2>2
<1>10. CASE SitNode
  <2>1. /\ Kind = "Sit" /\ SitFrame /\ node' = [node EXCEPT !.complete = sit'.finished]
        /\ UNCHANGED <<kickLeft, visit>>
    BY <1>10 DEF SitNode
  <2>2. SitPart' /\ walkOn' = FALSE
    <3>1. Sitting
      BY <1>1, <2>1 DEF Sitting
    <3> QED
      BY <1>1, <2>1, <3>1, SitFrameStep
  <2>3. sit'.finished \in BOOLEAN
    BY <2>2 DEF SitPart, SitTypes, SitRec
  <2>4. /\ node' \in NodeRec /\ visit' \in VisitRec /\ node'.at = node.at
        /\ node'.complete = sit'.finished /\ OfThisVisit'
    BY <1>3, <2>1, <2>3
  <2>5. Playing' /\ Kind' = Kind
    BY <1>4, <2>4
  <2>6. FlowTypes'
    BY <1>1, <2>1, <2>2, <2>4, <2>5 DEF FlowTypes
  <2>7. InFrame'
    BY <1>1, <2>1, <2>4, <2>5 DEF InFrame, Playing
  <2> QED
    BY <2>2, <2>4, <2>6, <2>7
<1>11. CASE OffNode
  <2>1. /\ Kind = "Off" /\ SetStiffness("Zero")
        /\ UNCHANGED <<node, sit, walkOn, kickLeft, body, visit>>
    BY <1>11 DEF OffNode
  <2>2. Playing' /\ Kind' = Kind /\ Sitting' /\ Sitting
    BY <1>1, <1>4, <2>1 DEF Sitting
  <2>3. sit.finished /\ sit.state = "finish"
    BY <1>1, <2>1 DEF InFrame, SitPart, SitOrder
  <2>4. /\ stiff' = stiff \/ stiff' = [cmd |-> "Zero", age |-> 0]
        /\ stiff' \in StiffRec /\ SensedInTime'
    <3>1. stiff' = stiff \/ stiff' = [cmd |-> "Zero", age |-> 0]
      BY <2>1 DEF SetStiffness
    <3> QED
      BY <1>1, <3>1, Times DEF SitPart, SitTypes, StiffRec, SensedInTime
  <2>5. OfThisVisit' /\ InFrame'
    BY <1>1, <2>1, <2>2, <2>3 DEF OfThisVisit, InFrame, Playing
  <2>6. FlowTypes'
    BY <1>1, <1>6, <2>1, <2>2 DEF FlowTypes
  <2>7. SitTypes' /\ SitOrder'
    BY <1>1, <2>1, <2>4 DEF SitPart, SitTypes, SitOrder
  <2>8. Undisturbed' /\ Seated'
    BY <1>1, <2>1, <2>2, <2>3 DEF SitPart, Undisturbed, Seated
  <2>9. Released' /\ Stiffened'
    BY <1>1, <2>1, <2>2, <2>3, <2>4 DEF SitPart, Released, Stiffened
  <2> QED
    BY <2>4, <2>5, <2>6, <2>7, <2>8, <2>9 DEF SitPart
<1>12. CASE BlockerNode
  <2>1. PICK signal \in {"None", "left", "right", "center"} :
          IF signal = "None" THEN UNCHANGED <<node, visit>>
          ELSE node' = [node EXCEPT !.out = signal] /\ visit' = [visit EXCEPT !.signal = signal]
    BY <1>12 DEF BlockerNode
  <2>2. Kind = "Blocker" /\ UNCHANGED <<sit, walkOn, kickLeft, stiff, body>>
    BY <1>12 DEF BlockerNode
  <2>3. /\ node' \in NodeRec /\ visit' \in VisitRec /\ node'.at = node.at
        /\ node'.age = node.age /\ visit'.age = visit.age /\ node'.complete = node.complete
        /\ visit'.signal = node'.out
    BY <1>2, <2>1 DEF NodeRec, VisitRec, OfThisVisit
  <2>4. OfThisVisit'
    BY <1>1, <2>3 DEF OfThisVisit
  <2> QED
    BY <1>5, <1>6, <2>2, <2>3, <2>4
<1>13. CASE BlockNode
  <2>1. Kind = "Block" /\ UNCHANGED <<node, sit, walkOn, kickLeft, stiff, body, visit>>
    BY <1>13 DEF BlockNode
  <2>2. OfThisVisit'
    BY <1>1, <2>1 DEF OfThisVisit
  <2> QED
    BY <1>2, <1>5, <1>6, <2>1, <2>2
<1> QED
  BY <1>7, <1>8, <1>9, <1>10, <1>11, <1>12, <1>13 DEF RunNode

-----------------------------------------------------------------------------
(* The invariant and the theorems. *)

(* The first frame. *)
LEMMA FirstFrame == ASSUME Init PROVE SitInv
<1>1. ~Playing /\ ~task.finished /\ task \in TaskRec
  BY Times DEF Init, NewTask, TaskKind, Playing, TaskRec
<1>2. node \in NodeRec /\ ~node.complete /\ node.out = "None" /\ node.age = 0
  BY NodeAges DEF Init, NodeRec
<1>3. visit \in VisitRec /\ visit.age = 0 /\ visit.signal = "None"
  BY NodeAges DEF Init, NewVisit, VisitRec
<1>4. upset \in UpsetRec
  BY DEF Init, Calm, UpsetRec
<1>5. sit \in SitRec /\ sit.state = "stop" /\ sit.sub = "none" /\ ~sit.finished /\ sit.age = 0
  BY Times DEF Init, NewSit, SitRec
<1>6. stiff \in StiffRec /\ stiff.cmd = "Zero" /\ stiff.age = Ramp /\ sensed = "Zero"
  BY Times DEF Init, StiffRec
<1>7. body \in BodyRec /\ kickLeft = 0 /\ walkOn = FALSE /\ pc = "run"
  BY Times DEF Init, BodyRec
<1>8. FlowTypes
  <2>1. kickLeft \in 0..KickTime /\ gs = "INITIAL" /\ fallen = FALSE
    BY Times DEF Init
  <2> QED
    BY <1>1, <1>2, <1>3, <1>4, <1>7, <2>1 DEF FlowTypes
<1>9. InFrame /\ OfThisVisit
  BY <1>1, <1>2, <1>3, <1>7 DEF InFrame, OfThisVisit
<1>10. SitTypes /\ SensedInTime /\ SitOrder
  BY <1>5, <1>6, <1>7 DEF SitTypes, SensedInTime, Settled, SitOrder
<1>11. Undisturbed /\ Seated /\ Released
  BY <1>5, <1>7 DEF Undisturbed, Seated, Released
<1>12. Stiffened
  BY <1>5, <1>6, <1>7, Times DEF Stiffened
<1> QED
  BY <1>8, <1>9, <1>10, <1>11, <1>12, Parts DEF SitPart

(* Every step keeps the invariant. *)
LEMMA SitInvStep == ASSUME SitInv, [Next]_vars PROVE SitInv'
<1>1. FlowTypes /\ InFrame /\ OfThisVisit /\ SitPart
  BY Parts
<1>2. (FlowTypes /\ InFrame /\ OfThisVisit /\ SitPart)' => SitInv'
  BY Parts, PTL
<1>3. CASE Tick
  BY <1>1, <1>2, <1>3, TickStep
<1>4. CASE \E s \in States, down \in BOOLEAN, b \in Behaviors : ProcessFrame(s, down, b)
  BY <1>1, <1>2, <1>4, ProcessFrameStep
<1>5. CASE RunTask
  BY <1>1, <1>2, <1>5, RunTaskStep
<1>6. CASE RunMachine
  BY <1>1, <1>2, <1>6, RunMachineStep
<1>7. CASE FireEvent
  BY <1>1, <1>2, <1>7, FireEventStep
<1>8. CASE NoEvent
  BY <1>1, <1>2, <1>8, NoEventStep
<1>9. CASE RunNode
  BY <1>1, <1>2, <1>9, RunNodeStep
<1>10. CASE UNCHANGED vars
  BY <1>10 DEF vars, SitInv, TypeOK, HistoryOK, InFrame, OfThisVisit, SensedInTime, SitOrder,
     Undisturbed, Seated, Released, Stiffened, Sitting, Playing, Kind
<1> QED
  BY <1>3, <1>4, <1>5, <1>6, <1>7, <1>8, <1>9, <1>10 DEF Next

(* What every reachable state satisfies. *)
LEMMA SitInvariant == Spec => []SitInv
<1>1. Init => SitInv
  BY FirstFrame
<1>2. SitInv /\ [Next]_vars => SitInv'
  BY SitInvStep
<1> QED
  BY <1>1, <1>2, PTL DEF Spec

(* A Sit task, or a machine, that has finished leaves the joints released,       *)
(* although its one command to do so may be left out because of what is sensed.  *)
THEOREM FinishedRobotIsLimp == Spec => []BehaviorInv
<1>1. SitInv => BehaviorInv
  <2> SUFFICES ASSUME SitInv, task.kind = "Sit" \/ Playing, task.finished, ~upset.kicked
               PROVE  stiff.cmd = "Zero"
    BY DEF SitInv, BehaviorInv, FinishedIsLimp, Playing
  <2>1. Sitting /\ sit.finished
    BY DEF SitInv, InFrame, Sitting
  <2> QED
    BY <2>1 DEF SitInv, SitOrder, Released
<1> QED
  BY <1>1, SitInvariant, PTL

(* A body command of age 0 is a new one of Sit's, a kick's or the engine's: time *)
(* makes the others older.                                                       *)
LEMMA NewPose ==
  ASSUME SitInv, [Next]_vars, body'.by = "pose", body' # body, body'.age = 0
  PROVE  Sitting /\ SitFrame /\ sit.sub = "new" /\ ~sit.finished
<1>1. body \in BodyRec
  BY DEF SitInv, HistoryOK, BodyRec
<1>2. ~Tick
  <2> SUFFICES ASSUME Tick PROVE FALSE
    OBVIOUS
  <2>1. body' = [body EXCEPT !.age = Capped(body.age + 1, T2 + 1)]
    BY DEF Tick, MotionFrames, SitInv, TypeOK
  <2>2. body'.age = Capped(body.age + 1, T2 + 1) /\ body.age \in Nat
    BY <1>1, <2>1 DEF BodyRec
  <2> QED
    BY <2>2, Times DEF Capped
<1>3. (RunTask /\ task.kind = "Sit" /\ SitFrame) \/ (RunNode /\ SitNode)
  BY <1>2 DEF Next, ProcessFrame, RunTask, RunMachine, FireEvent, NoEvent, RunNode, vars,
     StandNode, WalkNode, KickNode, OffNode, BlockerNode, BlockNode
<1>4. Sitting /\ SitFrame
  BY <1>3 DEF RunNode, SitNode, Sitting, SitInv, InFrame
<1> QED
  BY <1>4 DEF SitFrame, RunPose

(* A pose is sent to joints that hold: Sit's two seconds are enough for the      *)
(* stiffness it asked for to be commanded, whatever was sensed at first.         *)
THEOREM PoseHeld == Spec => PoseIsHeld
<1> DEFINE Held == body'.by = "pose" /\ body' # body /\ body'.age = 0 =>
                     stiff.cmd # "Zero" \/ upset.fell
<1>1. ASSUME SitInv, [Next]_vars PROVE [Held]_vars
  <2> SUFFICES ASSUME body'.by = "pose", body' # body, body'.age = 0, stiff.cmd = "Zero",
                      ~upset.fell
               PROVE  FALSE
    OBVIOUS
  <2>1. Sitting /\ sit.sub = "new"
    BY <1>1, NewPose
  <2>2. SitNumbers /\ sit.age >= T2 /\ sit.state # "finish"
    BY <1>1, <2>1, Parts, SitIsNumbers DEF SitPart, SitOrder
  <2>3. sit.age <= stiff.age
    BY <1>1, <2>1, <2>2 DEF SitInv, Stiffened
  <2> QED
    BY <2>2, <2>3, Times DEF SitNumbers
<1> HIDE DEF Held
<1>2. SitInv /\ [Next]_vars => [Held]_vars
  BY <1>1
<1>3. Spec => [][Held]_vars
  BY <1>2, SitInvariant, PTL DEF Spec
<1> QED
  BY <1>3 DEF PoseIsHeld, Held

(* The legs are let go, except after a fall, only by a robot whose sitting pose  *)
(* has had its two seconds, or that was kicking when it was told to sit.         *)
THEOREM LegsLetGo == Spec => LimpOnlyWhenSeated
<1> DEFINE Limp == stiff.cmd # "Zero" /\ stiff'.cmd = "Zero" /\ ~fallen' =>
                     (body.by = "pose" /\ body.age > T2) \/ upset.kicked
<1>1. ASSUME SitInv, [Next]_vars PROVE [Limp]_vars
  <2> SUFFICES ASSUME stiff.cmd # "Zero", stiff'.cmd = "Zero", ~fallen', ~upset.kicked
               PROVE  body.by = "pose" /\ body.age > T2
    OBVIOUS
  <2>1. ~Tick
    BY <1>1 DEF Tick, MotionFrames, EngineCommand
  <2>2. ~\E s \in States, down \in BOOLEAN, b \in Behaviors : ProcessFrame(s, down, b)
    BY DEF ProcessFrame
  <2>3. (RunTask /\ task.kind = "Sit" /\ SitFrame) \/ (RunNode /\ (SitNode \/ OffNode))
    BY <1>1, <2>1, <2>2 DEF Next, RunTask, RunMachine, FireEvent, NoEvent, RunNode, vars,
       StandNode, WalkNode, KickNode, BlockerNode, BlockNode
  <2>4. Sitting
    BY <1>1, <2>3 DEF RunNode, SitNode, OffNode, Sitting, SitInv, InFrame
  <2>5. CASE SitFrame
    <3>1. stiff' # stiff
      OBVIOUS
    <3>2. ~SetStiffness("One") /\ ~SetStiffness("Knee")
      BY DEF SetStiffness
    <3>3. SitStiffness
      BY <2>5, <3>1, <3>2 DEF SitFrame
    <3>4. sit.state = "relaxbody"
      BY <3>1, <3>2, <3>3 DEF SitStiffness
    <3> QED
      BY <1>1, <2>4, <3>4 DEF SitInv, Seated
  <2>6. CASE RunNode /\ OffNode
    <3>1. sit.state = "finish"
      BY <1>1, <2>6 DEF RunNode, OffNode, SitInv, InFrame, SitOrder
    <3> QED
      BY <1>1, <2>4, <3>1 DEF SitInv, Seated
  <2> QED
    BY <2>3, <2>5, <2>6 DEF SitNode
<1> HIDE DEF Limp
<1>2. SitInv /\ [Next]_vars => [Limp]_vars
  BY <1>1
<1>3. Spec => [][Limp]_vars
  BY <1>2, SitInvariant, PTL DEF Spec
<1> QED
  BY <1>3 DEF LimpOnlyWhenSeated, Limp

(* Each visit of a node is a new one: the node is run before an event leaves it, *)
(* a time event is taken in the first frame after its time, and the keeper       *)
(* blocks only where the ball was seen in this visit.                            *)
THEOREM FreshVisits == Spec => VisitIsFresh
<1> DEFINE Fresh ==
      /\ FireEvent => visit.age > 0
      /\ \A i \in DOMAIN Transitions :
           Transitions[i].event.on = "T" =>
             /\ FireEvent => visit.age > Transitions[i].event.time
             /\ NoEvent => visit.age <= Transitions[i].event.time
      /\ Kind = "Blocker" /\ FireEvent => visit.signal # "None" /\ visit.signal = node.out
<1>1. ASSUME SitInv PROVE Fresh
  <2>1. FlowTypes /\ InFrame /\ OfThisVisit
    BY <1>1, Parts
  <2>2. node.age \in Nat /\ visit.age = node.age /\ visit.signal = node.out
    BY <2>1, NodeAges DEF FlowTypes, NodeRec, OfThisVisit
  <2>3. FireEvent \/ NoEvent => Playing /\ pc = "events"
    BY <2>1 DEF FireEvent, NoEvent, InFrame
  <2>4. ASSUME Playing, NEW i \in DOMAIN Transitions
        PROVE  \/ Transitions[i].event = C /\ Kind # "Blocker"
               \/ Transitions[i].event = T(T5) /\ DOMAIN Transitions = {1} /\ Kind # "Blocker"
               \/ Transitions[i].event \in {S("left"), S("right"), S("center")} /\ Kind = "Blocker"
    BY <2>1, <2>4, CurrentTransition, KindOfNode DEF TransitionOK
  <2>5. ASSUME FireEvent PROVE visit.age > 0
    <3>1. PICK i \in DOMAIN Transitions : Ready(Transitions[i].event)
      BY <2>5 DEF FireEvent
    <3>2. CASE Transitions[i].event = C
      BY <2>1, <2>2, <2>3, <2>5, <3>1, <3>2, ReadyC DEF OfThisVisit
    <3>3. CASE Transitions[i].event = T(T5)
      BY <2>2, <3>1, <3>3, ReadyT, Times
    <3>4. CASE Transitions[i].event \in {S("left"), S("right"), S("center")}
      <4>1. node.out \in {"left", "right", "center"}
        BY <3>1, <3>4, ReadyS
      <4> QED
        BY <2>1, <2>2, <2>3, <2>5, <4>1 DEF OfThisVisit
    <3> QED
      BY <2>3, <2>4, <2>5, <3>2, <3>3, <3>4
  <2>6. ASSUME NEW i \in DOMAIN Transitions, Transitions[i].event.on = "T"
        PROVE  /\ FireEvent => visit.age > Transitions[i].event.time
               /\ NoEvent => visit.age <= Transitions[i].event.time
    <3> SUFFICES ASSUME FireEvent \/ NoEvent
                 PROVE  /\ FireEvent => visit.age > Transitions[i].event.time
                        /\ NoEvent => visit.age <= Transitions[i].event.time
      OBVIOUS
    <3>1. Transitions[i].event = T(T5) /\ DOMAIN Transitions = {1}
      BY <2>3, <2>4, <2>6 DEF C, S
    <3>2. Transitions[i].event.time = T5
      BY <3>1 DEF T
    <3>3. FireEvent => Ready(T(T5))
      BY <2>6, <3>1 DEF FireEvent
    <3>4. NoEvent => ~Ready(T(T5))
      BY <2>6, <3>1 DEF NoEvent
    <3> QED
      BY <2>2, <3>2, <3>3, <3>4, ReadyT, Times
  <2>7. ASSUME Kind = "Blocker", FireEvent PROVE visit.signal # "None" /\ visit.signal = node.out
    <3>1. PICK i \in DOMAIN Transitions : Ready(Transitions[i].event)
      BY <2>7 DEF FireEvent
    <3>2. Transitions[i].event \in {S("left"), S("right"), S("center")}
      BY <2>3, <2>4, <2>7
    <3> QED
      BY <2>2, <3>1, <3>2, ReadyS
  <2> QED
    BY <2>5, <2>6, <2>7
<1> HIDE DEF Fresh
<1>2. SitInv => [Fresh]_vars
  BY <1>1
<1>3. Spec => [][Fresh]_vars
  BY <1>2, SitInvariant, PTL
<1> QED
  BY <1>3 DEF VisitIsFresh, Fresh
=============================================================================
