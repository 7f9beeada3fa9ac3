----------------------------- MODULE KickModule -----------------------------
(***************************************************************************)
(* core/motion/KickModule.cpp: a kick is a sequence of keyframes read from *)
(* kicks/default.yaml when the kick starts.  One step of this module is    *)
(* one frame of motion: MotionCore::receiveData overwrites the request and *)
(* the joint commands, then KickModule::processFrame runs.                 *)
(*                                                                         *)
(* A keyframe is represented by its number and its duration in frames;     *)
(* joints, stiffness and the copy of the starting pose are left out.       *)
(***************************************************************************)
EXTENDS Integers, FiniteSets

CONSTANTS
  Sequences,   \* what default.yaml may hold: functions 0..n-1 -> Nat, the durations
  Loads,       \* what sequence_->load can return
  NULL         \* no sequence

Size(seq) == Cardinality(DOMAIN seq)

ASSUME SequencesAssumption ==
  \A seq \in Sequences : Size(seq) \in Nat /\ seq \in [0..(Size(seq) - 1) -> Nat]
ASSUME LoadsAssumption == Loads \subseteq BOOLEAN
ASSUME NullAssumption == NULL \notin Sequences

VARIABLES
  kick_type_,  \* of the kick request received for the frame
  kick         \* KickModule's fields and what the frame has written:
               \*   state, seq, keyframe, frames
               \*   running: kick_running_ of the kick request
               \*   command: the keyframe written to the joint commands, or -1
               \*   shown, held: history: the keyframes commanded in this kick
               \*     and the frames since the last of them

vars == <<kick_type_, kick>>

Init ==
  /\ kick_type_ \in {"NO_KICK", "STRAIGHT", "ABORT"}
  /\ kick = [state |-> "Finished", seq |-> NULL, keyframe |-> 0, frames |-> 0,
             running |-> FALSE, command |-> -1, shown |-> {}, held |-> 0]

(* KickModule::start. *)
Start(seq) ==
  [state |-> "Initial", seq |-> seq, keyframe |-> 0, frames |-> 0,
   running |-> TRUE, command |-> -1, shown |-> {}, held |-> 0]

(* KickModule::finish.  Line 65 compares kick_type_ with NO_KICK where it means *)
(* to assign it, so the request stays.                                          *)
Finish(k) ==
  [k EXCEPT !.state = "Finished", !.running = FALSE, !.seq = NULL, !.command = -1]

(* moveBetweenKeyframes, and frames_++: the goal is written in the first of its *)
(* frames only.                                                                 *)
MoveTo_NotCounted(k, goal) ==
  [k EXCEPT !.command = goal, !.shown = @ \cup {goal}, !.held = 1]
MoveTo(k, goal) ==
  IF k.frames = 0
  THEN [k EXCEPT !.frames = 1, !.command = goal, !.shown = @ \cup {goal}, !.held = 1]
  ELSE [k EXCEPT !.frames = @ + 1, !.command = -1, !.held = @ + 1]

(* Where the recursion of performKick stops when keyframe j is reached: at the  *)
(* last keyframe, or at the first whose successor takes any time.               *)
Landing_NoSkip(seq, j) == j
Landing(seq, j) ==
  CHOOSE l \in j..(Size(seq) - 1) :
    /\ l = Size(seq) - 1 \/ seq[l + 1] > 0
    /\ \A i \in j..(l - 1) : seq[i + 1] = 0

(* The Running part of performKick. *)
NextDue_Late(k) == k.frames > k.seq[k.keyframe + 1]
NextDue(k) == k.frames >= k.seq[k.keyframe + 1]

Run(k) ==
  LET last == Size(k.seq) - 1
      at == IF k.keyframe < last /\ NextDue(k)
            THEN [k EXCEPT !.keyframe = Landing(k.seq, k.keyframe + 1), !.frames = 0]
            ELSE k
  IN IF at.keyframe = last THEN Finish(at) ELSE MoveTo(at, at.keyframe + 1)

(* KickModule::performKick. *)
PerformKick(k) ==
  IF k.seq = NULL THEN [k EXCEPT !.command = -1]
  ELSE IF k.keyframe >= Size(k.seq) THEN Finish(k)
  ELSE IF k.state = "Running" THEN Run(k)
  ELSE IF k.frames >= k.seq[k.keyframe]
       THEN Run([k EXCEPT !.state = "Running", !.frames = 0])
       ELSE MoveTo(k, k.keyframe)

(* KickModule::processFrame. *)
StartKick ==
  /\ kick.state = "Finished" /\ kick_type_ = "STRAIGHT"
  /\ \/ TRUE \in Loads /\ \E seq \in Sequences : kick' = PerformKick(Start(seq))
     \/ FALSE \in Loads /\ kick' = PerformKick(Start(NULL))

ContinueKick_Abortable ==
  /\ kick.state # "Finished"
  /\ kick' = IF kick_type_ = "ABORT" THEN Finish(kick)
             ELSE PerformKick([kick EXCEPT !.running = TRUE])
ContinueKick ==
  /\ kick.state # "Finished"
  /\ kick' = PerformKick([kick EXCEPT !.running = TRUE])

NoKick ==
  /\ kick.state = "Finished" /\ kick_type_ # "STRAIGHT"
  /\ kick' = [kick EXCEPT !.command = -1]

ProcessFrame ==
  /\ StartKick \/ ContinueKick \/ NoKick
  /\ kick_type_' \in {"NO_KICK", "STRAIGHT", "ABORT"}

Next == ProcessFrame
Spec == Init /\ [][Next]_vars

(* Motion's frames go on for ever. *)
FairSpec == Spec /\ WF_vars(Next)

-----------------------------------------------------------------------------
(* Properties. *)

(* The type invariant. *)
KickRecord ==
  [state : {"Initial", "Running", "Finished"}, seq : Sequences \cup {NULL},
   keyframe : Nat, frames : Nat, running : BOOLEAN, command : Int,
   shown : SUBSET Nat, held : Nat]

TypeOK == kick_type_ \in {"NO_KICK", "STRAIGHT", "ABORT"} /\ kick \in KickRecord

Timed(seq) == {i \in DOMAIN seq : seq[i] > 0}
UpTo(seq, goal) == {i \in Timed(seq) : i <= goal}

(* The keyframe a kick is on its way to. *)
Goal(k) == IF k.state = "Initial" THEN k.keyframe ELSE k.keyframe + 1

(* A kick commands every keyframe that has a duration, in order: the         *)
(* ones commanded so far are those up to the current goal, whatever keyframes   *)
(* of no duration the file has in between.                                      *)
KeyframesInOrder == kick.seq # NULL => kick.shown = UpTo(kick.seq, Goal(kick))

(* Its strengthening, at the end of every frame: the goal is a keyframe that    *)
(* takes time, no more of which has passed than it takes.                       *)
OnTime(k) ==
  k.seq # NULL =>
    /\ k.state # "Finished" /\ (k.state = "Initial" => k.keyframe = 0)
    /\ Goal(k) \in DOMAIN k.seq
    /\ k.frames \in 1..k.seq[Goal(k)] /\ k.held = k.frames
    /\ k.shown = UpTo(k.seq, Goal(k))

KeyframeInv == OnTime(kick)

(* A keyframe is held for exactly its duration before the next is commanded or  *)
(* the kick ends, so that the joints have the time the file gives them.         *)
HeldForDuration ==
  [][kick.seq # NULL /\ kick.shown # {} /\ (kick'.command # -1 \/ kick'.state = "Finished") =>
       \E goal \in kick.shown :
         /\ \A i \in kick.shown : i <= goal
         /\ kick.held = kick.seq[goal]]_vars

(* The frames a sequence takes up to its i-th keyframe, those it takes in all,  *)
(* and those the kick has taken.                                                *)
Elapsed(seq) ==
  LET t[i \in 0..Size(seq)] == IF i = 0 THEN 0 ELSE t[i - 1] + seq[i - 1] IN t
Total(seq) == Elapsed(seq)[Size(seq)]
Age(k) == Elapsed(k.seq)[Goal(k)] + k.frames

(* The module implements Kick: a kick begins in the frame of a STRAIGHT request *)
(* when none runs, takes the frames of its file's durations and is then over,   *)
(* in that very frame: neither ABORT, which performKick ignores, nor NO_KICK or *)
(* another STRAIGHT ends or lengthens it.  One whose file does not load is      *)
(* never over.                                                                  *)
Left(k) ==
  IF k.state = "Finished" THEN 0
  ELSE IF k.seq = NULL THEN -1
  ELSE Total(k.seq) - Age(k) + 1

KickTimes ==
  (IF TRUE \in Loads THEN {Total(seq) : seq \in Sequences} ELSE {})
    \cup (IF FALSE \in Loads THEN {-1} ELSE {})

Abstract ==
  INSTANCE Kick WITH asked <- kick_type_ = "STRAIGHT", left <- Left(kick), Times <- KickTimes

ImplementsKick == Abstract!Spec

(* kick_running_ tells whether a kick runs, at the end of every frame.          *)
StatusTruthful == kick.running = (kick.state # "Finished")

(* Every kick whose sequence could be loaded ends, also one with no keyframes   *)
(* or with keyframes of no duration.                                            *)
KickEnds == kick.seq # NULL ~> kick.state = "Finished"
=============================================================================
