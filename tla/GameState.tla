----------------------------- MODULE GameState ------------------------------
(***************************************************************************)
(* The state of the game: who sets it and what follows it.  Vision's       *)
(* thread turns touches of the buttons into clicks and clicks into changes *)
(* of the state (core/sensor/ButtonModule.cpp), the thread that listens to *)
(* the tool's UDP packets changes it at any time, and the behaviour        *)
(* (core/python/primary_bvr.py) replaces its task when it has changed.     *)
(*                                                                         *)
(* Time passes with the frames of vision, one unit each, and a point in    *)
(* time is kept as its age: seconds_since_start minus it, at most Second.  *)
(* Everything written and never tested is left out: prevstate_,            *)
(* stateStartTime_, lastStateChangeFromButton, lastTimeLeftPenalized, and  *)
(* what is said.  So is the whistle: nothing calls whistleOverride.        *)
(***************************************************************************)
EXTENDS Integers

CONSTANTS
  Bumpers,      \* buttons that report a single press: "right", "left", "head"
  ToolStates,   \* states the tool asks for
  MinClick, MaxClick, MaxInterval,   \* MIN_CLICK_TIME, MAX_CLICK_TIME, MAX_CLICK_INTERVAL
  Second,       \* one second, the age beyond which ages are not told apart
  MaxPresses    \* bound: clicks in a row

States == {"INITIAL", "READY", "SET", "PLAYING", "TESTING", "PENALISED", "FINISHED",
           "FALLING", "BOTTOM_CAM", "TOP_CAM", "TEST_ODOMETRY", "MANUAL_CONTROL"}
None == "none"

ASSUME BumpersAssumption == Bumpers \subseteq {"right", "left", "head"}
ASSUME ToolStatesAssumption == ToolStates \subseteq States
ASSUME ClickAssumption ==
  /\ MinClick \in {0, 1}               \* less than a frame: any touch is long enough
  /\ MaxClick \in Nat /\ MaxInterval \in Nat /\ Second \in Nat
  /\ MaxPresses \in Nat \ {0}
  /\ Second > MaxClick /\ Second > MaxInterval

Buttons == {"center"} \cup Bumpers

VARIABLES
  state_,         \* GameStateBlock::state_
  isPenaltyKick,
  flags,          \* team_ ("right"), ourKickOff ("left"), calibrate_white_balance_ ("head")
  button,         \* ButtonInfo of each button
  vpc,            \* vision's frame: "behave", "run", "buttons", "center", "set", "bumpers"
  state,          \* the local variable of processButtons
  cstate,         \* the local variable of processCenterPresses
  currentState, currentTask,         \* of primary_bvr; a task is named by its state
  is_ok_, restart_requested_,        \* of PythonModule
  (* history *)
  held,           \* frames for which each button has been down
  clicks,         \* clicks of each button since its last result
  moved           \* state_ has changed in this frame since processButtons read it

python == <<currentState, currentTask, is_ok_, restart_requested_>>
locals == <<state, cstate>>
touch == <<button, held, clicks>>
vars == <<state_, isPenaltyKick, flags, touch, vpc, locals, python, moved>>

NoStart == -1
Released == [presses |-> 0, start |-> NoStart, last |-> Second, new_result |-> FALSE]

Init ==
  /\ state_ = "INITIAL" /\ isPenaltyKick = FALSE
  /\ flags \in [Bumpers -> BOOLEAN]
  /\ button = [b \in Buttons |-> Released]
  /\ vpc = "behave"
  /\ state = None /\ cstate = None
  /\ currentState = None /\ currentTask = None
  /\ is_ok_ = TRUE /\ restart_requested_ = FALSE
  /\ held = [b \in Buttons |-> 0] /\ clicks = [b \in Buttons |-> 0]
  /\ moved = FALSE

-----------------------------------------------------------------------------
(* GameStateBlock::setState. *)
SetState(s) ==
  /\ state_' = s
  /\ moved' = (state # None /\ (moved \/ s # state_))

-----------------------------------------------------------------------------
(* The behaviour. *)

Resting == {"INITIAL", "FINISHED"}

AreDistinct_OneWay(s1, s2) == ~(s1 = "FINISHED" \/ s1 = s2)
AreDistinct(s1, s2) == s1 # s2 /\ ~({s1, s2} \subseteq Resting)

(* createStateTask raises for the others; no behaviour of the repository defines *)
(* the class Testing.                                                            *)
TaskStates == {"INITIAL", "FINISHED", "READY", "PLAYING", "PENALISED", "SET", "FALLING",
               "MANUAL_CONTROL"}
HasTask(s) == s \in TaskStates

(* primary_bvr.processFrame: the state is read once.  An exception leaves        *)
(* is_ok_ FALSE and the task that was just finished in place.                     *)
Behave ==
  /\ currentState' = state_
  /\ IF AreDistinct(state_, currentState)
     THEN IF HasTask(state_) THEN currentTask' = state_ /\ UNCHANGED is_ok_
          ELSE is_ok_' = FALSE /\ UNCHANGED currentTask
     ELSE UNCHANGED <<currentTask, is_ok_>>
  /\ UNCHANGED restart_requested_

(* PythonModule::restart: a new interpreter, in which nothing has run. *)
Restart ==
  /\ restart_requested_' = FALSE
  /\ is_ok_' = TRUE
  /\ currentState' = None /\ currentTask' = None

(* PythonModule::processFrame.  A restart is followed by the frame. *)
RestartPython ==
  /\ vpc = "behave" /\ restart_requested_
  /\ vpc' = "run"
  /\ Restart
  /\ UNCHANGED <<state_, isPenaltyKick, flags, touch, locals, moved>>

ProcessFrame ==
  /\ vpc = "run" \/ (vpc = "behave" /\ ~restart_requested_)
  /\ vpc' = "buttons"
  /\ IF is_ok_ THEN Behave ELSE UNCHANGED python
  /\ UNCHANGED <<state_, isPenaltyKick, flags, touch, locals, moved>>

-----------------------------------------------------------------------------
(* The buttons. *)

Older(age) == IF age < Second THEN age + 1 ELSE Second

(* start is -1 when the button is up: a second ago or more. *)
Elapsed(start) == IF start = NoStart THEN Second ELSE Older(start)

IsClick(dt) == MinClick <= dt /\ dt <= MaxClick
(* max_interval is -1 for a button that reports single presses. *)
Quiet(b, last) == IF b = "center" THEN last > MaxInterval ELSE TRUE

(* last, which only the chest's button has a use for. *)
LastTouch(b, down, last) ==
  IF b # "center" THEN last ELSE IF down THEN 0 ELSE Older(last)

(* ButtonModule::processButton. *)
ProcessButton_Refreshes(b, down, old) ==
  LET presses == IF ~down /\ IsClick(Elapsed(old.start)) THEN old.presses + 1
                                                          ELSE old.presses
      last == 0
  IN  [presses |-> presses,
       start |-> IF down THEN (IF old.start = NoStart THEN 0 ELSE Older(old.start)) ELSE NoStart,
       last |-> last,
       new_result |-> old.new_result \/ (presses > 0 /\ Quiet(b, last))]
ProcessButton_KeepsStart(b, down, old) ==
  LET presses == IF ~down /\ IsClick(Elapsed(old.start)) THEN old.presses + 1
                                                          ELSE old.presses
      last == LastTouch(b, down, old.last)
  IN  [presses |-> presses,
       start |-> IF down THEN (IF old.start = NoStart THEN 0 ELSE Older(old.start))
                 ELSE IF IsClick(Elapsed(old.start)) THEN Older(old.start) ELSE NoStart,
       last |-> last,
       new_result |-> old.new_result \/ (presses > 0 /\ Quiet(b, last))]
ProcessButton(b, down, old) ==
  LET presses == IF ~down /\ IsClick(Elapsed(old.start)) THEN old.presses + 1
                                                          ELSE old.presses
      last == LastTouch(b, down, old.last)
  IN  [presses |-> presses,
       start |-> IF down THEN (IF old.start = NoStart THEN 0 ELSE Older(old.start)) ELSE NoStart,
       last |-> last,
       new_result |-> old.new_result \/ (presses > 0 /\ Quiet(b, last))]

(* ButtonModule::processButtons up to the results.  A click is counted here when *)
(* the button comes up after at most MaxClick frames.                            *)
ProcessButtons ==
  /\ vpc = "buttons"
  /\ state' = state_
  /\ \E down \in SUBSET Buttons :
       /\ "center" \in down => button["center"].presses < MaxPresses
       /\ button' = [b \in Buttons |-> ProcessButton(b, b \in down, button[b])]
       /\ held' = [b \in Buttons |-> IF b \in down THEN Older(held[b]) ELSE 0]
       /\ clicks' = [b \in Buttons |->
            clicks[b] + IF b \notin down /\ held[b] \in 1..MaxClick THEN 1 ELSE 0]
  /\ vpc' = IF button'["center"].new_result THEN "center" ELSE "bumpers"
  /\ UNCHANGED <<state_, isPenaltyKick, flags, cstate, python, moved>>

(* ButtonInfo::reset, after the result has been used. *)
ResetInfo(info) ==
  [presses |-> 0, start |-> info.start, last |-> info.last, new_result |-> FALSE]

(* ButtonModule::processCenterPresses reads the state first ...  *)
ReadState_OfBehavior ==
  /\ vpc = "center"
  /\ vpc' = "set"
  /\ cstate' = currentState
  /\ UNCHANGED <<state_, isPenaltyKick, flags, touch, state, python, moved>>
ReadState ==
  /\ vpc = "center"
  /\ vpc' = "set"
  /\ cstate' = state_
  /\ UNCHANGED <<state_, isPenaltyKick, flags, touch, state, python, moved>>

(* ... and sets it from the number of clicks, or from the state it has read. *)
Numbered(presses) ==
  CASE presses \in {3, 4} -> "SET"
    [] presses = 5 -> "FINISHED"
    [] presses = 7 -> "TESTING"
    [] OTHER -> None

Cycle ==
  [PENALISED |-> "PLAYING", TESTING |-> "FINISHED", TEST_ODOMETRY |-> "FINISHED",
   READY |-> "SET", SET |-> "PLAYING", PLAYING |-> "PENALISED", FINISHED |-> "INITIAL"]

ProcessCenterPresses ==
  /\ vpc = "set"
  /\ vpc' = "bumpers"
  /\ LET presses == button["center"].presses
     IN  /\ IF Numbered(presses) # None THEN SetState(Numbered(presses))
            ELSE IF presses \notin {2, 6, 8} /\ cstate \in DOMAIN Cycle THEN SetState(Cycle[cstate])
            ELSE UNCHANGED <<state_, moved>>
         /\ isPenaltyKick' = IF presses \in {2, 8} THEN ~isPenaltyKick ELSE isPenaltyKick
  /\ button' = [button EXCEPT !["center"] = ResetInfo(@)]
  /\ clicks' = [clicks EXCEPT !["center"] = 0]
  /\ cstate' = None
  /\ UNCHANGED <<flags, held, state, python>>

(* processButtons: the results of the other buttons, with the state it has read. *)
Applies(b) ==
  button[b].new_result /\ (b = "head" \/ state \in Resting)

ProcessBumpers ==
  /\ vpc = "bumpers"
  /\ vpc' = "behave"
  /\ flags' = [b \in Bumpers |-> IF Applies(b) THEN ~flags[b] ELSE flags[b]]
  /\ button' = [b \in Buttons |->
       IF b \in Bumpers /\ button[b].new_result THEN ResetInfo(button[b]) ELSE button[b]]
  /\ clicks' = [b \in Buttons |-> IF b \in Bumpers /\ button[b].new_result THEN 0 ELSE clicks[b]]
  /\ state' = None /\ moved' = FALSE
  /\ UNCHANGED <<state_, isPenaltyKick, held, cstate, python>>

-----------------------------------------------------------------------------
(* CommunicationModule::listenToolUDP. *)

(* The packets that set the state; RunBehavior sets INITIAL. *)
ToolState ==
  /\ \E s \in ToolStates : SetState(s)
  /\ UNCHANGED <<isPenaltyKick, flags, touch, vpc, locals, python>>

RestartInterpreter ==
  /\ restart_requested_' = TRUE
  /\ UNCHANGED <<state_, isPenaltyKick, flags, touch, vpc, locals, currentState, currentTask,
                 is_ok_, moved>>

-----------------------------------------------------------------------------
Vision == RestartPython \/ ProcessFrame \/ ProcessButtons \/ ReadState \/ ProcessCenterPresses
            \/ ProcessBumpers
Tool == ToolState \/ RestartInterpreter

Next == Vision \/ Tool

Spec == Init /\ [][Next]_vars

(* Vision's loop runs for ever; nobody need touch the robot or use the tool. *)
FairSpec == Spec /\ WF_vars(Vision)

-----------------------------------------------------------------------------
(* Properties. *)

(* The type invariant. *)
TypeOK ==
  /\ state_ \in States /\ isPenaltyKick \in BOOLEAN /\ flags \in [Bumpers -> BOOLEAN]
  /\ button \in [Buttons -> [presses : 0..MaxPresses, start : NoStart..Second,
                             last : 0..Second, new_result : BOOLEAN]]
  /\ vpc \in {"behave", "run", "buttons", "center", "set", "bumpers"}
  /\ state \in States \cup {None} /\ cstate \in States \cup {None}
  /\ currentState \in States \cup {None} /\ currentTask \in TaskStates \cup {None}
  /\ is_ok_ \in BOOLEAN /\ restart_requested_ \in BOOLEAN
  /\ held \in [Buttons -> 0..Second] /\ clicks \in [Buttons -> 0..MaxPresses]
  /\ moved \in BOOLEAN

(* A result of a button holds every click since the one before, each once, and  *)
(* no longer touch; it is given when the button is up, so that none is cut in    *)
(* two.                                                                          *)
ResultCountsClicks ==
  /\ \A b \in Buttons : button[b].presses = clicks[b]
  /\ \A b \in Buttons : button[b].new_result => held[b] = 0 /\ button[b].start = NoStart

(* Its strengthening: the time since start is the time the button has been down, *)
(* results of the other buttons do not outlast the frame, and a touch only        *)
(* begins below the bound.                                                       *)
ButtonInv ==
  /\ \A b \in Buttons :
       /\ button[b].presses = clicks[b]
       /\ button[b].start = NoStart => held[b] = 0
       /\ button[b].start # NoStart => held[b] = Older(button[b].start)
       /\ button[b].new_result => button[b].start = NoStart
       /\ vpc \in {"behave", "run", "buttons"} => ~button[b].new_result
  /\ button["center"].start # NoStart => button["center"].presses < MaxPresses
  /\ \A b \in Bumpers :
       /\ button[b].presses <= 1
       /\ button[b].presses > 0 => button[b].new_result
  /\ vpc = "bumpers" => ~button["center"].new_result

(* Clicks are reported once the button is left alone, however long ago the       *)
(* touches before them were.                                                     *)
ClicksReported ==
  \A b \in Buttons : clicks[b] > 0 ~> clicks[b] = 0 \/ held[b] > 0

(* A click of the chest moves the robot along the cycle from the state it is in, *)
(* as set by a packet or a click before, unless a packet has changed it since     *)
(* processButtons began: only in that window can a click undo what the tool has   *)
(* asked for.                                                                    *)
ClickAdvancesState ==
  [][vpc = "set" /\ vpc' = "bumpers" /\ button["center"].presses = 1 /\ ~moved =>
       state_' = IF state_ \in DOMAIN Cycle THEN Cycle[state_] ELSE state_]_vars

(* Team and kick-off change only between games, except in a frame in which the   *)
(* state has just been changed, by the tool or by the chest's button.            *)
BumpersBetweenGames ==
  [][\A b \in Bumpers \ {"head"} :
       flags'[b] # flags[b] => moved \/ state_ \in Resting]_vars

(* What the two rest on: the copies of the state that vision holds are current    *)
(* until the state has moved.                                                    *)
LocalInv ==
  /\ state # None <=> vpc \in {"center", "set", "bumpers"}
  /\ state # None /\ ~moved => state = state_
  /\ vpc = "set" /\ ~moved => cstate = state_
  /\ state = None => ~moved

(* While python runs, the task is the one of the state the behaviour has read,   *)
(* where INITIAL and FINISHED have one task between them, and the interpreter    *)
(* only breaks on a state that has no task.                                      *)
TaskFitsState ==
  /\ is_ok_ /\ currentState # None =>
       \/ currentTask = currentState
       \/ {currentTask, currentState} \subseteq Resting
  /\ ~is_ok_ => currentState \in {"TESTING", "TEST_ODOMETRY", "TOP_CAM", "BOTTOM_CAM"}
=============================================================================
