-------------------------- MODULE GameStateProofs ---------------------------
(***************************************************************************)
(* Theorems about GameState, for any times of a click, any states the tool *)
(* asks for and any of the other buttons.                                  *)
(***************************************************************************)
EXTENDS GameState, TLAPS

-----------------------------------------------------------------------------
(* Lemmas about a single button. *)

(* An age stays between 0 and Second. *)
LEMMA OlderType == ASSUME NEW a \in 0..Second PROVE Older(a) \in 0..Second /\ Older(a) > 0
  BY ClickAssumption DEF Older

ButtonInfo == [presses : 0..MaxPresses, start : NoStart..Second, last : 0..Second,
               new_result : BOOLEAN]

(* processButton counts a click exactly when the button comes up after it has    *)
(* been down for at most MaxClick frames, provided start tells how long that is. *)
LEMMA ProcessButtonCounts ==
  ASSUME NEW b \in Buttons, NEW down \in SUBSET Buttons, NEW old \in ButtonInfo, NEW h \in 0..Second,
         old.start = NoStart => h = 0,
         old.start # NoStart => h = Older(old.start)
  PROVE  /\ ProcessButton(b, b \in down, old).presses =
              old.presses + IF b \notin down /\ h \in 1..MaxClick THEN 1 ELSE 0
         /\ ProcessButton(b, b \in down, old).start = NoStart <=> b \notin down
         /\ ProcessButton(b, b \in down, old).start \in NoStart..Second
         /\ ProcessButton(b, b \in down, old).last \in 0..Second
         /\ b \in down => Older(h) = Older(ProcessButton(b, b \in down, old).start)
  <1> DEFINE new == ProcessButton(b, b \in down, old)
  <1>1. old.start \in NoStart..Second /\ old.last \in 0..Second /\ old.presses \in Nat
    BY ClickAssumption DEF ButtonInfo
  <1>2. NoStart = -1 /\ Second \in Nat /\ MaxClick \in Nat /\ Second > MaxClick
        /\ MinClick \in {0, 1}
    BY ClickAssumption DEF NoStart
  <1>3. IsClick(Elapsed(old.start)) <=> h \in 1..MaxClick
    <2>1. CASE old.start = NoStart
      BY <1>2, <2>1 DEF IsClick, Elapsed
    <2>2. CASE old.start # NoStart
      BY <1>1, <1>2, <2>2 DEF IsClick, Elapsed, Older
    <2> QED BY <2>1, <2>2
  <1>4. new.presses = old.presses + IF b \notin down /\ h \in 1..MaxClick THEN 1 ELSE 0
    BY <1>1, <1>3 DEF ProcessButton
  <1>5. new.start = IF b \in down THEN (IF old.start = NoStart THEN 0 ELSE Older(old.start)) ELSE NoStart
    BY DEF ProcessButton
  <1>6. new.start \in NoStart..Second /\ (new.start = NoStart <=> b \notin down)
    BY <1>1, <1>2, <1>5 DEF Older
  <1>7. new.last \in 0..Second
    BY <1>1, <1>2 DEF ProcessButton, LastTouch, Older
  <1>8. b \in down => Older(h) = Older(new.start)
    BY <1>1, <1>2, <1>5 DEF Older
  <1> QED BY <1>4, <1>6, <1>7, <1>8

-----------------------------------------------------------------------------
(* Types. *)

ButtonTypes ==
  /\ button \in [Buttons -> ButtonInfo]
  /\ held \in [Buttons -> 0..Second]
  /\ clicks \in [Buttons -> 0..MaxPresses]
  /\ vpc \in {"behave", "run", "buttons", "center", "set", "bumpers"}

(* Clicks are counted right from the first frame on. *)
LEMMA ButtonInit == Init => ButtonTypes /\ ButtonInv
  BY ClickAssumption DEF Init, ButtonTypes, ButtonInv, ButtonInfo, Released, NoStart, Buttons

(* A frame's look at the sensors keeps the count. *)
LEMMA ButtonLook ==
  ASSUME ButtonTypes, ButtonInv, ProcessButtons
  PROVE  ButtonTypes' /\ ButtonInv'
  <1>1. PICK down \in SUBSET Buttons :
          /\ "center" \in down => button["center"].presses < MaxPresses
          /\ button' = [b \in Buttons |-> ProcessButton(b, b \in down, button[b])]
          /\ held' = [b \in Buttons |-> IF b \in down THEN Older(held[b]) ELSE 0]
          /\ clicks' = [b \in Buttons |->
               clicks[b] + IF b \notin down /\ held[b] \in 1..MaxClick THEN 1 ELSE 0]
    BY DEF ProcessButtons
  <1>2. vpc = "buttons" /\ vpc' = IF button'["center"].new_result THEN "center" ELSE "bumpers"
    BY DEF ProcessButtons
  <1>3. "center" \in Buttons /\ Bumpers \subseteq Buttons /\ "center" \notin Bumpers
    BY BumpersAssumption DEF Buttons
  <1>4. ASSUME NEW b \in Buttons
        PROVE  /\ button'[b] \in ButtonInfo
               /\ button'[b].presses = clicks'[b]
               /\ button'[b].start = NoStart <=> b \notin down
               /\ held'[b] \in 0..Second
               /\ b \notin down => held'[b] = 0
               /\ b \in down => held'[b] = Older(button'[b].start)
               /\ button'[b].new_result => b \notin down
               /\ b = "center" /\ b \in down => button'[b].presses < MaxPresses
               /\ b \in Bumpers => /\ button'[b].presses <= 1
                                   /\ button'[b].presses > 0 => button'[b].new_result
    <2> DEFINE old == button[b]  h == held[b]  d == b \in down
               new == ProcessButton(b, b \in down, button[b])
    <2>1. old \in ButtonInfo /\ h \in 0..Second /\ old.presses = clicks[b] /\ ~old.new_result
          /\ (old.start = NoStart => h = 0) /\ (old.start # NoStart => h = Older(old.start))
      BY <1>2 DEF ButtonTypes, ButtonInv
    <2>2. /\ button'[b] = new
          /\ held'[b] = IF d THEN Older(h) ELSE 0
          /\ clicks'[b] = clicks[b] + IF ~d /\ h \in 1..MaxClick THEN 1 ELSE 0
      BY <1>1
    <2>3. /\ new.presses = old.presses + IF ~d /\ h \in 1..MaxClick THEN 1 ELSE 0
          /\ new.start = NoStart <=> ~d
          /\ new.start \in NoStart..Second
          /\ new.last \in 0..Second
          /\ d => Older(h) = Older(new.start)
      BY <2>1, ProcessButtonCounts
    <2>4. new.new_result = (old.new_result \/ (new.presses > 0 /\ Quiet(b, new.last)))
          /\ new.last = LastTouch(b, d, old.last)
          /\ new = [presses |-> new.presses, start |-> new.start, last |-> new.last,
                    new_result |-> new.new_result]
      BY DEF ProcessButton
    <2>5. old.presses \in 0..MaxPresses
      BY <2>1 DEF ButtonInfo
    <2>6. ~d /\ h \in 1..MaxClick => new.presses <= MaxPresses /\ (b \in Bumpers => new.presses <= 1)
      <3>1. CASE b = "center"
        BY <1>3, <2>1, <2>3, <2>5, <3>1, ClickAssumption DEF ButtonInv
      <3>2. CASE b \in Bumpers
        <4>1. old.presses <= 1 /\ (old.presses > 0 => old.new_result)
          BY <3>2 DEF ButtonInv
        <4> QED BY <2>1, <2>3, <2>5, <4>1, ClickAssumption
      <3> QED BY <3>1, <3>2 DEF Buttons
    <2>7. d \/ h \notin 1..MaxClick => new.presses = old.presses
      BY <2>3, <2>5, ClickAssumption
    <2>8. new.presses \in 0..MaxPresses
      BY <2>3, <2>5, <2>6, <2>7, ClickAssumption
    <2>9. b \in Bumpers => old.presses = 0
      BY <1>3, <2>1, <2>5, ClickAssumption DEF ButtonInv
    <2>10. new.new_result => ~d
      <3>1. CASE b = "center"
        <4> SUFFICES ASSUME d PROVE ~new.new_result OBVIOUS
        <4>1. new.last = 0
          BY <2>4, <3>1 DEF LastTouch
        <4>2. ~Quiet(b, new.last)
          BY <3>1, <4>1, ClickAssumption DEF Quiet
        <4> QED BY <2>1, <2>4, <4>2
      <3>2. CASE b \in Bumpers
        <4> SUFFICES ASSUME d PROVE ~new.new_result OBVIOUS
        <4>1. ~(new.presses > 0)
          BY <2>7, <2>9, <3>2
        <4> QED BY <2>1, <2>4, <4>1
      <3> QED BY <3>1, <3>2 DEF Buttons
    <2>11. b \in Bumpers => new.presses <= 1 /\ (new.presses > 0 => new.new_result)
      <3> SUFFICES ASSUME b \in Bumpers
                   PROVE  new.presses <= 1 /\ (new.presses > 0 => new.new_result)
        OBVIOUS
      <3>1. Quiet(b, new.last)
        BY <1>3 DEF Quiet
      <3>2. new.presses <= 1
        BY <2>6, <2>7, <2>9
      <3> QED BY <2>4, <3>1, <3>2
    <2>12. new.new_result \in BOOLEAN
      BY <2>1, <2>4 DEF Quiet, ButtonInfo
    <2>13. new \in ButtonInfo
      BY <2>3, <2>4, <2>8, <2>12 DEF ButtonInfo
    <2>14. held'[b] \in 0..Second
      BY <2>1, <2>2, OlderType, ClickAssumption
    <2>15. b = "center" /\ d => new.presses < MaxPresses
      BY <1>1, <2>7
    <2> HIDE DEF new, old, h, d
    <2> QED BY <2>1, <2>2, <2>3, <2>10, <2>11, <2>13, <2>14, <2>15 DEF d
  <1>5. ButtonTypes'
    <2>1. \A b \in Buttons : clicks'[b] \in 0..MaxPresses
      BY <1>4 DEF ButtonInfo
    <2>2. button' = [b \in Buttons |-> button'[b]] /\ held' = [b \in Buttons |-> held'[b]]
          /\ clicks' = [b \in Buttons |-> clicks'[b]]
      BY <1>1
    <2> QED BY <1>2, <1>4, <2>1, <2>2 DEF ButtonTypes
  <1>6. ButtonInv'
    BY <1>2, <1>3, <1>4 DEF ButtonInv
  <1> QED BY <1>5, <1>6

(* ButtonInfo::reset forgets the presses and the result, and not the touch. *)
LEMMA ResetInfoType ==
  ASSUME NEW info \in ButtonInfo
  PROVE  /\ ResetInfo(info) \in ButtonInfo
         /\ ResetInfo(info).presses = 0
         /\ ResetInfo(info).start = info.start
         /\ ~ResetInfo(info).new_result
  <1>1. 0 \in 0..MaxPresses
    BY ClickAssumption
  <1> QED BY <1>1 DEF ButtonInfo, ResetInfo

(* The results, used and reset. *)
LEMMA ButtonResults ==
  ASSUME ButtonTypes, ButtonInv, ProcessCenterPresses \/ ProcessBumpers
  PROVE  ButtonTypes' /\ ButtonInv'
  <1>1. "center" \in Buttons /\ Bumpers \subseteq Buttons /\ "center" \notin Bumpers
        /\ Buttons = {"center"} \cup Bumpers
    BY BumpersAssumption DEF Buttons
  <1>2. CASE ProcessCenterPresses
    <2>1. /\ vpc' = "bumpers" /\ UNCHANGED held
          /\ button' = [button EXCEPT !["center"] = ResetInfo(@)]
          /\ clicks' = [clicks EXCEPT !["center"] = 0]
      BY <1>2 DEF ProcessCenterPresses
    <2>2. \A b \in Bumpers : button'[b] = button[b] /\ clicks'[b] = clicks[b]
      BY <1>1, <2>1 DEF ButtonTypes
    <2>3. button["center"] \in ButtonInfo /\ button'["center"] = ResetInfo(button["center"])
          /\ clicks'["center"] = 0
      BY <1>1, <2>1 DEF ButtonTypes
    <2>4. /\ button'["center"].presses = 0 /\ ~button'["center"].new_result
          /\ button'["center"].start = button["center"].start
          /\ button'["center"] \in ButtonInfo
      BY <2>3, ResetInfoType
    <2>5. ButtonTypes'
      BY <1>1, <2>1, <2>4, ClickAssumption DEF ButtonTypes
    <2>6. ButtonInv'
      BY <1>1, <2>1, <2>2, <2>3, <2>4, ClickAssumption DEF ButtonInv
    <2> QED BY <2>5, <2>6
  <1>3. CASE ProcessBumpers
    <2>1. /\ vpc = "bumpers" /\ vpc' = "behave" /\ UNCHANGED held
          /\ button' = [b \in Buttons |->
               IF b \in Bumpers /\ button[b].new_result THEN ResetInfo(button[b]) ELSE button[b]]
          /\ clicks' = [b \in Buttons |->
               IF b \in Bumpers /\ button[b].new_result THEN 0 ELSE clicks[b]]
      BY <1>3 DEF ProcessBumpers
    <2>2. ASSUME NEW b \in Buttons
          PROVE  /\ button'[b] \in ButtonInfo /\ clicks'[b] \in 0..MaxPresses
                 /\ button'[b].presses = clicks'[b]
                 /\ button'[b].start = button[b].start
                 /\ ~button'[b].new_result
                 /\ b = "center" => button'[b] = button[b]
                 /\ b \in Bumpers => button'[b].presses = 0
      <3>1. button[b] \in ButtonInfo /\ clicks[b] \in 0..MaxPresses
            /\ button[b].presses = clicks[b]
        BY DEF ButtonTypes, ButtonInv
      <3>2. CASE b \in Bumpers /\ button[b].new_result
        <4>1. button'[b] = ResetInfo(button[b]) /\ clicks'[b] = 0
          BY <2>1, <3>2
        <4>2. 0 \in 0..MaxPresses
          BY ClickAssumption
        <4> QED BY <1>1, <3>1, <3>2, <4>1, <4>2, ResetInfoType
      <3>3. CASE ~(b \in Bumpers /\ button[b].new_result)
        <4>1. button'[b] = button[b] /\ clicks'[b] = clicks[b]
          BY <2>1, <3>3
        <4>2. ~button[b].new_result
          BY <1>1, <2>1, <3>3 DEF ButtonInv
        <4>3. b \in Bumpers => button[b].presses = 0
          BY <3>1, <4>2, ClickAssumption DEF ButtonInv, ButtonInfo
        <4> QED BY <3>1, <4>1, <4>2, <4>3
      <3> QED BY <3>2, <3>3
    <2>3. ButtonTypes'
      <3>1. button' = [b \in Buttons |-> button'[b]] /\ clicks' = [b \in Buttons |-> clicks'[b]]
        BY <2>1
      <3> QED BY <2>1, <2>2, <3>1 DEF ButtonTypes
    <2>4. ButtonInv'
      <3>1. ~(0 > 0) /\ 0 <= 1
        OBVIOUS
      <3>2. \A b \in Bumpers : button'[b].presses <= 1 /\ ~(button'[b].presses > 0)
        BY <1>1, <2>2, <3>1
      <3>3. \A b \in Buttons :
              /\ button'[b].presses = clicks'[b]
              /\ button'[b].start = NoStart => held'[b] = 0
              /\ button'[b].start # NoStart => held'[b] = Older(button'[b].start)
              /\ ~button'[b].new_result
        BY <2>1, <2>2 DEF ButtonInv
      <3>4. button'["center"] = button["center"]
        BY <1>1, <2>2
      <3> QED BY <1>1, <3>2, <3>3, <3>4 DEF ButtonInv
    <2> QED BY <2>3, <2>4
  <1> QED BY <1>2, <1>3

(* Every other step leaves the buttons alone. *)
LEMMA ButtonStep ==
  ASSUME ButtonTypes, ButtonInv, [Next]_vars
  PROVE  ButtonTypes' /\ ButtonInv'
  <1>1. CASE ProcessButtons
    BY <1>1, ButtonLook
  <1>2. CASE ProcessCenterPresses \/ ProcessBumpers
    BY <1>2, ButtonResults
  <1>3. CASE RestartPython \/ ProcessFrame \/ ReadState \/ ToolState \/ RestartInterpreter
             \/ UNCHANGED vars
    <2>1. /\ UNCHANGED <<button, held, clicks>>
          /\ \/ vpc' = vpc
             \/ vpc \in {"behave", "run"} /\ vpc' \in {"run", "buttons"}
             \/ vpc = "center" /\ vpc' = "set"
      BY <1>3 DEF RestartPython, ProcessFrame, ReadState, ToolState, RestartInterpreter, vars, touch
    <2>2. ButtonTypes'
      BY <2>1 DEF ButtonTypes
    <2>3. ButtonInv'
      BY <2>1 DEF ButtonInv
    <2> QED BY <2>2, <2>3
  <1> QED BY <1>1, <1>2, <1>3 DEF Next, Vision, Tool

(* Every result of a button holds each click since the result before once, no   *)
(* touch longer than a click, and is given when the button is up (processButton  *)
(* and reset of ButtonModule), for any times of a click and interval.            *)
THEOREM ClicksCounted == Spec => []ResultCountsClicks
  <1>1. Init => ButtonTypes /\ ButtonInv
    BY ButtonInit
  <1>2. ButtonTypes /\ ButtonInv /\ [Next]_vars => (ButtonTypes /\ ButtonInv)'
    BY ButtonStep
  <1>3. ButtonInv => ResultCountsClicks
    BY DEF ButtonInv, ResultCountsClicks
  <1> QED BY <1>1, <1>2, <1>3, PTL DEF Spec

-----------------------------------------------------------------------------
(* The state and the task. *)

StateTypes ==
  /\ state_ \in States /\ isPenaltyKick \in BOOLEAN /\ flags \in [Bumpers -> BOOLEAN]
  /\ state \in States \cup {None} /\ cstate \in States \cup {None}
  /\ currentState \in States \cup {None} /\ currentTask \in TaskStates \cup {None}
  /\ is_ok_ \in BOOLEAN /\ restart_requested_ \in BOOLEAN /\ moved \in BOOLEAN

(* The states the buttons set are states of the game. *)
LEMMA ButtonStates ==
  /\ \A presses \in Nat : Numbered(presses) \in States \cup {None}
  /\ \A s \in DOMAIN Cycle : Cycle[s] \in States
  <1>1. ASSUME NEW presses \in Nat PROVE Numbered(presses) \in States \cup {None}
    BY DEF Numbered, States, None
  <1>2. DOMAIN Cycle = {"PENALISED", "TESTING", "TEST_ODOMETRY", "READY", "SET", "PLAYING",
                        "FINISHED"}
    BY DEF Cycle
  <1>3. \A s \in DOMAIN Cycle : Cycle[s] \in States
    BY <1>2 DEF Cycle, States
  <1> QED BY <1>1, <1>3

(* The state, its copies and the task keep their types. *)
LEMMA StateStep ==
  ASSUME StateTypes, ButtonTypes, [Next]_vars
  PROVE  StateTypes'
  <1> USE DEF StateTypes
  <1>1. CASE RestartPython
    BY <1>1 DEF RestartPython, Restart, locals
  <1>2. CASE ProcessFrame
    BY <1>2 DEF ProcessFrame, Behave, HasTask, python, locals
  <1>3. CASE ProcessButtons
    BY <1>3 DEF ProcessButtons, python
  <1>4. CASE ReadState
    BY <1>4 DEF ReadState, python
  <1>5. CASE ProcessCenterPresses
    <2>1. button["center"].presses \in Nat
      BY ClickAssumption DEF ButtonTypes, ButtonInfo, Buttons
    <2>2. state_' \in States /\ moved' \in BOOLEAN
      BY <1>5, <2>1, ButtonStates DEF ProcessCenterPresses, SetState
    <2>3. isPenaltyKick' \in BOOLEAN
      BY <1>5 DEF ProcessCenterPresses
    <2> QED BY <1>5, <2>2, <2>3 DEF ProcessCenterPresses, python
  <1>6. CASE ProcessBumpers
    <2>1. flags' \in [Bumpers -> BOOLEAN]
      BY <1>6 DEF ProcessBumpers
    <2> QED BY <1>6, <2>1 DEF ProcessBumpers, python
  <1>7. CASE ToolState
    BY <1>7, ToolStatesAssumption DEF ToolState, SetState, locals, python
  <1>8. CASE RestartInterpreter
    BY <1>8 DEF RestartInterpreter, locals
  <1>9. CASE UNCHANGED vars
    BY <1>9 DEF vars, locals, python
  <1> QED BY <1>1, <1>2, <1>3, <1>4, <1>5, <1>6, <1>7, <1>8, <1>9 DEF Next, Vision, Tool

(* They start with them. *)
LEMMA StateInit == Init => StateTypes
  BY DEF Init, StateTypes, States

(* Every variable keeps its type. *)
THEOREM GameTypeCorrect == Spec => []TypeOK
  <1>1. Init => StateTypes /\ ButtonTypes /\ ButtonInv
    BY StateInit, ButtonInit
  <1>2. StateTypes /\ ButtonTypes /\ ButtonInv /\ [Next]_vars
          => (StateTypes /\ ButtonTypes /\ ButtonInv)'
    BY StateStep, ButtonStep
  <1>3. StateTypes /\ ButtonTypes => TypeOK
    BY DEF StateTypes, ButtonTypes, ButtonInfo, TypeOK
  <1> QED BY <1>1, <1>2, <1>3, PTL DEF Spec

(* The task that runs is that of the state the behaviour has read, and python    *)
(* only breaks on a state without a task (processFrame, areDistinct and          *)
(* createStateTask of primary_bvr.py), whatever the tool asks for.               *)
THEOREM TaskOfState == Spec => []TaskFitsState
  <1>1. Init => StateTypes /\ ButtonTypes /\ ButtonInv /\ TaskFitsState
    BY StateInit, ButtonInit DEF Init, TaskFitsState
  <1>2. ASSUME StateTypes, TaskFitsState, [Next]_vars PROVE TaskFitsState'
    <2> USE DEF StateTypes
    <2>1. CASE RestartPython
      BY <1>2, <2>1 DEF RestartPython, Restart, TaskFitsState
    <2>2. CASE ProcessFrame
      <3>1. CASE is_ok_
        <4>1. Behave
          BY <1>2, <2>2, <3>1 DEF ProcessFrame
        <4>2. CASE AreDistinct(state_, currentState)
          BY <1>2, <3>1, <4>1, <4>2
             DEF Behave, HasTask, TaskStates, States, TaskFitsState
        <4>3. CASE ~AreDistinct(state_, currentState)
          BY <1>2, <3>1, <4>1, <4>3 DEF Behave, AreDistinct, Resting, States, None, TaskFitsState
        <4> QED BY <1>2, <4>2, <4>3
      <3>2. CASE ~is_ok_
        BY <1>2, <2>2, <3>2 DEF ProcessFrame, python, TaskFitsState
      <3> QED BY <1>2, <3>1, <3>2
    <2>3. CASE UNCHANGED <<currentState, currentTask, is_ok_>>
      BY <1>2, <2>3 DEF TaskFitsState
    <2>4. CASE ProcessButtons \/ ReadState \/ ProcessCenterPresses \/ ProcessBumpers \/ ToolState
               \/ RestartInterpreter \/ UNCHANGED vars
      BY <1>2, <2>3, <2>4 DEF ProcessButtons, ReadState, ProcessCenterPresses, ProcessBumpers,
                        ToolState, RestartInterpreter, vars, python
    <2> QED BY <1>2, <2>1, <2>2, <2>4 DEF Next, Vision, Tool
  <1>3. StateTypes /\ ButtonTypes /\ ButtonInv /\ [Next]_vars
          => (StateTypes /\ ButtonTypes /\ ButtonInv)'
    BY StateStep, ButtonStep
  <1> QED BY <1>1, <1>2, <1>3, PTL DEF Spec

-----------------------------------------------------------------------------
(* What the buttons change. *)

Known == StateTypes /\ ButtonTypes /\ ButtonInv /\ LocalInv

(* The copies of the state are current until it has moved. *)
LEMMA LocalStep ==
  ASSUME StateTypes, LocalInv, [Next]_vars
  PROVE  LocalInv'
  <1> USE DEF StateTypes, LocalInv
  <1>1. state_ # None
    BY DEF States, None
  <1>2. CASE RestartPython
    BY <1>2 DEF RestartPython, locals
  <1>3. CASE ProcessFrame
    BY <1>3 DEF ProcessFrame, locals
  <1>4. CASE ProcessButtons
    BY <1>1, <1>4 DEF ProcessButtons
  <1>5. CASE ReadState
    BY <1>5 DEF ReadState
  <1>6. CASE ProcessCenterPresses
    <2>1. vpc = "set" /\ vpc' = "bumpers" /\ state # None /\ state' = state
      BY <1>6 DEF ProcessCenterPresses
    <2>2. \/ UNCHANGED <<state_, moved>>
          \/ \E s : state_' = s /\ moved' = (state # None /\ (moved \/ s # state_))
      BY <1>6 DEF ProcessCenterPresses, SetState
    <2>3. ~moved' => ~moved /\ state_' = state_
      BY <2>1, <2>2
    <2> QED BY <2>1, <2>3
  <1>7. CASE ProcessBumpers
    BY <1>7 DEF ProcessBumpers
  <1>8. CASE ToolState
    BY <1>8 DEF ToolState, SetState, locals
  <1>9. CASE RestartInterpreter
    BY <1>9 DEF RestartInterpreter, locals
  <1>10. CASE UNCHANGED vars
    BY <1>10 DEF vars, locals
  <1> QED BY <1>2, <1>3, <1>4, <1>5, <1>6, <1>7, <1>8, <1>9, <1>10 DEF Next, Vision, Tool

(* All that is known of a state: at the start ... *)
LEMMA KnownInit == Init => Known
  BY StateInit, ButtonInit DEF Init, Known, LocalInv

(* ... and after every step. *)
LEMMA KnownStep == Known /\ [Next]_vars => Known'
  BY StateStep, ButtonStep, LocalStep DEF Known

(* A single click moves the robot along the cycle from the state it is in, unless *)
(* a packet has changed it since processButtons began (processCenterPresses).     *)
THEOREM ClickFromCurrentState == Spec => ClickAdvancesState
  <1> DEFINE A == vpc = "set" /\ vpc' = "bumpers" /\ button["center"].presses = 1 /\ ~moved =>
                    state_' = IF state_ \in DOMAIN Cycle THEN Cycle[state_] ELSE state_
  <1>1. ASSUME Known, [Next]_vars PROVE A
    <2> SUFFICES ASSUME vpc = "set", vpc' = "bumpers", button["center"].presses = 1, ~moved
                 PROVE  state_' = IF state_ \in DOMAIN Cycle THEN Cycle[state_] ELSE state_
      OBVIOUS
    <2>1. ProcessCenterPresses
      BY <1>1 DEF Next, Vision, Tool, RestartPython, ProcessFrame, ProcessButtons, ReadState,
                  ProcessBumpers, ToolState, RestartInterpreter, vars
    <2>2. cstate = state_
      BY <1>1 DEF Known, LocalInv
    <2>3. Numbered(1) = None /\ 1 \notin {2, 6, 8}
      BY DEF Numbered
    <2> QED BY <2>1, <2>2, <2>3 DEF ProcessCenterPresses, SetState
  <1>2. Known /\ [Next]_vars => [A]_vars
    BY <1>1
  <1> QED BY <1>2, KnownInit, KnownStep, PTL DEF Spec, ClickAdvancesState

(* Team and kick-off change only between games, except in a frame in which the    *)
(* state has just been changed (processButtons).                                 *)
THEOREM BumpersOnlyBetweenGames == Spec => BumpersBetweenGames
  <1> DEFINE A == \A b \in Bumpers \ {"head"} : flags'[b] # flags[b] => moved \/ state_ \in Resting
  <1>1. ASSUME Known, [Next]_vars PROVE A
    <2>1. CASE ProcessBumpers
      <3> SUFFICES ASSUME NEW b \in Bumpers \ {"head"}, flags'[b] # flags[b], ~moved
                   PROVE  state_ \in Resting
        OBVIOUS
      <3>1. state \in Resting
        BY <2>1 DEF ProcessBumpers, Applies
      <3>2. state = state_
        BY <1>1, <2>1 DEF Known, LocalInv, ProcessBumpers
      <3> QED BY <3>1, <3>2
    <2>2. CASE UNCHANGED flags
      BY <2>2
    <2>3. CASE ~ProcessBumpers
      BY <1>1, <2>2, <2>3 DEF Next, Vision, Tool, RestartPython, ProcessFrame, ProcessButtons,
         ReadState, ProcessCenterPresses, ToolState, RestartInterpreter, vars
    <2> QED BY <2>1, <2>3
  <1>2. Known /\ [Next]_vars => [A]_vars
    BY <1>1
  <1> QED BY <1>2, KnownInit, KnownStep, PTL DEF Spec, BumpersBetweenGames
=============================================================================
