-------------------------- MODULE KickModuleProofs --------------------------
(***************************************************************************)
(* Proofs about KickModule and KickRound: the types, the truth of          *)
(* kick_running_, where the recursion of performKick stops, that every     *)
(* keyframe is commanded in order and held for its time and that the       *)
(* module implements Kick, for every set of sequences; and that one visit  *)
(* of the Kick node is one kick, for every kick and rate KickRound allows. *)
(***************************************************************************)
EXTENDS KickRound, WellFoundedInduction, TLAPS

(* Every non-empty set of naturals has a least element.                    *)
LEMMA LeastElement ==
  ASSUME NEW T, T \subseteq Nat, T # {}
  PROVE  \E x \in T : \A y \in T : x <= y
<1> DEFINE R == OpToRel(<, Nat)
<1>1. IsWellFoundedOn(R, Nat)
  BY NatLessThanWellFounded
<1> HIDE DEF R
<1>2. PICK x \in T : \A y \in T : ~(<<y, x>> \in R)
  BY <1>1, WFMin
<1>3. \A y \in T : x <= y
  <2> SUFFICES ASSUME NEW y \in T PROVE x <= y
    OBVIOUS
  <2>1. <<y, x>> \notin {ss \in Nat \X Nat : ss[1] < ss[2]}
    BY <1>2 DEF R, OpToRel
  <2>2. y \in Nat /\ x \in Nat
    OBVIOUS
  <2>3. ~(y < x)
    BY <2>1, <2>2
  <2> QED
    BY <2>2, <2>3
<1> QED
  BY <1>3

(* The recursion of performKick stops, and at the keyframe Landing says.   *)
LEMMA LandingExists ==
  ASSUME NEW seq \in Sequences, NEW j \in 0..(Size(seq) - 1)
  PROVE  /\ Landing(seq, j) \in j..(Size(seq) - 1)
         /\ Landing(seq, j) = Size(seq) - 1 \/ seq[Landing(seq, j) + 1] > 0
         /\ \A i \in j..(Landing(seq, j) - 1) : seq[i + 1] = 0
<1>1. Size(seq) \in Nat /\ seq \in [0..(Size(seq) - 1) -> Nat]
  BY SequencesAssumption
<1> DEFINE n == Size(seq)
           T == {l \in j..(n - 1) : l = n - 1 \/ seq[l + 1] > 0}
<1> HIDE DEF n
<1>2. n \in Nat /\ seq \in [0..(n - 1) -> Nat] /\ j \in 0..(n - 1)
  BY <1>1 DEF n
<1>3. T \subseteq Nat /\ n - 1 \in T
  BY <1>2
<1>4. PICK l \in T : \A y \in T : l <= y
  BY <1>3, LeastElement
<1>5. \A i \in j..(l - 1) : seq[i + 1] = 0
  <2> SUFFICES ASSUME NEW i \in j..(l - 1) PROVE seq[i + 1] = 0
    OBVIOUS
  <2>1. i \in j..(n - 1) /\ i # n - 1 /\ i < l
    BY <1>2, <1>4
  <2>2. i \notin T
    BY <1>2, <1>4, <2>1
  <2>3. ~(seq[i + 1] > 0) /\ i + 1 \in 0..(n - 1)
    BY <1>2, <2>1, <2>2
  <2> QED
    BY <1>2, <2>3
<1>6. \E m \in j..(n - 1) : /\ m = n - 1 \/ seq[m + 1] > 0
                            /\ \A i \in j..(m - 1) : seq[i + 1] = 0
  BY <1>4, <1>5
<1> QED
  BY <1>6 DEF Landing, n

-----------------------------------------------------------------------------
(* Type correctness.                                                       *)

LEMMA FinishType == ASSUME NEW k \in KickRecord PROVE Finish(k) \in KickRecord
<1>1. -1 \in Int /\ NULL \in Sequences \cup {NULL} /\ FALSE \in BOOLEAN
  OBVIOUS
<1> QED
  BY <1>1, Zenon DEF Finish, KickRecord

LEMMA MoveToType ==
  ASSUME NEW k \in KickRecord, NEW goal \in Nat PROVE MoveTo(k, goal) \in KickRecord
<1>1. /\ -1 \in Int /\ goal \in Int /\ 1 \in Nat
      /\ k.frames + 1 \in Nat /\ k.held + 1 \in Nat
  BY DEF KickRecord
<1>2. k.shown \cup {goal} \in SUBSET Nat
  BY DEF KickRecord
<1>3. CASE k.frames = 0
  <2> DEFINE shown == k.shown \cup {goal}
  <2>1. MoveTo(k, goal) = [k EXCEPT !.frames = 1, !.command = goal, !.shown = shown, !.held = 1]
    BY <1>3 DEF MoveTo
  <2>2. shown \in SUBSET Nat
    BY <1>2
  <2> HIDE DEF shown
  <2> QED
    BY <1>1, <2>1, <2>2 DEF KickRecord
<1>4. CASE k.frames # 0
  BY <1>1, <1>4 DEF MoveTo, KickRecord
<1> QED
  BY <1>3, <1>4

LEMMA RunType ==
  ASSUME NEW k \in KickRecord, k.seq # NULL, k.keyframe < Size(k.seq)
  PROVE  Run(k) \in KickRecord
<1> DEFINE last == Size(k.seq) - 1
           to == Landing(k.seq, k.keyframe + 1)
           at == IF k.keyframe < last /\ NextDue(k)
                 THEN [k EXCEPT !.keyframe = to, !.frames = 0] ELSE k
<1>1. k.seq \in Sequences /\ k.keyframe \in Nat
  BY DEF KickRecord
<1>2. Size(k.seq) \in Nat
  BY <1>1, SequencesAssumption
<1>3. k.keyframe < last => to \in Nat
  <2> SUFFICES ASSUME k.keyframe < last PROVE to \in Nat
    OBVIOUS
  <2>1. k.keyframe + 1 \in 0..(Size(k.seq) - 1)
    BY <1>1, <1>2
  <2>2. to \in (k.keyframe + 1)..(Size(k.seq) - 1)
    BY <1>1, <2>1, LandingExists
  <2> QED
    BY <1>1, <1>2, <2>2
<1> HIDE DEF to
<1>4. at \in KickRecord
  <2>1. CASE k.keyframe < last /\ NextDue(k)
    <3>1. [k EXCEPT !.keyframe = to, !.frames = 0] \in KickRecord
      BY <1>3, <2>1 DEF KickRecord
    <3> QED
      BY <2>1, <3>1
  <2>2. CASE ~(k.keyframe < last /\ NextDue(k))
    BY <2>2
  <2> QED
    BY <2>1, <2>2
<1>5. Run(k) = IF at.keyframe = last THEN Finish(at) ELSE MoveTo(at, at.keyframe + 1)
  BY DEF Run, to
<1> HIDE DEF at
<1>6. at.keyframe + 1 \in Nat
  BY <1>4 DEF KickRecord
<1> QED
  BY <1>4, <1>5, <1>6, FinishType, MoveToType

LEMMA PerformKickType ==
  ASSUME NEW k \in KickRecord PROVE PerformKick(k) \in KickRecord
<1>1. CASE k.seq = NULL
  BY <1>1 DEF PerformKick, KickRecord
<1>2. CASE k.seq # NULL /\ k.keyframe >= Size(k.seq)
  BY <1>2, FinishType DEF PerformKick
<1>3. CASE k.seq # NULL /\ ~(k.keyframe >= Size(k.seq))
  <2>1. k.keyframe < Size(k.seq)
    <3>1. k.seq \in Sequences /\ k.keyframe \in Nat
      BY <1>3 DEF KickRecord
    <3> QED
      BY <1>3, <3>1, SequencesAssumption
  <2>2. CASE k.state = "Running"
    BY <1>3, <2>1, <2>2, RunType DEF PerformKick
  <2>3. CASE k.state # "Running" /\ k.frames >= k.seq[k.keyframe]
    <3> DEFINE k2 == [k EXCEPT !.state = "Running", !.frames = 0]
    <3>1. k2 \in KickRecord /\ k2.seq = k.seq /\ k2.keyframe = k.keyframe
      BY DEF KickRecord
    <3>2. PerformKick(k) = Run(k2)
      BY <1>3, <2>3 DEF PerformKick
    <3> HIDE DEF k2
    <3> QED
      BY <1>3, <2>1, <3>1, <3>2, RunType
  <2>4. CASE k.state # "Running" /\ ~(k.frames >= k.seq[k.keyframe])
    <3>1. k.keyframe \in Nat
      BY DEF KickRecord
    <3> QED
      BY <1>3, <2>4, <3>1, MoveToType DEF PerformKick
  <2> QED
    BY <2>2, <2>3, <2>4
<1> QED
  BY <1>1, <1>2, <1>3

LEMMA StartType ==
  ASSUME NEW seq \in Sequences \cup {NULL} PROVE Start(seq) \in KickRecord
BY DEF Start, KickRecord

LEMMA NextTypeOK == TypeOK /\ [Next]_vars => TypeOK'
<1> SUFFICES ASSUME TypeOK, [Next]_vars PROVE TypeOK'
  OBVIOUS
<1>1. CASE StartKick /\ kick_type_' \in {"NO_KICK", "STRAIGHT", "ABORT"}
  <2>1. PICK seq \in Sequences \cup {NULL} : kick' = PerformKick(Start(seq))
    BY <1>1 DEF StartKick
  <2> QED
    BY <1>1, <2>1, StartType, PerformKickType DEF TypeOK
<1>2. CASE ContinueKick /\ kick_type_' \in {"NO_KICK", "STRAIGHT", "ABORT"}
  <2>1. [kick EXCEPT !.running = TRUE] \in KickRecord
    BY DEF TypeOK, KickRecord
  <2> QED
    BY <1>2, <2>1, PerformKickType DEF ContinueKick, TypeOK
<1>3. CASE NoKick /\ kick_type_' \in {"NO_KICK", "STRAIGHT", "ABORT"}
  BY <1>3 DEF NoKick, TypeOK, KickRecord
<1>4. CASE UNCHANGED vars
  BY <1>4 DEF vars, TypeOK
<1> QED
  BY <1>1, <1>2, <1>3, <1>4 DEF Next, ProcessFrame

LEMMA InitTypeOK == Init => TypeOK
BY DEF Init, TypeOK, KickRecord

(* The module's fields keep their types; in particular performKick's       *)
(* recursion over keyframes of no duration always lands on a keyframe.     *)
THEOREM KickTypeCorrect == Spec => []TypeOK
BY InitTypeOK, NextTypeOK, PTL DEF Spec

-----------------------------------------------------------------------------
(* The status.                                                             *)

Truthful(k) == k.running = (k.state # "Finished")

LEMMA FinishTruthful == ASSUME NEW k \in KickRecord PROVE Truthful(Finish(k))
<1>1. Finish(k).running = FALSE /\ Finish(k).state = "Finished"
  BY DEF Finish, KickRecord
<1> QED
  BY <1>1, Zenon DEF Truthful

LEMMA MoveToSame ==
  ASSUME NEW k \in KickRecord, NEW goal
  PROVE  MoveTo(k, goal).running = k.running /\ MoveTo(k, goal).state = k.state
BY DEF MoveTo, KickRecord

LEMMA RunTruthful ==
  ASSUME NEW k \in KickRecord, k.running = TRUE, k.state # "Finished",
         k.seq # NULL, k.keyframe < Size(k.seq)
  PROVE  Truthful(Run(k))
<1> DEFINE last == Size(k.seq) - 1
           to == Landing(k.seq, k.keyframe + 1)
           at == IF k.keyframe < last /\ NextDue(k)
                 THEN [k EXCEPT !.keyframe = to, !.frames = 0] ELSE k
<1>1. Run(k) = IF at.keyframe = last THEN Finish(at) ELSE MoveTo(at, at.keyframe + 1)
  BY DEF Run
<1> HIDE DEF to
<1>2. CASE at.keyframe = last
  <2>1. Finish(at).running = FALSE /\ Finish(at).state = "Finished"
    BY DEF Finish, KickRecord
  <2> QED
    BY <1>1, <1>2, <2>1, Zenon DEF Truthful
<1>3. CASE at.keyframe # last
  <2>1. MoveTo(at, at.keyframe + 1).running = TRUE
    BY DEF MoveTo, KickRecord
  <2>2. MoveTo(at, at.keyframe + 1).state # "Finished"
    BY DEF MoveTo, KickRecord
  <2> QED
    BY <1>1, <1>3, <2>1, <2>2, Zenon DEF Truthful
<1> QED
  BY <1>2, <1>3

LEMMA PerformKickTruthful ==
  ASSUME NEW k \in KickRecord, k.running = TRUE, k.state # "Finished"
  PROVE  Truthful(PerformKick(k))
<1>1. CASE k.seq = NULL
  <2>1. PerformKick(k).running = TRUE
    BY <1>1 DEF PerformKick, KickRecord
  <2>2. PerformKick(k).state # "Finished"
    BY <1>1 DEF PerformKick, KickRecord
  <2> QED
    BY <2>1, <2>2, Zenon DEF Truthful
<1>2. CASE k.seq # NULL /\ k.keyframe >= Size(k.seq)
  BY <1>2, FinishTruthful DEF PerformKick
<1>3. CASE k.seq # NULL /\ ~(k.keyframe >= Size(k.seq))
  <2>1. k.keyframe < Size(k.seq)
    <3>1. k.seq \in Sequences /\ k.keyframe \in Nat
      BY <1>3 DEF KickRecord
    <3> QED
      BY <1>3, <3>1, SequencesAssumption
  <2>2. CASE k.state = "Running"
    BY <1>3, <2>1, <2>2, RunTruthful DEF PerformKick
  <2>3. CASE k.state # "Running" /\ k.frames >= k.seq[k.keyframe]
    <3> DEFINE k2 == [k EXCEPT !.state = "Running", !.frames = 0]
    <3>1. /\ k2 \in KickRecord /\ k2.seq = k.seq /\ k2.keyframe = k.keyframe
          /\ k2.state = "Running" /\ k2.running = k.running
      BY DEF KickRecord
    <3>2. PerformKick(k) = Run(k2)
      BY <1>3, <2>3 DEF PerformKick
    <3> HIDE DEF k2
    <3> QED
      BY <1>3, <2>1, <3>1, <3>2, RunTruthful
  <2>4. CASE k.state # "Running" /\ ~(k.frames >= k.seq[k.keyframe])
    <3>1. PerformKick(k) = MoveTo(k, k.keyframe)
      BY <1>3, <2>4 DEF PerformKick
    <3>2. PerformKick(k).running = TRUE /\ PerformKick(k).state # "Finished"
      BY <3>1, MoveToSame
    <3> QED
      BY <3>2, Zenon DEF Truthful
  <2> QED
    BY <2>2, <2>3, <2>4
<1> QED
  BY <1>1, <1>2, <1>3

LEMMA NextTruthful == TypeOK /\ StatusTruthful /\ [Next]_vars => StatusTruthful'
<1> SUFFICES ASSUME TypeOK, Truthful(kick), [Next]_vars PROVE Truthful(kick')
  BY DEF StatusTruthful, Truthful
<1>1. CASE StartKick
  <2>1. PICK seq \in Sequences \cup {NULL} : kick' = PerformKick(Start(seq))
    BY <1>1 DEF StartKick
  <2>2. Start(seq).running = TRUE /\ Start(seq).state # "Finished"
    BY DEF Start
  <2> QED
    BY <2>1, <2>2, StartType, PerformKickTruthful
<1>2. CASE ContinueKick
  <2> DEFINE k == [kick EXCEPT !.running = TRUE]
  <2>1. k \in KickRecord /\ k.running = TRUE /\ k.state = kick.state
    BY DEF TypeOK, KickRecord
  <2>2. kick' = PerformKick(k) /\ kick.state # "Finished"
    BY <1>2 DEF ContinueKick
  <2> HIDE DEF k
  <2> QED
    BY <2>1, <2>2, PerformKickTruthful
<1>3. CASE NoKick
  <2>1. kick'.running = kick.running /\ kick'.state = kick.state
    BY <1>3 DEF NoKick, TypeOK, KickRecord
  <2> QED
    BY <2>1, Zenon DEF Truthful
<1>4. CASE UNCHANGED vars
  BY <1>4 DEF vars, Truthful
<1> QED
  BY <1>1, <1>2, <1>3, <1>4 DEF Next, ProcessFrame

(* kick_running_ tells whether a kick runs, whatever sequence is loaded    *)
(* and also when none could be.                                            *)
THEOREM RunningIsTrue == Spec => []StatusTruthful
<1>1. Init => StatusTruthful
  <2> SUFFICES ASSUME Init PROVE StatusTruthful
    OBVIOUS
  <2>1. kick.running = FALSE /\ kick.state = "Finished"
    BY DEF Init
  <2> QED
    BY <2>1, Zenon DEF StatusTruthful
<1> QED
  BY <1>1, KickTypeCorrect, NextTruthful, PTL DEF Spec

-----------------------------------------------------------------------------
(* Keyframes in order and on time.                                         *)

(* A keyframe that takes no time is none of those to be commanded, one     *)
(* that does is the next of them.                                          *)
LEMMA UpToNext ==
  ASSUME NEW seq \in Sequences, NEW g \in Int, g + 1 \in DOMAIN seq
  PROVE  /\ seq[g + 1] = 0 => UpTo(seq, g + 1) = UpTo(seq, g)
         /\ seq[g + 1] > 0 => UpTo(seq, g + 1) = UpTo(seq, g) \cup {g + 1}
<1>1. Size(seq) \in Nat /\ seq \in [0..(Size(seq) - 1) -> Nat]
  BY SequencesAssumption
<1>2. DOMAIN seq = 0..(Size(seq) - 1) /\ \A i \in DOMAIN seq : i \in Int /\ seq[i] \in Nat
  BY <1>1
<1>3. ASSUME NEW i \in DOMAIN seq PROVE i <= g + 1 <=> (i <= g \/ i = g + 1)
  BY <1>2, <1>3
<1> QED
  BY <1>2, <1>3 DEF UpTo, Timed

(* The keyframes performKick's recursion goes over take no time.           *)
LEMMA UpToLanding ==
  ASSUME NEW seq \in Sequences, NEW j \in DOMAIN seq
  PROVE  UpTo(seq, Landing(seq, j)) = UpTo(seq, j)
<1>1. Size(seq) \in Nat /\ seq \in [0..(Size(seq) - 1) -> Nat]
  BY SequencesAssumption
<1>2. DOMAIN seq = 0..(Size(seq) - 1) /\ j \in 0..(Size(seq) - 1)
  BY <1>1
<1> DEFINE l == Landing(seq, j)
           n == Size(seq)
<1>3. l \in j..(n - 1) /\ \A i \in j..(l - 1) : seq[i + 1] = 0
  BY <1>2, LandingExists
<1> HIDE DEF l, n
<1>4. n \in Nat /\ DOMAIN seq = 0..(n - 1) /\ j \in 0..(n - 1)
  BY <1>1, <1>2 DEF n
<1>5. ASSUME NEW i \in DOMAIN seq, seq[i] > 0 PROVE i <= l <=> i <= j
  <2>1. ASSUME i <= l, ~(i <= j) PROVE FALSE
    <3>1. i - 1 \in j..(l - 1) /\ (i - 1) + 1 = i
      BY <1>3, <1>4, <2>1
    <3>2. seq[i] = 0
      BY <1>3, <3>1
    <3> QED
      BY <1>5, <3>2
  <2>2. i <= j => i <= l
    BY <1>3, <1>4
  <2> QED
    BY <2>1, <2>2
<1> QED
  BY <1>5 DEF UpTo, Timed, l

LEMMA FinishOnTime == ASSUME NEW k \in KickRecord PROVE OnTime(Finish(k))
<1>1. Finish(k).seq = NULL
  BY DEF Finish, KickRecord
<1> QED
  BY <1>1 DEF OnTime

(* The first frame of a keyframe, and the later ones.                      *)
LEMMA MoveToFirst ==
  ASSUME NEW k \in KickRecord, k.seq # NULL, k.frames = 0, k.state # "Finished",
         k.state = "Initial" => k.keyframe = 0,
         Goal(k) \in DOMAIN k.seq, k.seq[Goal(k)] > 0,
         UpTo(k.seq, Goal(k)) = k.shown \cup {Goal(k)}
  PROVE  OnTime(MoveTo(k, Goal(k)))
<1> DEFINE g == Goal(k)
           m == MoveTo(k, g)
           shown == k.shown \cup {g}
<1>1. k.seq \in Sequences /\ k.seq[g] \in Nat
  <2>1. k.seq \in Sequences
    BY DEF KickRecord
  <2> QED
    BY <2>1, SequencesAssumption
<1>2. m = [k EXCEPT !.frames = 1, !.command = g, !.shown = shown, !.held = 1]
  BY DEF MoveTo
<1> HIDE DEF g, shown, m
<1>3. /\ m.state = k.state /\ m.seq = k.seq /\ m.keyframe = k.keyframe
      /\ m.frames = 1 /\ m.held = 1 /\ m.shown = shown
  BY <1>2 DEF KickRecord
<1>4. Goal(m) = g
  BY <1>3 DEF Goal, g
<1>5. 1 \in 1..k.seq[g]
  BY <1>1 DEF g
<1> QED
  BY <1>3, <1>4, <1>5 DEF OnTime, g, m, shown

LEMMA MoveToAgain ==
  ASSUME NEW k \in KickRecord, k.seq # NULL, OnTime(k), k.frames < k.seq[Goal(k)], NEW g
  PROVE  OnTime(MoveTo(k, g))
<1> DEFINE m == MoveTo(k, g)
<1>1. k.seq \in Sequences /\ k.seq[Goal(k)] \in Nat /\ k.frames \in 1..k.seq[Goal(k)]
  <2>1. k.seq \in Sequences
    BY DEF KickRecord
  <2> QED
    BY <2>1, SequencesAssumption DEF OnTime
<1>2. m = [k EXCEPT !.frames = @ + 1, !.command = -1, !.held = @ + 1]
  BY <1>1 DEF MoveTo
<1> HIDE DEF m
<1>3. /\ m.state = k.state /\ m.seq = k.seq /\ m.keyframe = k.keyframe
      /\ m.frames = k.frames + 1 /\ m.held = k.held + 1 /\ m.shown = k.shown
  BY <1>2 DEF KickRecord
<1>4. Goal(m) = Goal(k)
  BY <1>3 DEF Goal
<1>5. k.frames + 1 \in 1..k.seq[Goal(k)]
  BY <1>1
<1> QED
  BY <1>3, <1>4, <1>5 DEF OnTime, m

(* Whether the keyframe has just been reached or is being left, Run goes   *)
(* on to the next one that takes time.                                     *)
LEMMA RunOnTime ==
  ASSUME NEW k \in KickRecord, k.seq # NULL, k.state = "Running", k.keyframe \in DOMAIN k.seq,
         OnTime(k) \/ (k.frames = 0 /\ k.shown = UpTo(k.seq, k.keyframe))
  PROVE  OnTime(Run(k))
<1> DEFINE seq == k.seq
           last == Size(seq) - 1
           to == Landing(seq, k.keyframe + 1)
           moved == [k EXCEPT !.keyframe = to, !.frames = 0]
           at == IF k.keyframe < last /\ NextDue(k) THEN moved ELSE k
<1>1. seq \in Sequences /\ k.keyframe \in Nat /\ k.frames \in Nat
  BY DEF KickRecord
<1>2. Size(seq) \in Nat /\ seq \in [0..(Size(seq) - 1) -> Nat]
  BY <1>1, SequencesAssumption
<1>3. last \in Int /\ DOMAIN seq = 0..last /\ \A i \in 0..last : seq[i] \in Nat
  BY <1>2
<1>4. Run(k) = IF at.keyframe = last THEN Finish(at) ELSE MoveTo(at, at.keyframe + 1)
  BY DEF Run
<1>5. OnTime(k) => /\ k.keyframe + 1 \in 0..last
                   /\ k.frames \in 1..seq[k.keyframe + 1]
                   /\ k.shown = UpTo(seq, k.keyframe + 1)
  BY <1>3 DEF OnTime, Goal
<1>6. CASE k.keyframe < last /\ NextDue(k)
  <2>1. k.keyframe + 1 \in 0..last
    BY <1>1, <1>3, <1>6
  <2>2. /\ to \in (k.keyframe + 1)..last
        /\ to = last \/ seq[to + 1] > 0
    BY <1>1, <2>1, LandingExists
  <2>3. k.shown = UpTo(seq, k.keyframe + 1)
    <3>1. CASE k.frames = 0 /\ k.shown = UpTo(k.seq, k.keyframe)
      <4>1. seq[k.keyframe + 1] = 0
        BY <1>3, <1>6, <2>1, <3>1 DEF NextDue
      <4> QED
        BY <1>1, <1>3, <2>1, <3>1, <4>1, UpToNext
    <3> QED
      BY <1>5, <3>1
  <2>4. k.shown = UpTo(seq, to)
    BY <1>1, <1>3, <2>1, <2>3, UpToLanding
  <2>5. at = moved
    BY <1>6
  <2> HIDE DEF to, at, last, seq
  <2>6. to \in Nat
    BY <1>1, <2>2
  <2>7. /\ at \in KickRecord /\ at.keyframe = to /\ at.frames = 0
        /\ at.seq = seq /\ at.state = "Running" /\ at.shown = k.shown
    BY <2>5, <2>6 DEF KickRecord, seq
  <2> HIDE DEF moved
  <2>8. CASE to = last
    BY <1>4, <2>7, <2>8, FinishOnTime
  <2>9. CASE to # last
    <3>1. Goal(at) = to + 1 /\ to + 1 \in 0..last /\ seq[to + 1] > 0
      BY <1>3, <2>2, <2>6, <2>7, <2>9 DEF Goal
    <3>2. UpTo(seq, to + 1) = at.shown \cup {to + 1}
      <4>1. to \in Int /\ to + 1 \in DOMAIN seq /\ seq \in Sequences /\ seq[to + 1] > 0
        BY <1>1, <1>3, <2>6, <3>1
      <4>2. UpTo(seq, to + 1) = UpTo(seq, to) \cup {to + 1}
        BY <4>1, UpToNext
      <4> QED
        BY <2>4, <2>7, <4>2
    <3>3. OnTime(MoveTo(at, Goal(at)))
      BY <1>3, <2>7, <3>1, <3>2, MoveToFirst DEF seq
    <3> QED
      BY <1>4, <2>7, <2>9, <3>1, <3>3
  <2> QED
    BY <2>8, <2>9
<1>7. CASE ~(k.keyframe < last /\ NextDue(k))
  <2>1. at = k /\ k.keyframe <= last
    BY <1>1, <1>3, <1>7
  <2>2. CASE k.keyframe = last
    BY <1>4, <2>1, <2>2, FinishOnTime
  <2>3. CASE k.keyframe # last
    <3>1. /\ k.keyframe + 1 \in 0..last /\ k.keyframe + 1 \in DOMAIN seq
          /\ Goal(k) = k.keyframe + 1 /\ ~NextDue(k)
      BY <1>1, <1>3, <1>7, <2>1, <2>3 DEF Goal
    <3>2. k.frames < seq[k.keyframe + 1]
      BY <1>1, <1>3, <3>1 DEF NextDue
    <3>3. Run(k) = MoveTo(k, Goal(k))
      BY <1>4, <2>1, <2>3, <3>1
    <3>4. CASE OnTime(k)
      BY <3>1, <3>2, <3>3, <3>4, MoveToAgain
    <3>5. CASE k.frames = 0 /\ k.shown = UpTo(seq, k.keyframe)
      <4>1. UpTo(seq, Goal(k)) = k.shown \cup {Goal(k)} /\ seq[Goal(k)] > 0
        <5>1. /\ k.keyframe \in Int /\ k.keyframe + 1 \in DOMAIN seq /\ seq \in Sequences
              /\ seq[k.keyframe + 1] > 0
          BY <1>1, <1>3, <3>1, <3>2, <3>5
        <5>2. UpTo(seq, k.keyframe + 1) = UpTo(seq, k.keyframe) \cup {k.keyframe + 1}
          BY <5>1, UpToNext
        <5> QED
          BY <3>1, <3>5, <5>1, <5>2
      <4> QED
        BY <3>1, <3>3, <3>5, <4>1, MoveToFirst
    <3> QED
      BY <3>4, <3>5
  <2> QED
    BY <2>2, <2>3
<1> QED
  BY <1>6, <1>7

LEMMA PerformKickOnTime ==
  ASSUME NEW k \in KickRecord, k.state # "Finished",
         OnTime(k) \/ (k.state = "Initial" /\ k.keyframe = 0 /\ k.frames = 0 /\ k.shown = {})
  PROVE  OnTime(PerformKick(k))
<1>1. CASE k.seq = NULL
  <2>1. PerformKick(k).seq = NULL
    BY <1>1 DEF PerformKick, KickRecord
  <2> QED
    BY <2>1 DEF OnTime
<1>2. CASE k.seq # NULL /\ k.keyframe >= Size(k.seq)
  BY <1>2, FinishOnTime DEF PerformKick
<1>3. CASE k.seq # NULL /\ ~(k.keyframe >= Size(k.seq))
  <2>1. /\ k.seq \in Sequences /\ k.keyframe \in Nat /\ k.frames \in Nat
        /\ k.state \in {"Initial", "Running"}
    BY <1>3 DEF KickRecord
  <2>2. Size(k.seq) \in Nat /\ k.seq \in [0..(Size(k.seq) - 1) -> Nat]
    BY <2>1, SequencesAssumption
  <2>3. k.keyframe \in DOMAIN k.seq /\ k.seq[k.keyframe] \in Nat
    BY <1>3, <2>1, <2>2
  <2>4. CASE k.state = "Running"
    BY <1>3, <2>3, <2>4, RunOnTime DEF PerformKick
  <2>5. ASSUME k.state = "Initial"
        PROVE  /\ k.keyframe = 0 /\ Goal(k) = 0
               /\ OnTime(k) \/ (k.frames = 0 /\ k.shown = {})
               /\ OnTime(k) => k.shown = UpTo(k.seq, 0) /\ k.frames \in 1..k.seq[0]
    BY <1>3, <2>5 DEF OnTime, Goal
  <2>6. /\ k.seq[0] = 0 => UpTo(k.seq, 0) = {}
        /\ k.seq[0] > 0 => UpTo(k.seq, 0) = {0}
    <3>1. DOMAIN k.seq = 0..(Size(k.seq) - 1) /\ 0 \in DOMAIN k.seq
      BY <2>1, <2>2, <2>3
    <3>2. \A i \in DOMAIN k.seq : i <= 0 <=> i = 0
      BY <2>2, <3>1
    <3> QED
      BY <3>1, <3>2 DEF UpTo, Timed
  <2>7. CASE k.state = "Initial" /\ k.frames >= k.seq[k.keyframe]
    <3> DEFINE k2 == [k EXCEPT !.state = "Running", !.frames = 0]
    <3>1. /\ k2 \in KickRecord /\ k2.seq = k.seq /\ k2.keyframe = k.keyframe
          /\ k2.state = "Running" /\ k2.frames = 0 /\ k2.shown = k.shown
      BY DEF KickRecord
    <3>2. PerformKick(k) = Run(k2)
      BY <1>3, <2>7 DEF PerformKick
    <3> HIDE DEF k2
    <3>3. k.shown = UpTo(k.seq, k.keyframe)
      <4>1. CASE k.frames = 0 /\ k.shown = {}
        BY <2>3, <2>5, <2>6, <2>7, <4>1
      <4> QED
        BY <2>5, <2>7, <4>1
    <3> QED
      BY <1>3, <2>3, <3>1, <3>2, <3>3, RunOnTime
  <2>8. CASE k.state = "Initial" /\ ~(k.frames >= k.seq[k.keyframe])
    <3>1. PerformKick(k) = MoveTo(k, 0) /\ k.frames < k.seq[0] /\ k.seq[0] > 0
      BY <1>3, <2>1, <2>3, <2>5, <2>8 DEF PerformKick
    <3>2. CASE OnTime(k)
      BY <1>3, <2>5, <2>8, <3>1, <3>2, MoveToAgain
    <3>3. CASE k.frames = 0 /\ k.shown = {}
      <4>1. /\ Goal(k) = 0 /\ 0 \in DOMAIN k.seq
            /\ UpTo(k.seq, Goal(k)) = k.shown \cup {Goal(k)}
        BY <2>3, <2>5, <2>6, <2>8, <3>1, <3>3
      <4>2. OnTime(MoveTo(k, Goal(k)))
        BY <1>3, <2>5, <2>8, <3>1, <3>3, <4>1, MoveToFirst
      <4> QED
        BY <3>1, <4>1, <4>2
    <3> QED
      BY <2>5, <2>8, <3>2, <3>3
  <2> QED
    BY <2>1, <2>4, <2>7, <2>8
<1> QED
  BY <1>1, <1>2, <1>3

LEMMA NextOnTime == TypeOK /\ KeyframeInv /\ [Next]_vars => KeyframeInv'
<1> SUFFICES ASSUME TypeOK, OnTime(kick), [Next]_vars PROVE OnTime(kick')
  BY DEF KeyframeInv, OnTime
<1>1. CASE StartKick
  <2>1. PICK seq \in Sequences \cup {NULL} : kick' = PerformKick(Start(seq))
    BY <1>1 DEF StartKick
  <2>2. /\ Start(seq).state = "Initial" /\ Start(seq).keyframe = 0
        /\ Start(seq).frames = 0 /\ Start(seq).shown = {}
    BY DEF Start
  <2> QED
    BY <2>1, <2>2, StartType, PerformKickOnTime
<1>2. CASE ContinueKick
  <2> DEFINE k == [kick EXCEPT !.running = TRUE]
  <2>1. /\ k \in KickRecord /\ k.state = kick.state /\ k.seq = kick.seq
        /\ k.keyframe = kick.keyframe /\ k.frames = kick.frames /\ k.held = kick.held
        /\ k.shown = kick.shown
    BY DEF TypeOK, KickRecord
  <2>2. kick' = PerformKick(k) /\ kick.state # "Finished"
    BY <1>2 DEF ContinueKick
  <2> HIDE DEF k
  <2>3. OnTime(k)
    BY <2>1 DEF OnTime, Goal
  <2> QED
    BY <2>1, <2>2, <2>3, PerformKickOnTime
<1>3. CASE NoKick
  <2>1. kick.seq = NULL
    BY <1>3 DEF NoKick, OnTime
  <2>2. kick'.seq = kick.seq
    BY <1>3 DEF NoKick, TypeOK, KickRecord
  <2> QED
    BY <2>1, <2>2 DEF OnTime
<1>4. CASE UNCHANGED vars
  BY <1>4 DEF vars
<1> QED
  BY <1>1, <1>2, <1>3, <1>4 DEF Next, ProcessFrame

LEMMA KeyframeInvariant == Spec => [](TypeOK /\ KeyframeInv)
<1>1. Init => KeyframeInv
  BY DEF Init, KeyframeInv, OnTime
<1> QED
  BY <1>1, KickTypeCorrect, NextOnTime, PTL DEF Spec

(* performKick commands every keyframe that takes time, in order, whatever *)
(* file is loaded and wherever it has keyframes of no duration.            *)
THEOREM EveryKeyframe == Spec => []KeyframesInOrder
<1>1. KeyframeInv => KeyframesInOrder
  BY DEF KeyframeInv, KeyframesInOrder, OnTime
<1> QED
  BY <1>1, KeyframeInvariant, PTL

(* A frame in which the keyframe has time left commands nothing new and    *)
(* does not end the kick.                                                  *)
LEMMA StaysOnKeyframe ==
  ASSUME TypeOK, OnTime(kick), kick.seq # NULL, Next,
         kick.frames < kick.seq[Goal(kick)]
  PROVE  kick'.command = -1 /\ kick'.state # "Finished"
<1> DEFINE k == [kick EXCEPT !.running = TRUE]
<1>1. /\ k \in KickRecord /\ k.state = kick.state /\ k.seq = kick.seq
      /\ k.keyframe = kick.keyframe /\ k.frames = kick.frames
  BY DEF TypeOK, KickRecord
<1>2. kick' = PerformKick(k)
  BY DEF Next, ProcessFrame, StartKick, ContinueKick, NoKick, OnTime
<1>3. /\ k.state \in {"Initial", "Running"} /\ k.seq # NULL /\ k.seq \in Sequences
      /\ k.keyframe \in Nat /\ k.frames \in Nat /\ k.frames # 0
      /\ k.frames < k.seq[Goal(k)] /\ Goal(k) \in DOMAIN k.seq
      /\ k.state = "Initial" => k.keyframe = 0
  BY <1>1 DEF OnTime, Goal, KickRecord
<1> HIDE DEF k
<1>4. Size(k.seq) \in Nat /\ k.seq \in [0..(Size(k.seq) - 1) -> Nat]
  BY <1>3, SequencesAssumption
<1>5. /\ Goal(k) \in 0..(Size(k.seq) - 1) /\ k.seq[Goal(k)] \in Nat
      /\ k.keyframe < Size(k.seq)
  BY <1>3, <1>4 DEF Goal
<1>6. \A g : MoveTo(k, g).command = -1 /\ MoveTo(k, g).state # "Finished"
  BY <1>3 DEF MoveTo, KickRecord
<1>7. CASE k.state = "Initial"
  <2>1. PerformKick(k) = MoveTo(k, k.keyframe)
    BY <1>3, <1>4, <1>5, <1>7 DEF PerformKick, Goal
  <2> QED
    BY <1>2, <1>6, <2>1
<1>8. CASE k.state = "Running"
  <2>1. PerformKick(k) = Run(k)
    BY <1>3, <1>4, <1>5, <1>8 DEF PerformKick
  <2>2. Goal(k) = k.keyframe + 1
    BY <1>8 DEF Goal
  <2>3. ~NextDue(k) /\ k.keyframe # Size(k.seq) - 1
    BY <1>3, <1>4, <1>5, <2>2 DEF NextDue
  <2>4. Run(k) = MoveTo(k, k.keyframe + 1)
    BY <2>3 DEF Run
  <2> QED
    BY <1>2, <1>6, <2>1, <2>4
<1> QED
  BY <1>3, <1>7, <1>8

(* A keyframe is held for exactly the frames the file gives it before the  *)
(* next one is commanded or the kick ends, for every file.                 *)
THEOREM KeyframesHeld == Spec => HeldForDuration
<1> DEFINE Held == kick.seq # NULL /\ kick.shown # {} /\ (kick'.command # -1 \/ kick'.state = "Finished") =>
                     \E goal \in kick.shown :
                       /\ \A i \in kick.shown : i <= goal
                       /\ kick.held = kick.seq[goal]
<1>1. TypeOK /\ KeyframeInv /\ [Next]_vars => [Held]_vars
  <2> SUFFICES ASSUME TypeOK, OnTime(kick), Next, kick.seq # NULL,
                      kick'.command # -1 \/ kick'.state = "Finished"
               PROVE  \E goal \in kick.shown : /\ \A i \in kick.shown : i <= goal
                                               /\ kick.held = kick.seq[goal]
    BY DEF KeyframeInv
  <2> DEFINE g == Goal(kick)
  <2>1. kick.seq \in Sequences
    BY DEF TypeOK, KickRecord
  <2>2. Size(kick.seq) \in Nat /\ kick.seq \in [0..(Size(kick.seq) - 1) -> Nat]
    BY <2>1, SequencesAssumption
  <2>3. /\ g \in DOMAIN kick.seq /\ kick.frames \in 1..kick.seq[g] /\ kick.held = kick.frames
        /\ kick.shown = UpTo(kick.seq, g)
    BY DEF OnTime
  <2>4. kick.seq[g] \in Nat /\ g \in Int
    BY <2>2, <2>3
  <2>5. kick.frames = kick.seq[g]
    BY <2>3, <2>4, StaysOnKeyframe
  <2>6. g \in kick.shown /\ \A i \in kick.shown : i <= g
    BY <2>3, <2>4 DEF UpTo, Timed
  <2> QED
    BY <2>3, <2>5, <2>6
<1> QED
  BY <1>1, KeyframeInvariant, PTL DEF Spec, HeldForDuration
-----------------------------------------------------------------------------
(* One kick per visit of the Kick node.                                    *)

(* The type of KickRound's state. *)
Request == [kick_type_ : {"NO_KICK", "STRAIGHT"}, kick_running_ : BOOLEAN]

RoundTypeOK ==
  /\ TypeOK /\ sync \in Request /\ vis \in Request
  /\ mpc \in {"receive", "process", "publish"} /\ vpc \in {"receive", "run", "publish"}
  /\ node \in {"before", "kick", "after"} /\ frames \in 0..11
  /\ ticks \in Nat /\ starts \in Nat

Over == kick.state = "Finished"
InSync == sync.kick_type_ = "STRAIGHT"
Received == kick_type_ = "STRAIGHT"

(* A request is about to be published. *)
Publishing == vpc = "publish" /\ vis.kick_type_ = "STRAIGHT"

(* How often the node can have published its request.                      *)
Publications ==
  (IF frames < 4 THEN frames ELSE 4) - (IF Publishing THEN 1 ELSE 0)

(* The frames motion can have run since the first request.                 *)
Allowed == (Publications - 1) * MaxMotion + ticks + (IF mpc = "publish" THEN 1 ELSE 0)

(* Motion's frames since the last publication, the present one included.   *)
RateInv == ticks + (IF mpc = "receive" THEN 0 ELSE 1) <= MaxMotion

(* Where a request can be, by the frames the node has counted.             *)
RequestInv ==
  /\ node = "before" => frames = 0
  /\ frames = 0 => starts = 0 /\ ~InSync /\ ~Received /\ vis.kick_type_ = "NO_KICK"
  /\ vpc = "run" => vis.kick_type_ = "NO_KICK"
  /\ Publishing => node = "kick" /\ frames <= 6
  /\ starts # 0 \/ InSync \/ Received => Publications >= 1
  /\ node = "kick" /\ frames \in 1..4 => IF vpc = "publish" THEN Publishing ELSE InSync
  /\ Publishing /\ frames > 3 => InSync

(* kick_running_ in the two copies.                                        *)
RunningInv ==
  /\ mpc # "publish" => (sync.kick_running_ <=> ~Over)
  /\ mpc # "receive" => (kick.running <=> ~Over)

(* While the node asks, the kick is not over: it is younger than the       *)
(* frames motion can have run.                                             *)
StillKicking ==
  /\ starts = 0 => Over
  /\ starts # 0 /\ (InSync \/ Publishing) => ~Over /\ (kick.seq # NULL => Age(kick) <= Allowed)
  /\ starts # 0 /\ mpc = "process" /\ Received => ~Over

(* The present or the next frame of motion starts the kick, if none did;   *)
(* the kick has been started and vision can see that it runs.              *)
Armed == starts # 0 \/ mpc = "receive" \/ (mpc = "process" /\ Received)
Seen == starts # 0 /\ (Over \/ sync.kick_running_)

(* The first frame of motion after a publication ends with motion armed,   *)
(* the first after two with the kick seen; before the node looks, the      *)
(* third publication is over.                                              *)
SeenInv ==
  /\ InSync /\ ticks > 0 => Armed
  /\ frames > 3 /\ ~Publishing => Armed /\ (starts = 0 => InSync) /\ (ticks > 0 => Seen)
  /\ vpc = "receive" /\ frames > 6 => Seen
  /\ vpc = "run" /\ frames > 6 /\ ~vis.kick_running_ => starts # 0 /\ Over

RoundInv ==
  /\ RoundTypeOK /\ KeyframeInv /\ RateInv /\ RequestInv /\ RunningInv
  /\ StillKicking /\ SeenInv /\ OneKickPerVisit

(* What Elapsed computes.                                                  *)
LEMMA ElapsedFacts ==
  ASSUME NEW seq \in Sequences
  PROVE  /\ Elapsed(seq) \in [0..Size(seq) -> Nat]
         /\ Elapsed(seq)[0] = 0
         /\ \A i \in 0..(Size(seq) - 1) : Elapsed(seq)[i + 1] = Elapsed(seq)[i] + seq[i]
<1> DEFINE n == Size(seq)
           Sums(m, t) == t[0] = 0 /\ \A i \in 1..m : t[i] = t[i - 1] + seq[i - 1]
           T == {m \in 0..n : ~ \E t \in [0..m -> Nat] : Sums(m, t)}
<1>1. n \in Nat /\ seq \in [0..(n - 1) -> Nat]
  BY SequencesAssumption
<1>2. \A m \in 1..n : m - 1 \in 0..(n - 1) /\ seq[m - 1] \in Nat
  BY <1>1
<1> HIDE DEF n
<1>3. T = {}
  <2> SUFFICES ASSUME T # {} PROVE FALSE
    OBVIOUS
  <2>1. T \subseteq Nat
    BY <1>1
  <2>2. PICK m \in T : \A x \in T : m <= x
    BY <2>1, LeastElement
  <2>3. CASE m = 0
    <3>1. [i \in 0..0 |-> 0] \in [0..0 -> Nat] /\ Sums(0, [i \in 0..0 |-> 0])
      OBVIOUS
    <3> QED
      BY <2>2, <2>3, <3>1
  <2>4. CASE m # 0
    <3>1. m - 1 \in 0..n /\ m - 1 \notin T /\ m \in 1..n
      <4>1. m \in 0..n
        OBVIOUS
      <4> HIDE DEF T
      <4> QED
        BY <1>1, <2>2, <2>4, <4>1
    <3>2. PICK t \in [0..(m - 1) -> Nat] : Sums(m - 1, t)
      BY <3>1
    <3> DEFINE u == [i \in 0..m |-> IF i = m THEN t[m - 1] + seq[m - 1] ELSE t[i]]
    <3>3. u \in [0..m -> Nat]
      BY <1>2, <3>1, <3>2
    <3>4. Sums(m, u)
      <4>1. u[0] = 0
        BY <1>1, <3>1, <3>2
      <4>2. ASSUME NEW i \in 1..m PROVE u[i] = u[i - 1] + seq[i - 1]
        <5>1. u[i - 1] = t[i - 1]
          BY <1>1, <3>1, <4>2
        <5>2. CASE i = m
          BY <1>1, <3>1, <5>1, <5>2
        <5>3. CASE i # m
          <6>1. i \in 1..(m - 1) /\ u[i] = t[i]
            BY <1>1, <3>1, <4>2, <5>3
          <6> QED
            BY <3>2, <5>1, <6>1
        <5> QED
          BY <5>2, <5>3
      <4> QED
        BY <4>1, <4>2
    <3> QED
      BY <2>2, <3>3, <3>4
  <2> QED
    BY <2>3, <2>4
<1> DEFINE Body(t) == [i \in 0..n |-> IF i = 0 THEN 0 ELSE t[i - 1] + seq[i - 1]]
           E == CHOOSE t : t = Body(t)
<1>4. \E t : t = Body(t)
  <2>1. PICK t \in [0..n -> Nat] : Sums(n, t)
    <3>1. n \in 0..n
      BY <1>1
    <3> HIDE DEF Sums
    <3> QED
      BY <1>3, <3>1
  <2>2. t = Body(t)
    <3>1. \A i \in 0..n : t[i] = Body(t)[i]
      BY <1>1, <2>1
    <3> QED
      BY <2>1, <3>1
  <2> QED
    BY <2>2
<1>5. E = Body(E)
  BY <1>4
<1>6. E = Elapsed(seq)
  BY DEF Elapsed, n
<1> HIDE DEF E
<1>7. DOMAIN E = 0..n /\ E[0] = 0 /\ \A i \in 1..n : E[i] = E[i - 1] + seq[i - 1]
  BY <1>1, <1>5
<1>8. {i \in 0..n : E[i] \notin Nat} = {}
  <2> DEFINE N == {i \in 0..n : E[i] \notin Nat}
  <2> SUFFICES ASSUME N # {} PROVE FALSE
    OBVIOUS
  <2>1. N \subseteq Nat
    BY <1>1
  <2>2. PICK m \in N : \A x \in N : m <= x
    BY <2>1, LeastElement
  <2>3. m # 0 /\ m \in 1..n /\ m - 1 \in 0..n /\ m - 1 \notin N
    BY <1>1, <1>7, <2>2
  <2> QED
    BY <1>2, <1>7, <2>2, <2>3
<1>9. E \in [0..n -> Nat]
  <2>1. E = [i \in 0..n |-> E[i]]
    BY <1>5
  <2> QED
    BY <1>8, <2>1
<1>10. ASSUME NEW i \in 0..(n - 1) PROVE E[i + 1] = E[i] + seq[i]
  <2>1. i + 1 \in 1..n /\ (i + 1) - 1 = i
    BY <1>1, <1>10
  <2> QED
    BY <1>7, <2>1
<1> QED
  BY <1>6, <1>7, <1>9, <1>10 DEF n

(* Keyframes of no duration take no time.                                  *)
LEMMA ElapsedOverZeros ==
  ASSUME NEW seq \in Sequences, NEW a \in 0..Size(seq), NEW b \in a..Size(seq),
         \A i \in a..(b - 1) : seq[i] = 0
  PROVE  Elapsed(seq)[b] = Elapsed(seq)[a]
<1> DEFINE n == Size(seq)
           E == Elapsed(seq)
           T == {i \in a..b : E[i] # E[a]}
<1>1. n \in Nat /\ a \in Nat /\ b \in Nat
  BY SequencesAssumption
<1>2. E \in [0..n -> Nat] /\ \A i \in 0..(n - 1) : E[i + 1] = E[i] + seq[i]
  BY ElapsedFacts
<1> HIDE DEF n, E
<1>3. ASSUME T # {} PROVE FALSE
  <2>1. T \subseteq Nat
    BY <1>1
  <2>2. PICK m \in T : \A x \in T : m <= x
    BY <1>3, <2>1, LeastElement
  <2>3. m # a /\ m - 1 \in a..(b - 1) /\ m - 1 \in 0..(n - 1) /\ m - 1 \notin T /\ (m - 1) + 1 = m
    BY <1>1, <2>2 DEF n
  <2>4. E[m] = E[m - 1] + seq[m - 1] /\ seq[m - 1] = 0 /\ E[m - 1] = E[a] /\ E[a] \in Nat
    BY <1>1, <1>2, <2>3 DEF n
  <2> QED
    BY <2>2, <2>4
<1> QED
  BY <1>1, <1>3 DEF E

(* A frame of a running kick takes one frame, and the kick ends when all   *)
(* of its keyframes have had their time.                                   *)
OneOlder(k, r) ==
  \/ r.state # "Finished" /\ r.seq = k.seq /\ Age(r) = Age(k) + 1
  \/ r.state = "Finished" /\ Age(k) = Elapsed(k.seq)[Size(k.seq)]

LEMMA FinishState == ASSUME NEW k \in KickRecord PROVE Finish(k).state = "Finished"
  BY DEF Finish, KickRecord

LEMMA MoveToAge ==
  ASSUME NEW k \in KickRecord, k.seq \in Sequences, k.state # "Finished",
         Goal(k) \in 0..Size(k.seq), NEW g
  PROVE  /\ MoveTo(k, g).state # "Finished" /\ MoveTo(k, g).seq = k.seq
         /\ Age(MoveTo(k, g)) = Age(k) + 1
<1> DEFINE m == MoveTo(k, g)
<1>1. k.frames \in Nat /\ Elapsed(k.seq)[Goal(k)] \in Nat
  BY ElapsedFacts DEF KickRecord
<1>2. /\ m.state = k.state /\ m.seq = k.seq /\ m.keyframe = k.keyframe
      /\ m.frames = k.frames + 1
  BY <1>1 DEF MoveTo, KickRecord
<1> HIDE DEF m
<1>3. Goal(m) = Goal(k)
  BY <1>2 DEF Goal
<1> QED
  BY <1>1, <1>2, <1>3 DEF Age, m

LEMMA RunAge ==
  ASSUME NEW k \in KickRecord, k.seq # NULL, k.state = "Running", k.keyframe \in DOMAIN k.seq,
         OnTime(k) \/ k.frames = 0
  PROVE  OneOlder(k, Run(k))
<1> DEFINE seq == k.seq
           last == Size(seq) - 1
           E == Elapsed(seq)
           to == Landing(seq, k.keyframe + 1)
           moved == [k EXCEPT !.keyframe = to, !.frames = 0]
           at == IF k.keyframe < last /\ NextDue(k) THEN moved ELSE k
<1>1. seq \in Sequences /\ k.keyframe \in Nat /\ k.frames \in Nat
  BY DEF KickRecord
<1>2. Size(seq) \in Nat /\ seq \in [0..(Size(seq) - 1) -> Nat]
  BY <1>1, SequencesAssumption
<1>3. last \in Int /\ DOMAIN seq = 0..last /\ \A i \in 0..last : seq[i] \in Nat
  BY <1>2
<1>4. Run(k) = IF at.keyframe = last THEN Finish(at) ELSE MoveTo(at, at.keyframe + 1)
  BY DEF Run
<1>5. OnTime(k) => /\ k.keyframe + 1 \in 0..last
                   /\ k.frames \in 1..seq[k.keyframe + 1]
  BY <1>3 DEF OnTime, Goal
<1>6. /\ E \in [0..(last + 1) -> Nat]
      /\ \A i \in 0..last : E[i + 1] = E[i] + seq[i]
  BY <1>1, <1>2, ElapsedFacts
<1>7. Goal(k) = k.keyframe + 1 /\ Age(k) = E[k.keyframe + 1] + k.frames
  BY DEF Goal, Age
<1>8. CASE k.keyframe < last /\ NextDue(k)
  <2>1. k.keyframe + 1 \in 0..last
    BY <1>1, <1>3, <1>8
  <2>2. /\ to \in (k.keyframe + 1)..last
        /\ \A i \in (k.keyframe + 1)..(to - 1) : seq[i + 1] = 0
    BY <1>1, <2>1, LandingExists
  <2>3. k.frames = seq[k.keyframe + 1]
    BY <1>1, <1>3, <1>5, <1>8, <2>1 DEF NextDue
  <2>4. Age(k) = E[(k.keyframe + 1) + 1]
    BY <1>6, <1>7, <2>1, <2>3
  <2>5. at = moved
    BY <1>8
  <2> HIDE DEF to, at, last, seq, E
  <2>6. to \in Nat
    BY <1>1, <2>2
  <2>7. E[to + 1] = E[(k.keyframe + 1) + 1]
    <3> DEFINE a == (k.keyframe + 1) + 1
    <3>1. a \in 0..(last + 1) /\ to + 1 \in a..(last + 1)
      BY <1>1, <1>3, <2>1, <2>2, SMTT(30)
    <3>2. ASSUME NEW i \in a..((to + 1) - 1) PROVE seq[i] = 0
      <4>1. i - 1 \in (k.keyframe + 1)..(to - 1) /\ (i - 1) + 1 = i
        BY <1>1, <2>6, <3>2
      <4> QED
        BY <2>2, <4>1
    <3>3. last + 1 = Size(seq)
      BY <1>2 DEF last
    <3> HIDE DEF a
    <3>4. E[to + 1] = E[a]
      BY <1>1, <3>1, <3>2, <3>3, ElapsedOverZeros DEF E
    <3> QED
      BY <3>4 DEF a
  <2>8. /\ at \in KickRecord /\ at.keyframe = to /\ at.frames = 0
        /\ at.seq = seq /\ at.state = "Running"
    BY <2>5, <2>6 DEF KickRecord, seq
  <2> HIDE DEF moved
  <2>9. CASE to = last
    <3>1. Run(k).state = "Finished"
      BY <1>4, <2>8, <2>9, FinishState
    <3>2. to + 1 = Size(seq)
      BY <1>2, <2>9 DEF last
    <3> QED
      BY <2>4, <2>7, <3>1, <3>2 DEF OneOlder, E, seq
  <2>10. CASE to # last
    <3>1. Goal(at) = to + 1 /\ to + 1 \in 0..Size(seq)
      <4>1. to + 1 \in 0..Size(seq)
        BY <1>2, <2>2, <2>6 DEF last
      <4> QED
        BY <2>8, <4>1 DEF Goal
    <3>2. Age(at) = Age(k)
      <4>1. Age(at) = E[to + 1] + 0
        BY <2>8, <3>1 DEF Age, E
      <4>2. to + 1 \in 0..(last + 1)
        BY <1>2, <3>1 DEF last
      <4>3. E[to + 1] \in Nat
        BY <1>6, <4>2
      <4> QED
        BY <2>4, <2>7, <4>1, <4>3
    <3>3. Run(k) = MoveTo(at, at.keyframe + 1)
      BY <1>4, <2>8, <2>10
    <3>4. /\ Run(k).state # "Finished" /\ Run(k).seq = seq
          /\ Age(Run(k)) = Age(at) + 1
      BY <1>1, <2>8, <3>1, <3>3, MoveToAge
    <3> QED
      BY <3>2, <3>4 DEF OneOlder, seq
  <2> QED
    BY <2>9, <2>10
<1>9. CASE ~(k.keyframe < last /\ NextDue(k))
  <2>1. at = k /\ k.keyframe <= last
    BY <1>1, <1>3, <1>9
  <2>2. CASE k.keyframe = last
    <3>1. k.frames = 0
      BY <1>1, <1>3, <1>5, <2>2
    <3>2. k.keyframe + 1 = Size(seq) /\ Size(seq) \in 0..(last + 1)
      BY <1>2, <2>2
    <3>3. Age(k) = E[Size(seq)]
      BY <1>6, <1>7, <3>1, <3>2
    <3>4. Run(k).state = "Finished"
      BY <1>4, <2>1, <2>2, FinishState
    <3> QED
      BY <3>3, <3>4 DEF OneOlder
  <2>3. CASE k.keyframe # last
    <3>1. Run(k) = MoveTo(k, k.keyframe + 1)
      <4> HIDE DEF at
      <4> QED
        BY <1>4, <2>1, <2>3
    <3>2. Goal(k) \in 0..Size(seq)
      BY <1>1, <1>2, <1>7, <2>1, <2>3
    <3> QED
      BY <1>1, <3>1, <3>2, MoveToAge DEF OneOlder
  <2> QED
    BY <2>2, <2>3
<1> QED
  BY <1>8, <1>9

LEMMA PerformKickAge ==
  ASSUME NEW k \in KickRecord, k.seq # NULL, k.state # "Finished",
         OnTime(k) \/ (k.state = "Initial" /\ k.keyframe = 0 /\ k.frames = 0)
  PROVE  OneOlder(k, PerformKick(k))
<1> DEFINE E == Elapsed(k.seq)
<1>1. /\ k.seq \in Sequences /\ k.keyframe \in Nat /\ k.frames \in Nat
      /\ k.state \in {"Initial", "Running"}
  BY DEF KickRecord
<1>2. Size(k.seq) \in Nat /\ k.seq \in [0..(Size(k.seq) - 1) -> Nat]
  BY <1>1, SequencesAssumption
<1>3. /\ E \in [0..Size(k.seq) -> Nat] /\ E[0] = 0
      /\ \A i \in 0..(Size(k.seq) - 1) : E[i + 1] = E[i] + k.seq[i]
  BY <1>1, ElapsedFacts
<1>4. OnTime(k) => Goal(k) \in 0..(Size(k.seq) - 1) /\ k.frames \in 1..k.seq[Goal(k)]
  BY <1>2 DEF OnTime
<1>5. k.state = "Initial" => k.keyframe = 0 /\ Goal(k) = 0 /\ Age(k) = k.frames
  <2> SUFFICES ASSUME k.state = "Initial" PROVE k.keyframe = 0 /\ Goal(k) = 0 /\ Age(k) = k.frames
    OBVIOUS
  <2>1. k.keyframe = 0 /\ Goal(k) = 0
    BY DEF OnTime, Goal
  <2> QED
    BY <1>1, <1>3, <2>1 DEF Age
<1>6. CASE k.keyframe >= Size(k.seq)
  <2>1. k.state = "Initial" /\ k.frames = 0 /\ Size(k.seq) = 0
    BY <1>1, <1>2, <1>4, <1>5, <1>6 DEF Goal
  <2>2. PerformKick(k).state = "Finished"
    BY <1>6, FinishState DEF PerformKick
  <2> QED
    BY <1>3, <1>5, <2>1, <2>2 DEF OneOlder
<1>7. CASE ~(k.keyframe >= Size(k.seq))
  <2>1. k.keyframe \in DOMAIN k.seq /\ k.seq[k.keyframe] \in Nat
    BY <1>1, <1>2, <1>7
  <2>2. CASE k.state = "Running"
    <3>1. PerformKick(k) = Run(k)
      BY <1>7, <2>2 DEF PerformKick
    <3> QED
      BY <2>1, <2>2, <3>1, RunAge
  <2>3. CASE k.state = "Initial" /\ k.frames >= k.seq[k.keyframe]
    <3> DEFINE k2 == [k EXCEPT !.state = "Running", !.frames = 0]
    <3>1. /\ k2 \in KickRecord /\ k2.seq = k.seq /\ k2.keyframe = k.keyframe
          /\ k2.state = "Running" /\ k2.frames = 0
      BY DEF KickRecord
    <3>2. PerformKick(k) = Run(k2)
      BY <1>7, <2>3 DEF PerformKick
    <3> HIDE DEF k2
    <3>3. k.frames = k.seq[0]
      BY <1>1, <1>4, <1>5, <2>1, <2>3
    <3>4. Age(k2) = Age(k)
      <4>1. Goal(k2) = 1 /\ 0 \in 0..(Size(k.seq) - 1)
        BY <1>1, <1>2, <1>5, <1>7, <2>3, <3>1 DEF Goal
      <4>2. E[0 + 1] = E[0] + k.seq[0] /\ k.seq[0] \in Nat
        BY <1>2, <1>3, <4>1
      <4>3. Age(k2) = E[1] + 0
        BY <3>1, <4>1 DEF Age
      <4> HIDE DEF E
      <4> QED
        BY <1>3, <1>5, <2>3, <3>3, <4>2, <4>3
    <3>5. OneOlder(k2, Run(k2))
      BY <2>1, <3>1, RunAge
    <3> QED
      BY <3>1, <3>2, <3>4, <3>5 DEF OneOlder
  <2>4. CASE k.state = "Initial" /\ ~(k.frames >= k.seq[k.keyframe])
    <3>1. PerformKick(k) = MoveTo(k, k.keyframe)
      BY <1>7, <2>4 DEF PerformKick
    <3>2. Goal(k) \in 0..Size(k.seq)
      BY <1>2, <1>5, <2>4
    <3> QED
      BY <1>1, <3>1, <3>2, MoveToAge DEF OneOlder
  <2> QED
    BY <1>1, <2>2, <2>3, <2>4
<1> QED
  BY <1>6, <1>7

(* No part of a sequence takes longer than all of it.                      *)
LEMMA ElapsedBelowTotal ==
  ASSUME NEW seq \in Sequences, NEW a \in 0..Size(seq)
  PROVE  Elapsed(seq)[a] <= Total(seq)
<1> DEFINE n == Size(seq)
           E == Elapsed(seq)
           T == {i \in a..n : ~(E[a] <= E[i])}
<1>1. n \in Nat /\ a \in Nat /\ a <= n /\ seq \in [0..(n - 1) -> Nat]
  BY SequencesAssumption
<1>2. E \in [0..n -> Nat] /\ \A i \in 0..(n - 1) : E[i + 1] = E[i] + seq[i]
  BY ElapsedFacts
<1> HIDE DEF n, E
<1>3. ASSUME T # {} PROVE FALSE
  <2>1. T \subseteq Nat
    BY <1>1
  <2>2. PICK m \in T : \A x \in T : m <= x
    BY <1>3, <2>1, LeastElement
  <2>3. m \in a..n /\ E[a] \in Nat /\ E[m] \in Nat
    BY <1>1, <1>2, <2>2
  <2>4. m # a
    BY <2>2, <2>3
  <2>5. m - 1 \in a..n /\ m - 1 \in 0..(n - 1) /\ m - 1 \notin T /\ (m - 1) + 1 = m
    BY <1>1, <2>2, <2>3, <2>4
  <2>6. E[m] = E[m - 1] + seq[m - 1] /\ seq[m - 1] \in Nat /\ E[a] <= E[m - 1] /\ E[m - 1] \in Nat
    BY <1>1, <1>2, <2>5
  <2>7. E[a] <= E[m]
    BY <2>3, <2>6
  <2> QED
    BY <2>2, <2>7
<1>4. n \in a..n
  BY <1>1
<1>5. E[a] <= E[n]
  BY <1>3, <1>4
<1> QED
  BY <1>5 DEF E, n, Total

(* A running kick has frames left.                                         *)
LEMMA AgeBelowTotal ==
  ASSUME NEW k \in KickRecord, k.seq # NULL, OnTime(k)
  PROVE  Age(k) \in Nat /\ Total(k.seq) \in Nat /\ Age(k) <= Total(k.seq)
<1> DEFINE seq == k.seq
           E == Elapsed(seq)
           g == Goal(k)
<1>1. seq \in Sequences /\ Size(seq) \in Nat /\ seq \in [0..(Size(seq) - 1) -> Nat]
  BY SequencesAssumption DEF KickRecord
<1>2. g \in 0..(Size(seq) - 1) /\ k.frames \in 1..seq[g] /\ seq[g] \in Nat
  BY <1>1 DEF OnTime
<1>3. E[g] \in Nat /\ E[g + 1] = E[g] + seq[g] /\ E[Size(seq)] \in Nat
  BY <1>1, <1>2, ElapsedFacts, SMTT(30)
<1>4. g + 1 \in 0..Size(seq)
  BY <1>1, <1>2
<1>5. E[g + 1] <= Total(seq)
  BY <1>1, <1>4, ElapsedBelowTotal
<1>6. Age(k) = E[g] + k.frames /\ Total(seq) = E[Size(seq)]
  BY DEF Age, Total
<1> HIDE DEF E, g, seq
<1>7. Age(k) \in Nat /\ Total(seq) \in Nat /\ Age(k) <= Total(seq)
  BY <1>2, <1>3, <1>5, <1>6
<1> QED
  BY <1>7 DEF seq

-----------------------------------------------------------------------------
(* Refinement.                                                             *)

(* KickModule implements Kick: a kick begins when one is asked for and none *)
(* runs, and is over when the time of its file has passed, no frame sooner  *)
(* or later whatever is asked meanwhile; one that does not load never is.   *)
THEOREM Refinement == Spec => ImplementsKick
<1>1. Init => Abstract!Init
  BY DEF Init, Abstract!Init, Left
<1>2. TypeOK /\ KeyframeInv /\ [Next]_vars =>
        [Abstract!Next]_<<kick_type_ = "STRAIGHT", Left(kick)>>
  <2> SUFFICES ASSUME TypeOK, KeyframeInv, Next PROVE Abstract!Next
    BY DEF vars
  <2>1. kick \in KickRecord /\ OnTime(kick)
    BY DEF TypeOK, KeyframeInv
  <2>2. ASSUME StartKick PROVE Abstract!Begin
    <3>1. Left(kick) = 0
      BY <2>2 DEF StartKick, Left
    <3>2. PICK seq \in Sequences \cup {NULL} :
            /\ kick' = PerformKick(Start(seq))
            /\ seq = NULL => FALSE \in Loads
            /\ seq # NULL => TRUE \in Loads
      BY <2>2, NullAssumption DEF StartKick
    <3> DEFINE k == Start(seq)
    <3>3. /\ k \in KickRecord /\ k.state = "Initial" /\ k.keyframe = 0
          /\ k.frames = 0 /\ k.shown = {} /\ k.seq = seq
      BY StartType DEF Start
    <3>4. kick' = PerformKick(k)
      BY <3>2
    <3> HIDE DEF k
    <3>5. Left(kick') \in KickTimes
      <4>1. CASE seq = NULL
        <5>1. kick'.state = "Initial" /\ kick'.seq = NULL
          BY <3>3, <3>4, <4>1 DEF PerformKick, KickRecord
        <5> QED
          BY <3>2, <4>1, <5>1 DEF Left, KickTimes
      <4>2. CASE seq # NULL
        <5>1. OneOlder(k, kick')
          BY <3>3, <3>4, <4>2, PerformKickAge
        <5>2. Age(k) = 0
          <6>1. seq \in Sequences /\ Goal(k) = 0 /\ Elapsed(seq)[0] = 0
            BY <3>3, <4>2, ElapsedFacts DEF Goal
          <6> QED
            BY <3>3, <6>1 DEF Age
        <5>3. Total(seq) \in Nat
          <6>1. Size(seq) \in 0..Size(seq) /\ Elapsed(seq) \in [0..Size(seq) -> Nat]
            BY <4>2, ElapsedFacts, SequencesAssumption
          <6> QED
            BY <6>1 DEF Total
        <5>4. Left(kick') = Total(seq)
          BY <3>3, <4>2, <5>1, <5>2, <5>3 DEF OneOlder, Left, Total
        <5> QED
          BY <3>2, <4>2, <5>4 DEF KickTimes
      <4> QED
        BY <4>1, <4>2
    <3> QED
      BY <2>2, <3>1, <3>5 DEF Abstract!Begin, StartKick
  <2>3. ASSUME ContinueKick PROVE Abstract!GoOn
    <3> DEFINE k == [kick EXCEPT !.running = TRUE]
    <3>1. /\ k \in KickRecord /\ k.state = kick.state /\ k.seq = kick.seq
          /\ k.keyframe = kick.keyframe /\ k.frames = kick.frames /\ k.held = kick.held
          /\ k.shown = kick.shown
      BY <2>1 DEF KickRecord
    <3>2. kick' = PerformKick(k) /\ kick.state # "Finished"
      BY <2>3 DEF ContinueKick
    <3> HIDE DEF k
    <3>3. OnTime(k) /\ Age(k) = Age(kick)
      BY <2>1, <3>1 DEF OnTime, Goal, Age
    <3>4. CASE kick.seq = NULL
      <4>1. kick'.state = kick.state /\ kick'.seq = NULL
        BY <3>1, <3>2, <3>4 DEF PerformKick, KickRecord
      <4> QED
        BY <3>2, <3>4, <4>1 DEF Abstract!GoOn, Abstract!Forever, Left
    <3>5. CASE kick.seq # NULL
      <4>1. OneOlder(k, kick')
        BY <3>1, <3>2, <3>3, <3>5, PerformKickAge
      <4>2. kick' \in KickRecord /\ OnTime(kick')
        BY <3>1, <3>2, <3>3, PerformKickType, PerformKickOnTime
      <4>3. /\ Age(kick) \in Nat /\ Total(kick.seq) \in Nat /\ Age(kick) <= Total(kick.seq)
            /\ Left(kick) = Total(kick.seq) - Age(kick) + 1
        BY <2>1, <3>2, <3>5, AgeBelowTotal DEF Left
      <4>4. CASE kick'.state = "Finished"
        <5>1. Left(kick') = 0 /\ Age(kick) = Total(kick.seq)
          BY <3>1, <3>3, <4>1, <4>4 DEF OneOlder, Left, Total
        <5> QED
          BY <4>3, <5>1 DEF Abstract!GoOn, Abstract!Forever
      <4>5. CASE kick'.state # "Finished"
        <5>1. kick'.seq = kick.seq /\ Age(kick') = Age(kick) + 1
          BY <3>1, <3>3, <4>1, <4>5 DEF OneOlder
        <5>2. Left(kick') = Total(kick.seq) - Age(kick') + 1
          BY <3>5, <4>5, <5>1 DEF Left
        <5> QED
          BY <4>3, <5>1, <5>2 DEF Abstract!GoOn, Abstract!Forever
      <4> QED
        BY <4>4, <4>5
    <3> QED
      BY <3>4, <3>5
  <2>4. ASSUME NoKick PROVE Abstract!Rest
    <3>1. kick'.state = kick.state
      BY <2>1, <2>4 DEF NoKick, KickRecord
    <3> QED
      BY <2>4, <3>1 DEF NoKick, Abstract!Rest, Left
  <2> QED
    BY <2>2, <2>3, <2>4 DEF Next, ProcessFrame, Abstract!Next
<1> QED
  BY <1>1, <1>2, KeyframeInvariant, PTL DEF Spec, ImplementsKick, Abstract!Spec

-----------------------------------------------------------------------------
(* What a frame of motion does to the kick.                                *)
LEMMA ProcessKick ==
  ASSUME RoundInv, MotionProcess
  PROVE  /\ kick' \in KickRecord /\ OnTime(kick')
         /\ \/ /\ Over /\ Received /\ starts' = starts + 1 /\ ~Over'
               /\ kick'.running = TRUE /\ (kick'.seq # NULL => Age(kick') = 1)
            \/ /\ ~Over /\ starts' = starts /\ ~Over' /\ kick'.running = TRUE
               /\ kick'.seq # NULL => kick.seq # NULL /\ Age(kick') = Age(kick) + 1
            \/ /\ ~Over /\ starts' = starts /\ Over' /\ kick'.running = FALSE
               /\ kick.seq # NULL /\ Age(kick) >= 4 * MaxMotion
            \/ /\ Over /\ ~Received /\ starts' = starts /\ Over'
               /\ kick'.running = kick.running
<1>1. TypeOK /\ kick \in KickRecord /\ OnTime(kick)
  BY DEF RoundInv, RoundTypeOK, TypeOK, KeyframeInv
<1>2. \A seq \in Sequences : Elapsed(seq)[Size(seq)] >= 4 * MaxMotion
  BY DurationAssumption DEF Total
<1>3. MaxMotion \in Nat /\ MaxMotion >= 1
  BY MotionRateAssumption
<1>4. ASSUME StartKick, starts' = starts + 1
      PROVE  /\ kick' \in KickRecord /\ OnTime(kick') /\ Over /\ Received /\ ~Over'
             /\ kick'.running = TRUE /\ (kick'.seq # NULL => Age(kick') = 1)
  <2>1. PICK seq \in Sequences \cup {NULL} : kick' = PerformKick(Start(seq))
    BY <1>4 DEF StartKick
  <2> DEFINE k == Start(seq)
  <2>2. /\ k \in KickRecord /\ k.running = TRUE /\ k.state = "Initial" /\ k.keyframe = 0
        /\ k.frames = 0 /\ k.shown = {} /\ k.seq = seq
    BY StartType DEF Start
  <2> HIDE DEF k
  <2>3. kick' = PerformKick(k)
    BY <2>1 DEF k
  <2>4. kick' \in KickRecord /\ OnTime(kick') /\ Truthful(kick')
    BY <2>2, <2>3, PerformKickType, PerformKickOnTime, PerformKickTruthful
  <2>5. kick'.state # "Finished" /\ (kick'.seq # NULL => Age(kick') = 1)
    <3>1. CASE seq = NULL
      <4>1. kick'.state = "Initial" /\ kick'.seq = NULL
        BY <2>2, <2>3, <3>1 DEF PerformKick, KickRecord
      <4> QED
        BY <4>1
    <3>2. CASE seq # NULL
      <4>1. OneOlder(k, kick')
        BY <2>2, <2>3, <3>2, PerformKickAge
      <4>2. Age(k) = 0
        <5>1. seq \in Sequences /\ Goal(k) = 0 /\ Elapsed(seq)[0] = 0
          BY <2>2, <3>2, ElapsedFacts DEF Goal
        <5> QED
          BY <2>2, <5>1 DEF Age
      <4>3. Elapsed(seq)[Size(seq)] >= 4 * MaxMotion
        BY <1>2, <3>2
      <4> QED
        BY <1>3, <2>2, <4>1, <4>2, <4>3 DEF OneOlder
    <3> QED
      BY <3>1, <3>2
  <2>6. kick'.running = TRUE
    BY <2>4, <2>5, Zenon DEF Truthful
  <2> QED
    BY <1>4, <2>4, <2>5, <2>6 DEF StartKick, Over, Received
<1>5. ASSUME ContinueKick
      PROVE  /\ kick' \in KickRecord /\ OnTime(kick') /\ ~Over
             /\ \/ /\ ~Over' /\ kick'.running = TRUE
                   /\ kick'.seq # NULL => kick.seq # NULL /\ Age(kick') = Age(kick) + 1
                \/ /\ Over' /\ kick'.running = FALSE /\ kick.seq # NULL
                   /\ Age(kick) >= 4 * MaxMotion
  <2> DEFINE k == [kick EXCEPT !.running = TRUE]
  <2>1. /\ k \in KickRecord /\ k.running = TRUE /\ k.state = kick.state /\ k.seq = kick.seq
        /\ k.keyframe = kick.keyframe /\ k.frames = kick.frames /\ k.held = kick.held
        /\ k.shown = kick.shown
    BY <1>1 DEF KickRecord
  <2>2. kick' = PerformKick(k) /\ kick.state # "Finished"
    BY <1>5 DEF ContinueKick
  <2> HIDE DEF k
  <2>3. OnTime(k) /\ Age(k) = Age(kick)
    BY <1>1, <2>1 DEF OnTime, Goal, Age
  <2>4. kick' \in KickRecord /\ OnTime(kick') /\ Truthful(kick')
    BY <2>1, <2>2, <2>3, PerformKickType, PerformKickOnTime, PerformKickTruthful
  <2>5. \/ /\ kick'.state # "Finished"
           /\ kick'.seq # NULL => kick.seq # NULL /\ Age(kick') = Age(kick) + 1
        \/ kick'.state = "Finished" /\ kick.seq # NULL /\ Age(kick) >= 4 * MaxMotion
    <3>1. CASE kick.seq = NULL
      <4>1. kick'.state = kick.state /\ kick'.seq = NULL
        BY <2>1, <2>2, <3>1 DEF PerformKick, KickRecord
      <4> QED
        BY <2>2, <4>1
    <3>2. CASE kick.seq # NULL
      <4>1. OneOlder(k, kick')
        BY <2>1, <2>2, <2>3, <3>2, PerformKickAge
      <4>2. Elapsed(kick.seq)[Size(kick.seq)] >= 4 * MaxMotion
        BY <1>1, <1>2, <3>2 DEF KickRecord
      <4> QED
        BY <2>1, <2>3, <3>2, <4>1, <4>2 DEF OneOlder
    <3> QED
      BY <3>1, <3>2
  <2>6. /\ kick'.state # "Finished" => kick'.running = TRUE
        /\ kick'.state = "Finished" => kick'.running = FALSE
    BY <2>4, Zenon DEF Truthful
  <2> QED
    BY <2>2, <2>4, <2>5, <2>6 DEF Over
<1>6. ASSUME NoKick
      PROVE  /\ kick' \in KickRecord /\ OnTime(kick')
             /\ Over /\ ~Received /\ Over' /\ kick'.running = kick.running
  <2>1. /\ kick' \in KickRecord /\ kick'.seq = kick.seq /\ kick'.state = kick.state
        /\ kick'.running = kick.running
    BY <1>1, <1>6 DEF NoKick, KickRecord
  <2>2. kick.seq = NULL /\ kick.state = "Finished" /\ kick_type_ # "STRAIGHT"
    BY <1>1, <1>6 DEF NoKick, OnTime
  <2> QED
    BY <2>1, <2>2 DEF OnTime, Over, Received
<1>7. \/ StartKick /\ starts' = starts + 1
      \/ (ContinueKick \/ NoKick) /\ starts' = starts
  BY DEF MotionProcess
<1> QED
  BY <1>4, <1>5, <1>6, <1>7

(* The products in Allowed.                                                *)
LEMMA Periods ==
  ASSUME NEW m \in Nat, NEW p \in 1..4
  PROVE  /\ (p - 1) * m \in Nat /\ (p - 1) * m <= 3 * m
         /\ \A q \in 1..4 : p <= q => (p - 1) * m <= (q - 1) * m
         /\ \A q \in 1..4 : p < q => (p - 1) * m + m <= (q - 1) * m
<1>1. (1 - 1) * m = 0 /\ (2 - 1) * m = m /\ (3 - 1) * m = 2 * m /\ (4 - 1) * m = 3 * m
  OBVIOUS
<1>2. p \in {1, 2, 3, 4} /\ 1..4 = {1, 2, 3, 4}
  OBVIOUS
<1> QED
  BY <1>1, <1>2

LEMMA PublicationsType ==
  ASSUME RoundTypeOK
  PROVE  /\ Publications \in -1..4
         /\ ~Publishing /\ frames < 4 => Publications = frames
         /\ ~Publishing /\ frames >= 4 => Publications = 4
         /\ Publishing /\ frames < 4 => Publications = frames - 1
         /\ Publishing /\ frames >= 4 => Publications = 3
  BY DEF Publications, RoundTypeOK

LEMMA AgeType ==
  ASSUME RoundTypeOK, KeyframeInv, kick.seq # NULL
  PROVE  Age(kick) \in Nat
<1>1. kick.seq \in Sequences /\ kick.frames \in Nat /\ Goal(kick) \in DOMAIN kick.seq
  BY DEF RoundTypeOK, TypeOK, KickRecord, KeyframeInv, OnTime
<1>2. Size(kick.seq) \in Nat /\ DOMAIN kick.seq = 0..(Size(kick.seq) - 1)
  BY <1>1, SequencesAssumption
<1>3. Elapsed(kick.seq)[Goal(kick)] \in Nat
  BY <1>1, <1>2, ElapsedFacts
<1> QED
  BY <1>1, <1>3 DEF Age

(* Motion's receive: the request is now motion's, the kick as it was.      *)
LEMMA ReceiveStep ==
  ASSUME RoundInv, MotionReceive
  PROVE  RoundInv'
<1> USE DEF RoundInv
<1>1. /\ mpc = "receive" /\ mpc' = "process" /\ ticks < MaxMotion
      /\ sync' = sync /\ vis' = vis /\ vpc' = vpc /\ node' = node
      /\ frames' = frames /\ ticks' = ticks /\ starts' = starts
      /\ kick_type_' = sync.kick_type_
  BY DEF MotionReceive
<1>2. kick \in KickRecord /\ sync.kick_running_ \in BOOLEAN
  BY DEF RoundTypeOK, TypeOK, Request
<1>3. kick' = [kick EXCEPT !.running = sync.kick_running_]
  BY DEF MotionReceive
<1>4. /\ kick' \in KickRecord /\ kick'.state = kick.state /\ kick'.seq = kick.seq
      /\ kick'.keyframe = kick.keyframe /\ kick'.frames = kick.frames
      /\ kick'.held = kick.held /\ kick'.shown = kick.shown
  BY <1>2, <1>3 DEF KickRecord
<1>5. kick'.running = sync.kick_running_
  BY <1>2, <1>3 DEF KickRecord
<1>6. OnTime(kick') /\ Age(kick') = Age(kick)
  BY <1>4 DEF KeyframeInv, OnTime, Goal, Age
<1>7. /\ Over' = Over /\ InSync' = InSync /\ Received' = InSync
      /\ Publishing' = Publishing
  BY <1>1, <1>4 DEF Over, InSync, Received, Publishing
<1>8. Publications' = Publications
  BY <1>1, <1>7 DEF Publications
<1>9. RoundTypeOK'
  BY <1>1, <1>4 DEF RoundTypeOK, TypeOK, Request
<1>10. KeyframeInv'
  BY <1>6 DEF KeyframeInv
<1>11. RateInv'
  BY <1>1, MotionRateAssumption DEF RateInv, RoundTypeOK
<1>12. RequestInv'
  BY <1>1, <1>7, <1>8 DEF RequestInv
<1>13. RunningInv'
  BY <1>1, <1>5, <1>7 DEF RunningInv
<1>14. Allowed' = Allowed
  BY <1>1, <1>8 DEF Allowed
<1>15. StillKicking'
  BY <1>1, <1>4, <1>6, <1>7, <1>14 DEF StillKicking
<1>16. starts # 0 \/ InSync => Armed'
  BY <1>1, <1>7 DEF Armed
<1>17. Seen' = Seen
  BY <1>1, <1>7 DEF Seen
<1>18. SeenInv'
  BY <1>1, <1>7, <1>16, <1>17 DEF SeenInv, Armed
<1>19. OneKickPerVisit'
  BY <1>1, <1>4 DEF OneKickPerVisit
<1> QED
  BY <1>9, <1>10, <1>11, <1>12, <1>13, <1>15, <1>18, <1>19

(* Motion's frame: the first request starts the kick, the others find it   *)
(* running, as it is longer than motion can have run since.                *)
LEMMA ProcessStep ==
  ASSUME RoundInv, MotionProcess
  PROVE  RoundInv'
<1> USE DEF RoundInv
<1>1. /\ mpc = "process" /\ mpc' = "publish"
      /\ sync' = sync /\ vis' = vis /\ vpc' = vpc /\ node' = node
      /\ frames' = frames /\ ticks' = ticks /\ kick_type_' = kick_type_
  BY DEF MotionProcess
<1> DEFINE Begins == /\ Over /\ Received /\ starts' = starts + 1 /\ ~Over'
                     /\ kick'.running = TRUE /\ (kick'.seq # NULL => Age(kick') = 1)
           GoesOn == /\ ~Over /\ starts' = starts /\ ~Over' /\ kick'.running = TRUE
                     /\ kick'.seq # NULL => kick.seq # NULL /\ Age(kick') = Age(kick) + 1
           Ends == /\ ~Over /\ starts' = starts /\ Over' /\ kick'.running = FALSE
                   /\ kick.seq # NULL /\ Age(kick) >= 4 * MaxMotion
           Idles == /\ Over /\ ~Received /\ starts' = starts /\ Over'
                    /\ kick'.running = kick.running
<1>2. /\ kick' \in KickRecord /\ OnTime(kick')
      /\ Begins \/ GoesOn \/ Ends \/ Idles
  BY ProcessKick
<1>3. /\ InSync' = InSync /\ Received' = Received /\ Publishing' = Publishing
  BY <1>1 DEF InSync, Received, Publishing
<1>4. Publications' = Publications
  BY <1>1, <1>3 DEF Publications
<1>5. /\ ticks \in Nat /\ starts \in Nat /\ ticks + 1 <= MaxMotion /\ MaxMotion \in Nat
  BY <1>1, MotionRateAssumption DEF RoundTypeOK, RateInv
<1>6. Begins => starts = 0
  BY <1>1 DEF StillKicking
<1>7. RoundTypeOK'
  <2>1. starts' \in Nat
    BY <1>2, <1>5
  <2> QED
    BY <1>1, <1>2, <2>1 DEF RoundTypeOK, TypeOK
<1>8. KeyframeInv'
  BY <1>2 DEF KeyframeInv
<1>9. RateInv'
  BY <1>1 DEF RateInv
<1>10. RequestInv'
  BY <1>1, <1>2, <1>3, <1>4 DEF RequestInv
<1>11. RunningInv'
  BY <1>1, <1>2 DEF RunningInv
<1>12. Allowed' = (Publications - 1) * MaxMotion + ticks + 1
       /\ Allowed = (Publications - 1) * MaxMotion + ticks + 0
  BY <1>1, <1>4 DEF Allowed
<1>13. Publications >= 1 =>
         (Publications - 1) * MaxMotion \in Nat /\ (Publications - 1) * MaxMotion <= 3 * MaxMotion
  BY <1>5, PublicationsType, Periods
<1>14. kick.seq # NULL => Age(kick) \in Nat
  BY AgeType
<1> DEFINE P == (Publications - 1) * MaxMotion
<1>15. StillKicking'
  <2>1. CASE Begins
    <3>1. Publications >= 1
      BY <2>1 DEF RequestInv
    <3>2. kick'.seq # NULL => Age(kick') <= Allowed'
      <4> HIDE DEF P
      <4>1. P \in Nat /\ Allowed' = P + ticks + 1
        BY <1>12, <1>13, <3>1 DEF P
      <4> QED
        BY <1>5, <2>1, <4>1
    <3> QED
      BY <1>1, <1>5, <2>1, <3>2 DEF StillKicking
  <2>2. CASE GoesOn
    <3>1. ASSUME starts # 0, InSync \/ Publishing, kick'.seq # NULL
          PROVE  Age(kick') <= Allowed'
      <4>1. Age(kick) <= Allowed /\ Publications >= 1 /\ Age(kick) \in Nat
        BY <1>14, <2>2, <3>1 DEF StillKicking, RequestInv
      <4>2. P \in Nat /\ Allowed' = P + ticks + 1 /\ Allowed = P + ticks + 0
        BY <1>12, <1>13, <4>1
      <4> HIDE DEF P
      <4> QED
        BY <1>5, <2>2, <3>1, <4>1, <4>2
    <3> QED
      BY <1>1, <1>3, <2>2, <3>1 DEF StillKicking
  <2>3. CASE Ends
    <3>1. ASSUME starts # 0, InSync \/ Publishing PROVE FALSE
      <4>1. Age(kick) <= Allowed /\ Publications >= 1 /\ Age(kick) \in Nat
        BY <1>14, <2>3, <3>1 DEF StillKicking, RequestInv
      <4>2. P \in Nat /\ P <= 3 * MaxMotion /\ Allowed = P + ticks + 0
        BY <1>12, <1>13, <4>1
      <4> HIDE DEF P
      <4> QED
        BY <1>5, <2>3, <4>1, <4>2
    <3> QED
      BY <1>1, <1>3, <2>3, <3>1 DEF StillKicking
  <2>4. CASE Idles
    BY <1>1, <1>3, <2>4 DEF StillKicking
  <2> QED
    BY <1>2, <2>1, <2>2, <2>3, <2>4
<1>16. Armed => Armed' /\ (starts = 0 => Begins)
  <2>1. Armed => starts # 0 \/ Received
    BY <1>1 DEF Armed
  <2>2. starts # 0 => starts' # 0
    BY <1>2, <1>5
  <2>3. starts = 0 /\ Received => Begins
    BY <1>2 DEF StillKicking
  <2>4. Begins => starts' # 0
    BY <1>5
  <2> QED
    BY <2>1, <2>2, <2>3, <2>4 DEF Armed
<1>17. Seen => Seen'
  <2>1. starts # 0 => starts' # 0
    BY <1>2, <1>5
  <2>2. starts # 0 /\ Over => Over'
    BY <1>2, <1>6
  <2> QED
    BY <1>1, <2>1, <2>2 DEF Seen
<1>18. starts # 0 /\ Over => starts' # 0 /\ Over'
  BY <1>2, <1>5, <1>6
<1>19. SeenInv'
  <2>1. starts' = 0 => starts = 0
    BY <1>2, <1>5
  <2> QED
    BY <1>1, <1>3, <1>16, <1>17, <1>18, <2>1 DEF SeenInv
<1>20. OneKickPerVisit'
  <2>1. starts' <= 1
    BY <1>2, <1>5, <1>6 DEF OneKickPerVisit
  <2>2. node = "after" => starts' = 1 /\ kick'.state = "Finished"
    BY <1>2, <1>5, <1>18, <2>1 DEF OneKickPerVisit, Over
  <2> QED
    BY <1>1, <2>1, <2>2 DEF OneKickPerVisit
<1> QED
  BY <1>7, <1>8, <1>9, <1>10, <1>11, <1>15, <1>19, <1>20

(* Motion's publication: vision can see whether the kick runs.             *)
LEMMA PublishStep ==
  ASSUME RoundInv, MotionPublish
  PROVE  RoundInv'
<1> USE DEF RoundInv
<1>1. /\ mpc = "publish" /\ mpc' = "receive" /\ ticks' = ticks + 1
      /\ vis' = vis /\ vpc' = vpc /\ node' = node /\ frames' = frames
      /\ kick_type_' = kick_type_ /\ kick' = kick /\ starts' = starts
  BY DEF MotionPublish
<1>2. sync' = [sync EXCEPT !.kick_running_ = kick.running]
  BY DEF MotionPublish
<1>3. kick.running \in BOOLEAN /\ sync \in Request
  BY DEF RoundTypeOK, TypeOK, KickRecord
<1>4. sync' \in Request /\ sync'.kick_type_ = sync.kick_type_
  BY <1>2, <1>3 DEF Request
<1>5. sync'.kick_running_ = kick.running
  BY <1>2, <1>3 DEF Request
<1>6. /\ Over' = Over /\ InSync' = InSync /\ Received' = Received
      /\ Publishing' = Publishing
  BY <1>1, <1>4 DEF Over, InSync, Received, Publishing
<1>7. Publications' = Publications
  BY <1>1, <1>6 DEF Publications
<1>8. ticks \in Nat /\ MaxMotion \in Nat
  BY MotionRateAssumption DEF RoundTypeOK
<1>9. RoundTypeOK'
  BY <1>1, <1>4, <1>8 DEF RoundTypeOK, TypeOK
<1>10. KeyframeInv'
  BY <1>1 DEF KeyframeInv
<1>11. RateInv'
  BY <1>1, <1>8 DEF RateInv
<1>12. RequestInv'
  BY <1>1, <1>6, <1>7 DEF RequestInv
<1>13. RunningInv'
  BY <1>1, <1>5, <1>6 DEF RunningInv
<1>14. Publications >= 1 => Allowed' = Allowed
  <2> DEFINE P == (Publications - 1) * MaxMotion
  <2>1. Allowed' = P + (ticks + 1) + 0 /\ Allowed = P + ticks + 1
    BY <1>1, <1>7 DEF Allowed
  <2>2. Publications >= 1 => P \in Nat
    BY <1>8, PublicationsType, Periods
  <2> HIDE DEF P
  <2> QED
    BY <1>8, <2>1, <2>2
<1>15. StillKicking'
  BY <1>1, <1>6, <1>14 DEF StillKicking, RequestInv
<1>16. Armed'
  BY <1>1 DEF Armed
<1>17. starts # 0 => Seen'
  BY <1>1, <1>5, <1>6 DEF Seen, RunningInv
<1>18. SeenInv'
  BY <1>1, <1>6, <1>16, <1>17 DEF SeenInv, Armed, Seen
<1>19. OneKickPerVisit'
  BY <1>1 DEF OneKickPerVisit
<1> QED
  BY <1>9, <1>10, <1>11, <1>12, <1>13, <1>15, <1>18, <1>19

(* Vision's receive: it sees the kick running or over, if two of its       *)
(* requests were published.                                                *)
LEMMA VisionReceiveStep ==
  ASSUME RoundInv, VisionReceive
  PROVE  RoundInv'
<1> USE DEF RoundInv
<1>1. /\ vpc = "receive" /\ vpc' = "run" /\ mpc' = mpc /\ ticks' = ticks /\ sync' = sync
      /\ node' = node /\ frames' = frames /\ kick_type_' = kick_type_
      /\ kick' = kick /\ starts' = starts
  BY DEF VisionReceive
<1>2. /\ vis' \in Request /\ vis'.kick_type_ = "NO_KICK"
      /\ vis'.kick_running_ = sync.kick_running_
  BY DEF VisionReceive, RoundTypeOK, Request
<1>3. /\ Over' = Over /\ InSync' = InSync /\ Received' = Received
      /\ ~Publishing' /\ ~Publishing
  BY <1>1, <1>2 DEF Over, InSync, Received, Publishing
<1>4. Publications' = Publications
  BY <1>1, <1>3 DEF Publications
<1>5. RoundTypeOK' /\ KeyframeInv' /\ RateInv' /\ OneKickPerVisit'
  BY <1>1, <1>2 DEF RoundTypeOK, TypeOK, KeyframeInv, RateInv, OneKickPerVisit
<1>6. RequestInv'
  BY <1>1, <1>2, <1>3, <1>4 DEF RequestInv
<1>7. RunningInv'
  BY <1>1, <1>3 DEF RunningInv
<1>8. StillKicking'
  <2>1. Allowed' = Allowed
    BY <1>1, <1>4 DEF Allowed
  <2> QED
    BY <1>1, <1>3, <2>1 DEF StillKicking
<1>9. SeenInv'
  <2>1. Armed' = Armed /\ Seen' = Seen
    BY <1>1, <1>3 DEF Armed, Seen
  <2>2. Seen /\ ~sync.kick_running_ => starts # 0 /\ Over
    BY DEF Seen
  <2> QED
    BY <1>1, <1>2, <1>3, <2>1, <2>2 DEF SeenInv
<1> QED
  BY <1>5, <1>6, <1>7, <1>8, <1>9

(* The node's frame: it goes on asking only while its last request is      *)
(* still in shared memory, and leaves only when the kick is over.          *)
LEMMA RunNodeStep ==
  ASSUME RoundInv, RunNode
  PROVE  RoundInv'
<1> USE DEF RoundInv
<1>1. /\ vpc = "run" /\ vpc' = "publish" /\ node = "kick" /\ mpc' = mpc /\ ticks' = ticks
      /\ sync' = sync /\ kick_type_' = kick_type_ /\ kick' = kick /\ starts' = starts
  BY DEF RunNode
<1>2. /\ frames \in 0..11 /\ frames' \in 1..11 /\ frames' <= frames + 3
      /\ frames < 11 => frames' >= frames + 1
      /\ frames = 11 => frames' = 11
  <2>1. PICK s \in 1..MaxSkip : frames' = Saturated(frames + s)
    BY DEF RunNode
  <2>2. s \in 1..3
    BY <2>1, MaxSkipAssumption
  <2>3. frames \in 0..11
    BY DEF RoundTypeOK
  <2> QED
    BY <2>1, <2>2, <2>3 DEF Saturated
<1>3. vis.kick_type_ = "NO_KICK" /\ vis \in Request
  BY <1>1 DEF RequestInv, RoundTypeOK
<1>4. /\ vis' \in Request
      /\ vis'.kick_type_ = IF frames <= 3 THEN "STRAIGHT" ELSE "NO_KICK"
  <2>1. vis' = IF Asks(frames) THEN [vis EXCEPT !.kick_type_ = "STRAIGHT"] ELSE vis
    BY DEF RunNode
  <2> QED
    BY <1>3, <2>1 DEF Asks, Request
<1>5. node' \in {"kick", "after"} /\ (node' = "after" => frames > 10 /\ ~vis.kick_running_)
  BY DEF RunNode, Completed
<1>6. /\ Over' = Over /\ InSync' = InSync /\ Received' = Received
      /\ ~Publishing /\ (Publishing' <=> frames <= 3)
  BY <1>1, <1>2, <1>4 DEF Over, InSync, Received, Publishing
<1>7. RoundTypeOK'
  BY <1>1, <1>2, <1>4, <1>5 DEF RoundTypeOK, TypeOK
<1>8. KeyframeInv' /\ RateInv'
  BY <1>1 DEF KeyframeInv, RateInv
<1>9. /\ Publications \in -1..4 /\ Publications' \in -1..4
      /\ frames <= 3 => Publications = frames /\ Publications' >= frames
      /\ frames > 3 => Publications = 4 /\ Publications' = 4
  <2>1. Publications = IF frames < 4 THEN frames ELSE 4
    BY <1>2, <1>6 DEF Publications
  <2>2. Publications' = (IF frames' < 4 THEN frames' ELSE 4) - (IF frames <= 3 THEN 1 ELSE 0)
    BY <1>6 DEF Publications
  <2>3. CASE frames <= 3
    <3>1. frames' < 4 => Publications' = frames' - 1
      BY <1>2, <2>2, <2>3
    <3>2. ~(frames' < 4) => Publications' = 3
      BY <1>2, <2>2, <2>3
    <3> QED
      BY <1>2, <2>1, <2>3, <3>1, <3>2
  <2>4. CASE frames > 3
    <3>1. frames' >= 4 /\ ~(frames' < 4) /\ ~(frames <= 3)
      BY <1>2, <2>4
    <3>2. Publications' = 4 - 0
      BY <2>2, <3>1
    <3> QED
      BY <1>2, <2>1, <2>4, <3>2
  <2> QED
    BY <1>2, <2>3, <2>4
<1>10. RequestInv'
  <2>1. ASSUME starts # 0 \/ InSync \/ Received PROVE Publications' >= 1
    BY <1>2, <1>9, <2>1 DEF RequestInv
  <2>2. frames' \in 1..4 => Publishing'
    BY <1>2, <1>6
  <2>3. Publishing' => node' = "kick" /\ frames' <= 6
    BY <1>2, <1>5, <1>6
  <2>4. Publishing' /\ frames' > 3 => InSync
    BY <1>1, <1>2, <1>6 DEF RequestInv
  <2> QED
    BY <1>1, <1>2, <1>5, <1>6, <2>1, <2>2, <2>3, <2>4 DEF RequestInv
<1>11. RunningInv'
  BY <1>1, <1>6 DEF RunningInv
<1>12. StillKicking'
  <2>1. ASSUME starts # 0, InSync' \/ Publishing'
        PROVE  InSync /\ Publications >= 1 /\ Publications <= Publications'
    <3>1. Publications >= 1
      BY <2>1 DEF RequestInv
    <3> QED
      BY <1>1, <1>2, <1>6, <1>9, <2>1, <3>1 DEF RequestInv
  <2>2. ASSUME Publications >= 1, Publications <= Publications', NEW a \in Int, a <= Allowed
        PROVE  a <= Allowed'
    <3> DEFINE P == (Publications - 1) * MaxMotion
               Q == (Publications' - 1) * MaxMotion
               e == IF mpc = "publish" THEN 1 ELSE 0
    <3>1. Publications \in 1..4 /\ Publications' \in 1..4 /\ MaxMotion \in Nat /\ ticks \in Nat
      BY <1>9, <2>2, MotionRateAssumption DEF RoundTypeOK
    <3>2. P \in Nat /\ Q \in Nat /\ P <= Q
      BY <2>2, <3>1, Periods
    <3>3. Allowed = P + ticks + e /\ Allowed' = Q + ticks + e
      BY <1>1 DEF Allowed
    <3> HIDE DEF P, Q
    <3> QED
      BY <2>2, <3>1, <3>2, <3>3
  <2>3. ASSUME starts # 0, InSync' \/ Publishing', kick.seq # NULL
        PROVE  Age(kick) <= Allowed'
    <3>1. InSync /\ Publications >= 1 /\ Publications <= Publications'
      BY <2>1, <2>3
    <3>2. Age(kick) <= Allowed /\ Age(kick) \in Int
      BY <2>3, <3>1, AgeType DEF StillKicking
    <3> QED
      BY <2>2, <3>1, <3>2
  <2> QED
    BY <1>1, <1>6, <2>1, <2>3 DEF StillKicking
<1>13. SeenInv'
  <2>1. Armed' = Armed /\ Seen' = Seen
    BY <1>1, <1>6 DEF Armed, Seen
  <2>2. frames' > 3 /\ ~Publishing' => frames > 3
    BY <1>2, <1>6
  <2> QED
    BY <1>1, <1>6, <2>1, <2>2 DEF SeenInv
<1>14. OneKickPerVisit'
  <2>1. node' = "after" => starts # 0 /\ Over
    BY <1>1, <1>2, <1>5 DEF SeenInv
  <2> QED
    BY <1>1, <2>1 DEF OneKickPerVisit, Over, RoundTypeOK
<1> QED
  BY <1>7, <1>8, <1>10, <1>11, <1>12, <1>13, <1>14

(* The frame of another node.                                              *)
LEMMA RunOtherStep ==
  ASSUME RoundInv, RunOther
  PROVE  RoundInv'
<1> USE DEF RoundInv
<1>1. /\ vpc = "run" /\ vpc' = "publish" /\ mpc' = mpc /\ ticks' = ticks
      /\ sync' = sync /\ vis' = vis /\ kick_type_' = kick_type_ /\ kick' = kick
      /\ starts' = starts /\ frames' = frames
  BY DEF RunOther
<1>2. /\ node # "kick" /\ node' \in {"before", "kick", "after"}
      /\ node' = "after" <=> node = "after"
      /\ node # "after" => frames = 0
  BY DEF RunOther, RequestInv, RoundTypeOK
<1>3. /\ Over' = Over /\ InSync' = InSync /\ Received' = Received
      /\ ~Publishing /\ ~Publishing'
  BY <1>1 DEF Over, InSync, Received, Publishing, RequestInv
<1>4. Publications' = Publications
  BY <1>1, <1>3 DEF Publications
<1>5. RoundTypeOK' /\ KeyframeInv' /\ RateInv' /\ OneKickPerVisit'
  BY <1>1, <1>2 DEF RoundTypeOK, TypeOK, KeyframeInv, RateInv, OneKickPerVisit
<1>6. RequestInv'
  BY <1>1, <1>2, <1>3, <1>4 DEF RequestInv, RoundTypeOK
<1>7. RunningInv'
  BY <1>1, <1>3 DEF RunningInv
<1>8. StillKicking'
  <2>1. Allowed' = Allowed
    BY <1>1, <1>4 DEF Allowed
  <2> QED
    BY <1>1, <1>3, <2>1 DEF StillKicking
<1>9. SeenInv'
  <2>1. Armed' = Armed /\ Seen' = Seen
    BY <1>1, <1>3 DEF Armed, Seen
  <2> QED
    BY <1>1, <1>3, <2>1 DEF SeenInv
<1> QED
  BY <1>5, <1>6, <1>7, <1>8, <1>9

(* Vision's publication, at least one frame of motion after the last.      *)
LEMMA VisionPublishStep ==
  ASSUME RoundInv, VisionPublish
  PROVE  RoundInv'
<1> USE DEF RoundInv
<1>1. /\ vpc = "publish" /\ vpc' = "receive" /\ mpc' = mpc /\ ticks' = 0
      /\ vis' = vis /\ kick_type_' = kick_type_ /\ kick' = kick
      /\ starts' = starts /\ frames' = frames /\ node' = node
  BY DEF VisionPublish
<1>2. /\ ticks \in Nat /\ ticks > 0 /\ MaxMotion \in Nat /\ MaxMotion >= 1
      /\ ticks + (IF mpc = "receive" THEN 0 ELSE 1) <= MaxMotion
  BY MotionRateAssumption DEF VisionPublish, RoundTypeOK, RateInv
<1>3. /\ sync' \in Request /\ sync'.kick_type_ = vis.kick_type_
      /\ sync'.kick_running_ = sync.kick_running_
  <2>1. sync' = [sync EXCEPT !.kick_type_ = vis.kick_type_]
    BY DEF VisionPublish
  <2>2. sync \in Request /\ vis.kick_type_ \in {"NO_KICK", "STRAIGHT"}
    BY DEF RoundTypeOK, Request
  <2> QED
    BY <2>1, <2>2 DEF Request
<1>4. /\ Over' = Over /\ InSync' = Publishing /\ Received' = Received /\ ~Publishing'
  BY <1>1, <1>3 DEF Over, InSync, Received, Publishing
<1>5. RoundTypeOK'
  BY <1>1, <1>3 DEF RoundTypeOK, TypeOK
<1>6. KeyframeInv' /\ OneKickPerVisit'
  BY <1>1 DEF KeyframeInv, OneKickPerVisit
<1>7. RateInv'
  BY <1>1, <1>2 DEF RateInv
<1>8. /\ Publications \in -1..4 /\ Publications' \in -1..4
      /\ Publications' = Publications + (IF Publishing THEN 1 ELSE 0)
      /\ Publishing => Publications' >= 1
  <2>1. /\ Publications = (IF frames < 4 THEN frames ELSE 4) - (IF Publishing THEN 1 ELSE 0)
        /\ Publications' = (IF frames < 4 THEN frames ELSE 4) - 0
    BY <1>1, <1>4 DEF Publications
  <2>2. frames \in 0..11 /\ (Publishing => frames # 0)
    BY DEF RoundTypeOK, RequestInv, Publishing
  <2> QED
    BY <2>1, <2>2
<1>9. RequestInv'
  <2>1. starts # 0 \/ Received \/ Publishing => Publications' >= 1
    BY <1>8 DEF RequestInv
  <2> QED
    BY <1>1, <1>4, <2>1 DEF RequestInv, Publishing
<1>10. RunningInv'
  BY <1>1, <1>3, <1>4 DEF RunningInv
<1>11. StillKicking'
  <2>1. ASSUME starts # 0, Publishing, kick.seq # NULL
        PROVE  Age(kick) <= Allowed'
    <3> DEFINE P == (Publications - 1) * MaxMotion
               Q == (Publications' - 1) * MaxMotion
               e == IF mpc = "publish" THEN 1 ELSE 0
    <3>1. /\ Publications \in 1..4 /\ Publications' \in 1..4 /\ Publications < Publications'
          /\ Age(kick) <= Allowed /\ Age(kick) \in Nat
      BY <1>8, <2>1, AgeType DEF RequestInv, StillKicking
    <3>2. P \in Nat /\ Q \in Nat /\ P + MaxMotion <= Q
      BY <1>2, <3>1, Periods
    <3>3. Allowed = P + ticks + e /\ Allowed' = Q + 0 + e
      BY <1>1 DEF Allowed
    <3>4. ticks + e <= MaxMotion /\ e \in {0, 1}
      BY <1>2 DEF RoundTypeOK
    <3> HIDE DEF P, Q, e
    <3> QED
      BY <1>2, <3>1, <3>2, <3>3, <3>4
  <2> QED
    BY <1>1, <1>4, <2>1 DEF StillKicking
<1>12. SeenInv'
  <2>1. Armed' = Armed /\ Seen' = Seen
    BY <1>1, <1>3, <1>4 DEF Armed, Seen
  <2>2. ASSUME frames > 3 PROVE Armed /\ (starts = 0 => Publishing)
    <3>1. CASE Publishing
      BY <1>2, <2>2, <3>1 DEF SeenInv, RequestInv
    <3>2. CASE ~Publishing
      BY <1>2, <2>2, <3>2 DEF SeenInv, Seen
    <3> QED
      BY <3>1, <3>2
  <2>3. ASSUME frames > 6 PROVE Seen
    BY <1>2, <2>3 DEF SeenInv, RequestInv, RoundTypeOK
  <2> QED
    BY <1>1, <1>4, <2>1, <2>2, <2>3 DEF SeenInv
<1> QED
  BY <1>5, <1>6, <1>7, <1>9, <1>10, <1>11, <1>12

(* The first state, and every step.                                        *)
LEMMA RoundInvariant == RoundSpec => []RoundInv
<1>1. RoundInit => RoundInv
  <2> SUFFICES ASSUME RoundInit PROVE RoundInv
    OBVIOUS
  <2>1. /\ sync = NoRequest /\ vis = NoRequest /\ mpc = "receive" /\ vpc = "receive"
        /\ node = "before" /\ frames = 0 /\ ticks = 0 /\ starts = 0
        /\ kick_type_ = "NO_KICK"
    BY DEF RoundInit
  <2>2. TypeOK /\ kick.seq = NULL /\ kick.state = "Finished"
    BY InitTypeOK DEF RoundInit, Init
  <2>3. NoRequest \in Request /\ NoRequest.kick_type_ = "NO_KICK" /\ NoRequest.kick_running_ = FALSE
    BY DEF NoRequest, Request
  <2>4. Over /\ ~InSync /\ ~Received /\ ~Publishing
    BY <2>1, <2>2, <2>3 DEF Over, InSync, Received, Publishing
  <2>5. RoundTypeOK /\ KeyframeInv /\ OneKickPerVisit
    BY <2>1, <2>2, <2>3 DEF RoundTypeOK, KeyframeInv, OnTime, OneKickPerVisit
  <2>6. RateInv /\ RequestInv /\ RunningInv /\ StillKicking /\ SeenInv
    BY <2>1, <2>2, <2>3, <2>4, MotionRateAssumption
    DEF RateInv, RequestInv, RunningInv, StillKicking, SeenInv
  <2> QED
    BY <2>5, <2>6 DEF RoundInv
<1>2. RoundInv /\ [RoundNext]_roundVars => RoundInv'
  <2>1. ASSUME RoundInv, UNCHANGED roundVars PROVE RoundInv'
    BY <2>1 DEF roundVars, vars, RoundInv, RoundTypeOK, TypeOK, KeyframeInv, RateInv, RequestInv,
                RunningInv, StillKicking, SeenInv, OneKickPerVisit, Armed, Seen, Over, InSync,
                Received, Publishing, Publications, Allowed
  <2> QED
    BY <2>1, ReceiveStep, ProcessStep, PublishStep, VisionReceiveStep, RunNodeStep,
       RunOtherStep, VisionPublishStep DEF RoundNext, MotionNext, VisionNext
<1> QED
  BY <1>1, <1>2, PTL DEF RoundSpec

(* One visit of the Kick node starts one kick and is left when that is     *)
(* over, for every kick that takes longer than the node asks for it, every *)
(* rate at which motion runs at least once per frame of vision and every   *)
(* way of counting on by at most three frames.                             *)
THEOREM OneKick == RoundSpec => []OneKickPerVisit
<1>1. RoundInv => OneKickPerVisit
  BY DEF RoundInv
<1> QED
  BY <1>1, RoundInvariant, PTL
=============================================================================
