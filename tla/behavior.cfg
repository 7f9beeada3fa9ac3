\* Every behaviour, through falls and changes of state.  One unit is one frame.
CONSTANTS
  Behaviors = {"sample", "kick", "walk_kick", "keeper"}
  States = {"INITIAL", "READY", "PLAYING", "PENALISED", "FINISHED"}
  T07 = 2
  T2 = 8
  T3 = 9
  T5 = 11
  Ramp = 2
  KickTime = 24
SPECIFICATION FairSpec
INVARIANT BehaviorInv
PROPERTIES LimpOnlyWhenSeated PoseIsHeld VisitIsFresh TasksFinish
