\* Walk requests, poses and getups racing motion's write-back.
CONSTANTS
  noTarget = noTarget
  ball = ball
  defaults = defaults
  sprint = sprint
  NoTarget = noTarget
  NoParams = defaults
  Postures = {"NONE", "STAND"}
  Speeds = {1}
  Targets = {noTarget}
  Feet = {TRUE}
  Tilts = {0, 1}
  WalkTypes = {"RS2014"}
  Poses = {"pose"}
  KickCommands = {}
  ParamSets = {defaults}
  GetupStands = {FALSE, TRUE}
  MaxTravel = 0
  MaxConsumed = 0
  MaxFallen = 3
SPECIFICATION Spec
INVARIANTS VisionOwnsRequest SyncCurrentUnlessRaced PoseComesWithNoWalk
