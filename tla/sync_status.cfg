\* Kick status, parameters, walk type and displacement, each set by one side and
\* taken by the other.
CONSTANTS
  noTarget = noTarget
  ball = ball
  defaults = defaults
  sprint = sprint
  NoTarget = noTarget
  NoParams = defaults
  Postures = {"STAND"}
  Speeds = {}
  Targets = {noTarget}
  Feet = {}
  Tilts = {0}
  WalkTypes = {"RS2014"}
  Poses = {}
  KickCommands = {"STRAIGHT"}
  ParamSets = {defaults, sprint}
  GetupStands = {FALSE}
  MaxTravel = 1
  MaxConsumed = 2
  MaxFallen = 3
SPECIFICATION Spec
INVARIANTS KickStatusTruthful ParamsNeverLost OdometryConserved
