SPECIFICATION FairSpec
CONSTANTS
  Bumpers = {"left"}
  ToolStates = {"PLAYING"}
  MinClick = 1
  MaxClick = 1
  MaxInterval = 1
  Second = 2
  MaxPresses = 7
INVARIANTS
  ResultCountsClicks
  TaskFitsState
PROPERTIES
  ClickAdvancesState
  ClicksReported
