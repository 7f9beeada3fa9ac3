\* The tool's packets against the vision thread.
CONSTANTS
  FrameCounts = {0, 1, 2}
  UIntRange = 8
  MaxWritten = 4
SPECIFICATION FairSpec
INVARIANTS LoggingHasFile FramesAccounted
PROPERTY LogEndAnswered
