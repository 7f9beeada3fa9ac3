\* A kick from the behaviour to the joints.
CONSTANTS
  Sequences <- LongKicks
  Loads = {TRUE}
  NULL = NULL
  MinMotion = 1
  MaxMotion = 2
  MaxSkip = 3
SPECIFICATION FairRound
INVARIANT OneKickPerVisit
PROPERTY NodeCompletes
