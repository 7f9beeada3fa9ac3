\* The stream to the tool, over any number of connections.
CONSTANTS
  MaximumFailedMessages = 1
  AcceptResults = {"ok", "error"}
SPECIFICATION FairSpec
INVARIANT StreamInv
PROPERTIES FrameDelivered WaitingThreadEnds RestartsUnlessMissed
CHECK_DEADLOCK FALSE
