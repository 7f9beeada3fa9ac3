\* Frames and head commands between the DCM callbacks and motion, with exits
\* and restarts, and the progress of both sides.
CONSTANTS
  MaxFrame = 2
  MaxAngle = 4
  Readings = {0, 3}
  Commands <- HeadCommands
  HeadOffset = 2
  Exits = {"signal", "kill"}
SPECIFICATION FairSpec
INVARIANT LoopInv
PROPERTIES FramesAdvance SentAsMeant MotionKeepsUp CallbacksEnd
