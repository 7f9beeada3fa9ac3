\* Kicks of up to four keyframes, some without a duration, or of no file at all.
CONSTANTS
  MaxKeyframes = 4
  MaxDuration = 2
  Sequences <- AllSequences
  Loads = {TRUE, FALSE}
  NULL = NULL
SPECIFICATION FairSpec
INVARIANT KeyframesInOrder
PROPERTIES HeldForDuration ImplementsKick KickEnds
