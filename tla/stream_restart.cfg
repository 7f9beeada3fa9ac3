\* The restart of the server after a connection has died.
CONSTANTS
  MaximumFailedMessages = 1
  AcceptResults = {"ok"}
SPECIFICATION FairSpec
PROPERTY ServerRestarts
CHECK_DEADLOCK FALSE
