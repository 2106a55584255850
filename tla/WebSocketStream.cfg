\* Three packets in writes of one to three units, the last one too long.
CONSTANTS
  MaxPackets = 3
  MaxWrite = 3
  MaxCancels = 2
  MaxInbox = 2
  TooLong = {3}
SPECIFICATION FairSpec
INVARIANTS MessagesInOrder
PROPERTIES WrittenMeansSent LivePeerKept DeadPeerDetected CloseEnds
\* After abort() everything ends.
CHECK_DEADLOCK FALSE
