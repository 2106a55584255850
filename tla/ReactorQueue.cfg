\* The reactor may refuse resumes at any moment.
CONSTANTS
  Capacity = 2
  MaxItems = 4
  MayStop = TRUE
SPECIFICATION FairSpec
INVARIANTS FifoNoLoss NoLostWakeup
PROPERTIES ChannelContract LoopsWoken
\* Both loops end for good.
CHECK_DEADLOCK FALSE
