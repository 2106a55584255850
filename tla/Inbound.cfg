\* One place in each inbound queue; the handler may take for ever.
CONSTANTS
  InboundCapacity = 1
  FirstRequired = TRUE
  MaxRequests = 4
  MaxOneWays = 2
  MaxReverse = 1
SPECIFICATION FairSpec
INVARIANTS HandledInOrder FirstPacketGate
PROPERTIES QueueAsSpecified QuietAfterClose ResponsesOvertakeHandler
\* Both loops end for good.
CHECK_DEADLOCK FALSE
