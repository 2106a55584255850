\* A handler calls back while more requests arrive than the queue holds.
CONSTANTS
  InboundCapacity = 1
  FirstRequired = FALSE
  MaxRequests = 3
  MaxOneWays = 0
  MaxReverse = 1
SPECIFICATION PromptSpec
PROPERTY ReverseCallReturns
\* Both loops end for good.
CHECK_DEADLOCK FALSE
