\* A deadline between the wake-up and the run of a room waiter.
CONSTANTS
  r1 = r1
  r2 = r2
  r3 = r3
  r4 = r4
  s1 = s1
  Requests = {r1, r2, r3}
  Senders = {}
  Timed = {r3}
  Cancellable = {}
  WriteMode = "INLINE"
  MaxInFlight = 3
  MailboxCapacity = 1
  MaxOutboundBytes = 3
  MaxPayload = 3
  Bytes <- MCBytes
  IdMax = 9
SPECIFICATION Spec
INVARIANT NoDoubleResume
\* Every call ends and nothing is left to do.
CHECK_DEADLOCK FALSE
