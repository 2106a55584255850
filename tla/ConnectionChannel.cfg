\* CHANNEL with a request that has a deadline and may be cancelled, an empty and an oversize one.
CONSTANTS
  r1 = r1
  r2 = r2
  r3 = r3
  r4 = r4
  s1 = s1
  Requests = {r1, r2, r4}
  Senders = {s1}
  Timed = {r2}
  Cancellable = {r2}
  WriteMode = "CHANNEL"
  MaxInFlight = 2
  MailboxCapacity = 1
  MaxOutboundBytes = 2
  MaxPayload = 2
  Bytes <- MCBytesMixed
  IdMax = 9
SPECIFICATION FairSpec
INVARIANTS OutboundSafe
PROPERTIES RequestContract DeadlineBoundsCall CloseEndsCalls
\* Every call ends and nothing is left to do.
CHECK_DEADLOCK FALSE
