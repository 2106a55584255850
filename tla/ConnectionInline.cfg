\* INLINE safety with deadlines and cancellation; ids run out after two
\* requests.
CONSTANTS
  r1 = r1
  r2 = r2
  r3 = r3
  r4 = r4
  s1 = s1
  Requests = {r1, r2, r3}
  Senders = {s1}
  Timed = {r1, r2}
  Cancellable = {r1, r2, s1}
  WriteMode = "INLINE"
  MaxInFlight = 1
  MailboxCapacity = 1
  MaxOutboundBytes = 3
  MaxPayload = 3
  Bytes <- MCBytes
  IdMax = 2
SPECIFICATION Spec
INVARIANTS ConnInv BytesAccounted SingleWriter WireIntact Released Correlated NoStrandedWaiter
PROPERTIES RequestContract
\* Every call ends and nothing is left to do.
CHECK_DEADLOCK FALSE
