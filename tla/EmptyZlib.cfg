\* An empty payload, compressed with zlib and received on the JVM.
CONSTANTS
  Parts = {"stream"}
  Items = {1, 2}
  None = None
  Initial = 4
  MaxCount = 6
  Ids = {1, 2, 3, 4}
  Values = {va, vb}
  Null = Null
  TableSize = 4
  HashCodes = {0, 6, 7, 15}
  HeaderSize = 2
  PrefixSize = 1
  MaxExt = 1
  MaxPayload = 2
  MaxMessage = 6
  MaxOut = 2
  MaxChunk = 1
  Streams <- MCStreams
SPECIFICATION Spec
INVARIANT EmptyPayloadRoundTrips
\* A stream ends, or its first bad frame ends the read loop.
CHECK_DEADLOCK FALSE
