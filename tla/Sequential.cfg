\* A ring of four cells that doubles once; four ids whose homes lie on both
\* sides of the end of tables of 4, 8 and 16 slots; every shape of frame
\* around the limits, cut at every place.
CONSTANTS
  Parts = {"ring", "map", "stream"}
  Items = {1, 2}
  None = None
  Initial = 4
  MaxCount = 6
  Ids = {1, 2, 3, 4}
  Values = {va, vb}
  Null = Null
  TableSize = 4
  HashCodes = {0, 6, 7, 15}
  HeaderSize = 2
  PrefixSize = 1
  MaxExt = 1
  MaxPayload = 2
  MaxMessage = 6
  MaxOut = 2
  MaxChunk = 1
  Streams <- MCStreams
SPECIFICATION FairSpec
INVARIANTS TableSound SplitIndependent StrictExactly MemoryBounded
PROPERTIES RingIsFifo MapContract DecodingEnds
\* A stream ends, or its first bad frame ends the read loop.
CHECK_DEADLOCK FALSE
