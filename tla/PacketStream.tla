---------------------------- MODULE PacketStream ----------------------------
(***************************************************************************)
(* How the bytes of a stream become packets: the incremental decoders of   *)
(* PacketCodec (TCP), LengthPrefixedPacketCodec (QUIC) and                 *)
(* WebSocketPacketStream.read, called over a buffer that the socket fills  *)
(* in pieces of any size, and the decompression of each payload in the     *)
(* read loop.  Sizes are in units; what the bytes say is left out.         *)
(***************************************************************************)
EXTENDS Naturals, Sequences, FiniteSetsExt

CONSTANTS
  HeaderSize, PrefixSize,   \* FIXED_HEADER_SIZE, PREFIX
  MaxExt,                   \* the largest extHeaderLen a u16 can say
  MaxPayload,               \* maxPayloadLength
  MaxMessage,               \* maxMessageSize of the WebSocket
  MaxOut,                   \* maxDecompressedPayloadLength
  MaxChunk,                 \* the decompressors' working chunk
  Streams                   \* per framing, the frame sequences a peer may send

ASSUME SizesAssumption ==
  /\ {HeaderSize, PrefixSize, MaxExt, MaxPayload, MaxMessage, MaxOut, MaxChunk} \subseteq Nat
  /\ HeaderSize > 0 /\ PrefixSize > 0

(* A frame as its sender wrote it: ext and payload are the lengths in the  *)
(* packet's header, valid says that version, compression and type are      *)
(* known codes, length is what the QUIC prefix says or the size of the     *)
(* WebSocket message.  A compressed payload holds the first payload units  *)
(* of a compressed stream of `stream' units, and junk after them; it       *)
(* expands to plain units.  sound is false for data the codec refuses.     *)
Frames ==
  [binary : BOOLEAN, valid : BOOLEAN, ext : 0 .. MaxExt, payload : Nat, length : Nat,
   codec : {"None", "ZlibNative", "ZlibJvm", "Zstd"}, stream : Nat, plain : Nat, sound : BOOLEAN]

ASSUME StreamsAssumption ==
  /\ DOMAIN Streams \subseteq {"Packets", "LengthPrefixed", "WebSocket"}
  /\ \A x \in DOMAIN Streams : \A s \in Streams[x] : s \in Seq(Frames)

VARIABLES
  framing,      \* "Packets", "LengthPrefixed" or "WebSocket"
  frames,       \* what the peer sends
  arrived,      \* units read from the socket so far
  consumed,     \* units the decoder took out of the buffer so far
  decoded,      \* packets the decoder returned
  delivered,    \* packets handed on by the read loop, as indices into frames
  pc,           \* "decode", "read", "inflate", "rejected" or "end"
  eaten, made   \* decompression under way: input consumed, output produced
streamVars == <<framing, frames, arrived, consumed, decoded, delivered, pc, eaten, made>>

PacketSize(f) == HeaderSize + f.ext + f.payload

(* encode(): the prefix is the packet's size, a message is one packet. *)
Encode(f) == [f EXCEPT !.length = PacketSize(f)]

WireSize(f) ==
  CASE framing = "Packets" -> PacketSize(f)
    [] framing = "LengthPrefixed" -> PrefixSize + f.length
    [] framing = "WebSocket" -> f.length

(* Units of the first n frames. *)
UpTo(n) ==
  LET sum[k \in 0 .. Len(frames)] == IF k = 0 THEN 0 ELSE sum[k - 1] + WireSize(frames[k])
  IN  sum[n]

StreamInit ==
  /\ framing \in DOMAIN Streams
  /\ frames \in Streams[framing]
  /\ arrived = 0 /\ consumed = 0 /\ decoded = 0 /\ delivered = <<>>
  /\ pc = "decode"
  /\ eaten = 0 /\ made = 0

Buffered == arrived - consumed
Current == frames[decoded + 1]

-----------------------------------------------------------------------------
(* Takes a packet that is one unit short. *)
DecodePacketShort(f, n) ==
  CASE n < HeaderSize -> "need"
    [] n >= HeaderSize /\ (~f.valid \/ f.payload > MaxPayload) -> "reject"
    [] n >= HeaderSize /\ f.valid /\ f.payload <= MaxPayload ->
         IF n + 1 < PacketSize(f) THEN "need" ELSE "packet"

(* Looks at the claimed length only when all of it is there. *)
DecodePacketLate(f, n) ==
  CASE n < HeaderSize -> "need"
    [] n >= HeaderSize /\ ~f.valid -> "reject"
    [] n >= HeaderSize /\ f.valid ->
         IF n < PacketSize(f) THEN "need"
         ELSE IF f.payload > MaxPayload THEN "reject" ELSE "packet"

(* PacketCodec.decode on a buffer of n units. *)
DecodePacket(f, n) ==
  CASE n < HeaderSize -> "need"
    [] n >= HeaderSize /\ (~f.valid \/ f.payload > MaxPayload) -> "reject"
    [] n >= HeaderSize /\ f.valid /\ f.payload <= MaxPayload ->
         IF n < PacketSize(f) THEN "need" ELSE "packet"

(* LengthPrefixedPacketCodec.decode.  The packet must fill its frame. *)
MaxFrame == HeaderSize + MaxExt + MaxPayload

(* Takes a packet that is shorter than its frame. *)
DecodeFrameLoose(f, n) ==
  CASE n < PrefixSize -> "need"
    [] n >= PrefixSize /\ f.length > MaxFrame -> "reject"
    [] n >= PrefixSize /\ f.length <= MaxFrame ->
         IF n - PrefixSize < f.length THEN "need"
         ELSE IF f.length < HeaderSize \/ PacketSize(f) > f.length THEN "reject"
         ELSE IF DecodePacket(f, n - PrefixSize) = "packet" THEN "packet" ELSE "reject"

DecodeFrame(f, n) ==
  CASE n < PrefixSize -> "need"
    [] n >= PrefixSize /\ f.length > MaxFrame -> "reject"
    [] n >= PrefixSize /\ f.length <= MaxFrame ->
         IF n - PrefixSize < f.length THEN "need"
         ELSE IF f.length < HeaderSize \/ PacketSize(f) # f.length THEN "reject"
         ELSE IF DecodePacket(f, n - PrefixSize) = "packet" THEN "packet" ELSE "reject"

Verdict(f) ==
  IF framing = "LengthPrefixed" THEN DecodeFrame(f, Buffered) ELSE DecodePacket(f, Buffered)

(* Nothing is under way any more. *)
Exhausted ==
  IF framing = "WebSocket" THEN decoded = Len(frames) ELSE arrived = UpTo(Len(frames))

(* decode() in the read loop's receiveEach. *)
DecodeNeeds ==
  /\ pc = "decode"
  /\ Buffered = 0 \/ Verdict(Current) = "need"
  /\ pc' = IF Exhausted THEN "end" ELSE "read"
  /\ UNCHANGED <<framing, frames, arrived, consumed, decoded, delivered, eaten, made>>

DecodeRejects ==
  /\ pc = "decode"
  /\ Buffered > 0 /\ Verdict(Current) = "reject"
  /\ pc' = "rejected"
  /\ UNCHANGED <<framing, frames, arrived, consumed, decoded, delivered, eaten, made>>

DecodeReturns ==
  /\ pc = "decode"
  /\ Buffered > 0 /\ Verdict(Current) = "packet"
  /\ consumed' = consumed + PacketSize(Current)
                   + (IF framing = "LengthPrefixed" THEN PrefixSize ELSE 0)
  /\ decoded' = decoded + 1
  /\ IF Current.codec = "None"
       THEN delivered' = Append(delivered, decoded + 1) /\ UNCHANGED pc
       ELSE pc' = "inflate" /\ UNCHANGED delivered
  /\ eaten' = 0 /\ made' = 0
  /\ UNCHANGED <<framing, frames, arrived>>

(* The socket gives any part of what is under way. *)
Read ==
  /\ pc = "read" /\ framing # "WebSocket"
  /\ arrived' \in arrived + 1 .. UpTo(Len(frames))
  /\ pc' = "decode"
  /\ UNCHANGED <<framing, frames, consumed, decoded, delivered, eaten, made>>

(* WebSocketPacketStream.read: one whole message, which must be binary and *)
(* hold exactly one packet.  The WebSocket itself refuses a larger one.    *)
OnePacket(f) ==
  f.binary /\ f.length <= MaxMessage /\ f.length >= HeaderSize /\ PacketSize(f) = f.length

ReadMessage ==
  /\ pc = "read" /\ framing = "WebSocket"
  /\ IF OnePacket(Current)
       THEN arrived' = arrived + Current.length /\ pc' = "decode"
       ELSE pc' = "rejected" /\ UNCHANGED arrived
  /\ UNCHANGED <<framing, frames, consumed, decoded, delivered, eaten, made>>

-----------------------------------------------------------------------------
(* PayloadCompression.decompress of the packet just decoded: the loops of  *)
(* the three decompressors around their streaming codec.                   *)
Packed == frames[decoded]
Room == Min({MaxOut - made, MaxChunk}) + 1

(* What one call of the codec may do with room for r units: it stops for   *)
(* want of room or of input, or at the end of the stream.                  *)
Ended(e, p) == eaten + e = Packed.stream /\ made + p = Packed.plain

CodecCall(r, e, p) ==
  /\ eaten + e <= Min({Packed.payload, Packed.stream})
  /\ p <= r /\ made + p <= Packed.plain
  /\ IF Packed.payload >= Packed.stream
       THEN p = Min({r, Packed.plain - made}) /\ (made + p = Packed.plain => Ended(e, p))
       ELSE p = r \/ eaten + e = Packed.payload

(* ZlibCodec.native: Z_OK needs progress, or the code is Z_BUF_ERROR. *)
ZlibNativeTurn(e, p) ==
  IF Ended(e, p) THEN (IF eaten + e < Packed.payload THEN "reject" ELSE "done")
  ELSE IF e = 0 /\ p = 0 THEN "reject"
  ELSE IF p = 0 /\ eaten + e = Packed.payload THEN "reject"
  ELSE "again"

(* ZlibCodec.jvm: Inflater.needsInput() is asked before finished(). *)
ZlibJvmTurn(e, p) ==
  IF p = 0 /\ eaten + e = Packed.payload THEN "reject"
  ELSE IF ~Ended(e, p) THEN "again"
  ELSE IF eaten + e < Packed.payload THEN "reject" ELSE "done"

(* Does not notice that the codec is stuck. *)
ZstdTurnPatient(e, p) ==
  IF ~Ended(e, p) THEN "again"
  ELSE IF eaten + e # Packed.payload THEN "reject" ELSE "done"

(* ZstdCodec, both bindings. *)
ZstdTurn(e, p) ==
  IF ~Ended(e, p) THEN (IF e = 0 /\ p = 0 THEN "reject" ELSE "again")
  ELSE IF eaten + e # Packed.payload THEN "reject" ELSE "done"

Turn(e, p) ==
  CASE Packed.codec = "ZlibNative" -> ZlibNativeTurn(e, p)
    [] Packed.codec = "ZlibJvm" -> ZlibJvmTurn(e, p)
    [] Packed.codec = "Zstd" -> ZstdTurn(e, p)

(* The output limit is looked at before anything else the call returned. *)
Exceeds(p) == made + p > MaxOut

InflateRejects ==
  /\ pc = "inflate"
  /\ \/ Packed.payload = 0
     \/ /\ Packed.payload > 0
        /\ ~Packed.sound
     \/ /\ Packed.payload > 0 /\ Packed.sound
        /\ \E e \in 0 .. Packed.payload, p \in 0 .. Room :
             CodecCall(Room, e, p) /\ (Exceeds(p) \/ Turn(e, p) = "reject")
  /\ pc' = "rejected"
  /\ UNCHANGED <<framing, frames, arrived, consumed, decoded, delivered, eaten, made>>

InflateTurn ==
  /\ pc = "inflate"
  /\ Packed.payload > 0 /\ Packed.sound
  /\ \E e \in 0 .. Packed.payload, p \in 0 .. Room :
       /\ CodecCall(Room, e, p) /\ ~Exceeds(p)
       /\ eaten' = eaten + e /\ made' = made + p
       /\ \/ Turn(e, p) = "again" /\ UNCHANGED <<pc, delivered>>
          \/ /\ Turn(e, p) = "done"
             /\ pc' = "decode" /\ delivered' = Append(delivered, decoded)
  /\ UNCHANGED <<framing, frames, arrived, consumed, decoded>>

(* The steps of the read loop itself, which the reactor keeps running. *)
Decoding == DecodeNeeds \/ DecodeRejects \/ DecodeReturns \/ InflateRejects \/ InflateTurn

StreamNext == Decoding \/ Read \/ ReadMessage

StreamSpec == StreamInit /\ [][StreamNext]_streamVars

-----------------------------------------------------------------------------
(* What a strict receiver accepts, without a decoder: the reference. *)
Framed(f) ==
  CASE framing = "Packets" -> TRUE
    [] framing = "LengthPrefixed" -> f.length = PacketSize(f)
    [] framing = "WebSocket" -> f.length = PacketSize(f) /\ f.binary /\ f.length <= MaxMessage

Inflatable(f) ==
  f.codec = "None" \/ (f.sound /\ f.payload > 0 /\ f.payload = f.stream /\ f.plain <= MaxOut)

(* An empty zlib payload on the JVM, see EmptyPayloadRoundTrips. *)
EmptyOnJvm(f) == f.codec = "ZlibJvm" /\ f.plain = 0

Acceptable(f) == f.valid /\ f.payload <= MaxPayload /\ Framed(f) /\ Inflatable(f)

(* Wherever the stream is cut, the frames that arrived whole are handed on *)
(* in order, once each and without loss, and the decoder stands at the     *)
(* next frame's first byte: nothing complete stays in the buffer while the *)
(* loop waits for the socket.                                              *)
SplitIndependent ==
  /\ consumed = UpTo(decoded) /\ consumed <= arrived
  /\ delivered = [i \in 1 .. Len(delivered) |-> i]
  /\ pc \in {"read", "end"} =>
       /\ Len(delivered) = decoded
       /\ Buffered > 0 => arrived < UpTo(decoded + 1)

(* "Decoding is strict": the connection is ended by a frame the wire       *)
(* format or the limits forbid, and by no other; what is handed on obeys   *)
(* both, however the bytes arrived and the decompressor was driven.        *)
StrictExactly ==
  /\ \A i \in 1 .. Len(delivered) : Acceptable(frames[delivered[i]])
  /\ pc = "rejected" =>
       LET f == frames[Len(delivered) + 1] IN ~Acceptable(f) \/ EmptyOnJvm(f)

(* "rejected ... before it is buffered", "without allocating an            *)
(* attacker-controlled buffer": the loop never waits for more than one     *)
(* frame of legal size, and a decompressor never has more than the limit.  *)
MemoryBounded ==
  /\ pc = "read" =>
       Buffered < MaxFrame + (IF framing = "LengthPrefixed" THEN PrefixSize ELSE 0)
  /\ made <= MaxOut

(* "truncated", "made no progress": the decoding of what arrived ends,     *)
(* whatever the decompressor is fed.                                       *)
DecodingEnds == [](pc = "inflate" => <>(pc # "inflate"))

(* "with the same output bound and failure messages": a payload that the   *)
(* compressor wrote within the limits is never refused, the empty one      *)
(* included.                                                               *)
EmptyPayloadRoundTrips ==
  pc = "rejected" => ~Acceptable(frames[Len(delivered) + 1])
=============================================================================
