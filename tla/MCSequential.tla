---------------------------- MODULE MCSequential ----------------------------
(***************************************************************************)
(* The sequential parts for TLC, one at a time: Ring, IdMap and            *)
(* PacketStream.                                                           *)
(***************************************************************************)
EXTENDS Ring, IdMap, PacketStream

(* Streams of two frames: one of every shape on either side of the limits, *)
(* before or after a good one.                                             *)
Plain(e, n) ==
  [binary |-> TRUE, valid |-> TRUE, ext |-> e, payload |-> n, length |-> HeaderSize + e + n,
   codec |-> "None", stream |-> 0, plain |-> 0, sound |-> TRUE]

Good == Encode(Plain(1, 1))

Plains == {Plain(e, n) : e \in 0 .. MaxExt, n \in 0 .. MaxPayload + 2}

Compressed ==
  {[Plain(0, n) EXCEPT !.codec = c, !.stream = s, !.plain = p, !.sound = b] :
     n \in 0 .. MaxPayload, c \in {"ZlibNative", "ZlibJvm", "Zstd"},
     s \in 1 .. MaxPayload, p \in 0 .. MaxOut + 2, b \in BOOLEAN}

Misframed ==
  {[f EXCEPT !.length = n] : f \in Plains, n \in 0 .. HeaderSize + MaxExt + MaxPayload + 2}

Shapes ==
  [Packets |-> Plains \cup {[f EXCEPT !.valid = FALSE] : f \in Plains} \cup Compressed,
   LengthPrefixed |-> Misframed \cup {[Good EXCEPT !.valid = FALSE]},
   WebSocket |-> Misframed \cup {[Good EXCEPT !.valid = FALSE], [Good EXCEPT !.binary = FALSE]}]

MCStreams ==
  [x \in DOMAIN Shapes |-> {<<f, Good>> : f \in Shapes[x]} \cup {<<Good, f>> : f \in Shapes[x]}]

-----------------------------------------------------------------------------
CONSTANT Parts             \* what the run looks at: some of "ring", "map", "stream"

VARIABLE part
vars == <<part, ringVars, mapVars, streamVars>>

(* Of a part that is not looked at one initial state is enough.  Ids are   *)
(* interchangeable, so their hash codes may be taken in order.             *)
Init ==
  /\ part \in Parts
  /\ RingInit
  /\ MapInit
  /\ IF part = "map" THEN \A i, j \in Ids : i < j => hash[i] <= hash[j]
     ELSE \A i \in Ids : hash[i] = Min(HashCodes)
  /\ StreamInit
  /\ part # "stream" => framing = "Packets" /\ frames = <<Good, Good>>

Next ==
  \/ part = "ring" /\ RingNext /\ UNCHANGED <<part, mapVars, streamVars>>
  \/ part = "map" /\ MapNext /\ UNCHANGED <<part, ringVars, streamVars>>
  \/ part = "stream" /\ StreamNext /\ UNCHANGED <<part, ringVars, mapVars>>

Spec == Init /\ [][Next]_vars

(* The reactor keeps running the read loop; the peer need not send. *)
FairSpec == Spec /\ WF_streamVars(part = "stream" /\ Decoding)
=============================================================================
