\* Three clients, two handshakes at a time, one place in the ready queue.
CONSTANTS
  Clients = {c1, c2, c3}
  Kinds = {"TCP", "TCPGroup", "WebSocket", "QUIC"}
  MaxHandshakes = 2
  MaxPending = 1
SPECIFICATION Spec
INVARIANTS HandshakesAccounted
PROPERTIES  CloseReleases
\* Every client goes in the end.
CHECK_DEADLOCK FALSE
