\* One client of each kind of transport is enough.
CONSTANTS
  Clients = {c1}
  Kinds = {"TCP", "TCPGroup", "WebSocket", "QUIC"}
  MaxHandshakes = 1
  MaxPending = 1
SPECIFICATION Spec
PROPERTY CancelTearsDown
CHECK_DEADLOCK FALSE
