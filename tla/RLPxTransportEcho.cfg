\* A peer disconnects during the protocol handshake; does close echo its reason?
CONSTANTS
  SnappyVersion = 5
  MaxData = 0
  None = None
  Versions <- MCVersionsNew
SPECIFICATION Spec
INVARIANTS
  NoDiscEcho
