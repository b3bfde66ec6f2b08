\* Safety and termination of the transport: doProtoHandshake, close and the protocol writers.
CONSTANTS
  SnappyVersion = 5
  MaxData = 4
  None = None
  Versions <- MCVersionsNew
SPECIFICATION Spec
INVARIANTS
  TypeOK
  FramesNotInterleaved
  EarlyDiscReported
PROPERTIES
  HandshakeReturns
