CONSTANTS
  Codes <- MCCode
  Sizes <- MCSizesFit
  MaxMsgs = 2
  LenMax = 7
  SizeMod = 16
  Block = 4
  MaxAttacks = 0
SPECIFICATION Spec
PROPERTIES
  ChannelRefined
