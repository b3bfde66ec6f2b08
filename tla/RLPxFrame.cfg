INIT Init
NEXT Next
CONSTANTS
  Codes <- MCCodes
  Sizes <- MCSizesEdge
  MaxMsgs = 2
  LenMax = 7
  SizeMod = 16
  Block = 4
  MaxAttacks = 1
INVARIANTS
  TypeOK
  Integrity
  ChainInStep
