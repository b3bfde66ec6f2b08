\* A sealed auth message whose plaintext is not valid RLP: decodePlain panics.
CONSTANTS
  A = A
  B = B
  M = M
  Nodes <- MCNodes
  Versions = {15}
  CertLens = {0}
  CertSizeMod = 4
  CryptoType = "P256"
  None = None
  Junk = Junk
  Forgers = {"ini", "rcv"}
INIT Init
NEXT Next
INVARIANT NoPanic
