\* The P256 suite: SigToPub returns the key appended to the signature.
CONSTANTS
  A = A
  B = B
  M = M
  Nodes <- MCNodes
  Versions = {15}
  CertLens = {0}
  CertSizeMod = 4
  CryptoType = "P256"
  None = None
  Junk = Junk
  Forgers = {"ini"}
INIT Init
NEXT Next
INVARIANT EphemeralBinding
