\* The S256 suite: crypto.Keccak256 returns nil, so newRLPXFrameRW panics.
CONSTANTS
  A = A
  B = B
  M = M
  Nodes <- MCNodes
  Versions = {15}
  CertLens = {0}
  CertSizeMod = 4
  CryptoType = "S256"
  None = None
  Junk = Junk
  Forgers = {"ini"}
INIT Init
NEXT Next
INVARIANT FrameSecretsValid
