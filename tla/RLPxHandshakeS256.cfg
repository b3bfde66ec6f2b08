\* The S256 suite: SigToPub recovers the signer of the digest.
CONSTANTS
  A = A
  B = B
  M = M
  Nodes <- MCNodes
  Versions = {15}
  CertLens = {0, 1}
  CertSizeMod = 4
  CryptoType = "S256"
  None = None
  Junk = Junk
  Forgers = {"ini", "rcv"}
INIT Init
NEXT Next
SYMMETRY NodeSymmetry
INVARIANT EphemeralBinding
