\* Safety and termination of the encryption handshake and certificate exchange, P256 suite.
CONSTANTS
  A = A
  B = B
  M = M
  Nodes <- MCNodes
  Versions = {15, 16}
  CertLens = {0, 1, 2, 5}
  CertSizeMod = 4
  CryptoType = "P256"
  None = None
  Junk = Junk
  Forgers = {"ini"}
SPECIFICATION MCSpec
INVARIANTS
  TypeOK
  KeyAgreement
  VersionGate
PROPERTIES
  Termination
