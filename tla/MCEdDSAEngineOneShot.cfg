CONSTANTS
  p = p
  q = q
  other = other
  b = b
  c = c
  Pairs = {p, q, other}
  Algorithm <- MCAlgorithm
  Byte = {b, c}
  Arrays = {a1, a2}
  NoPair = NoPair
  NoArray = NoArray
  NoSignature = NoSignature
  Truncated = Truncated
  Signatures <- MCSignatures
  Supported = {"SHA-512", "SHA-256"}
  Foreign = Foreign
  NoDigest = NoDigest
  Messages <- MCMessages
  MaxBuffered = 2
SPECIFICATION Spec
PROPERTY
  OneShotRefusesUpdate
