SPECIFICATION MCSpec
CONSTANTS
  VerifyEcdsa <- MCVerifyEcdsa
  VerifySchnorr <- MCVerifySchnorr
  ValidDer <- MCValidDer
  LowS <- MCLowS
INVARIANTS
  InBounds
  Matched
  NoneMissed
PROPERTIES
  ImplementsPromise
CHECK_DEADLOCK FALSE
