SPECIFICATION Spec
CONSTANTS
  EvalInputs <- TruncatedInputs
  MAX_SCRIPT_SIZE = 10000
  MAX_SCRIPT_ELEMENT_SIZE = 520
  MAX_OPS_PER_SCRIPT = 201
  MAX_STACK_SIZE = 1000
  MAX_PUBKEYS_PER_MULTISIG = 20
  MAX_NUM_SIZE = 4
  MAX_LOCK_NUM_SIZE = 5
  LOCKTIME_THRESHOLD = 4
  SEQUENCE_FINAL = 63
  SEQUENCE_LOCKTIME_DISABLE_FLAG = 32
  SEQUENCE_LOCKTIME_TYPE_FLAG = 8
  SEQUENCE_LOCKTIME_MASK = 3
  VerifyEcdsa <- MCVerifyEcdsa
  VerifySchnorr <- MCVerifySchnorr
  ValidDer <- MCValidDer
  LowS <- MCLowS
  Digest <- MCDigest
INVARIANTS
  TruncationAtItsStep
CHECK_DEADLOCK FALSE
