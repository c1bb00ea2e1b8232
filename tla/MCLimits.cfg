SPECIFICATION FairSpec
CONSTANTS
  EvalInputs <- ChargedInputs
  MAX_SCRIPT_SIZE = 6
  MAX_SCRIPT_ELEMENT_SIZE = 3
  MAX_OPS_PER_SCRIPT = 3
  MAX_STACK_SIZE = 8
  MAX_PUBKEYS_PER_MULTISIG = 2
  MAX_NUM_SIZE = 4
  MAX_LOCK_NUM_SIZE = 5
  LOCKTIME_THRESHOLD = 4
  SEQUENCE_FINAL = 63
  SEQUENCE_LOCKTIME_DISABLE_FLAG = 32
  SEQUENCE_LOCKTIME_TYPE_FLAG = 8
  SEQUENCE_LOCKTIME_MASK = 3
  VerifyEcdsa <- MCVerifyEcdsa
  VerifySchnorr <- MCVerifySchnorr
  ValidDer <- MCValidDer
  LowS <- MCLowS
  Digest <- MCDigest
INVARIANTS
  OpsCharged
  MultisigIsMatching
  NullFailLeavesNothing
  DetailTellsOutcome
PROPERTIES
  EvalEnds
CHECK_DEADLOCK FALSE
