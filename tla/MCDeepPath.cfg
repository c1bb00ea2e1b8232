SPECIFICATION FairVerifySpec
CONSTANTS
  EvalInputs <- NoInputs
  Spends <- DeepSpends
  FlagSets <- AllFlags
  MaxVerifications = 2
  MAX_MERKLE_DEPTH = 2
  MAX_SCRIPT_SIZE = 10000
  MAX_SCRIPT_ELEMENT_SIZE = 66
  MAX_OPS_PER_SCRIPT = 201
  MAX_STACK_SIZE = 1000
  MAX_PUBKEYS_PER_MULTISIG = 20
  MAX_NUM_SIZE = 4
  MAX_LOCK_NUM_SIZE = 5
  LOCKTIME_THRESHOLD = 4
  SEQUENCE_FINAL = 63
  SEQUENCE_LOCKTIME_DISABLE_FLAG = 32
  SEQUENCE_LOCKTIME_TYPE_FLAG = 8
  SEQUENCE_LOCKTIME_MASK = 3
  VerifyEcdsa <- MCVerifyEcdsa
  VerifySchnorr <- MCVerifySchnorr
  VerifyKeyPath <- MCVerifyKeyPath
  TaggedHash <- Tagged
  taproot_tweak_pubkey <- TweakPubkey
  Trees <- AllTrees
  RADIX = 256
  SHORT = 2
  INT = 4
  LONG = 8
  ValidDer <- MCAny
  LowS <- MCAny
  Digest <- MCDigest
PROPERTIES
  ReturnsTrace
CHECK_DEADLOCK FALSE
