SPECIFICATION Spec
CONSTANTS
  EvalInputs <- MachineInputs
  MAX_SCRIPT_SIZE = 10000
  MAX_SCRIPT_ELEMENT_SIZE = 520
  MAX_OPS_PER_SCRIPT = 201
  MAX_STACK_SIZE = 8
  MAX_PUBKEYS_PER_MULTISIG = 20
  MAX_NUM_SIZE = 2
  MAX_LOCK_NUM_SIZE = 2
  LOCKTIME_THRESHOLD = 4
  SEQUENCE_FINAL = 63
  SEQUENCE_LOCKTIME_DISABLE_FLAG = 32
  SEQUENCE_LOCKTIME_TYPE_FLAG = 8
  SEQUENCE_LOCKTIME_MASK = 3
  VerifyEcdsa <- MCVerifyEcdsa
  VerifySchnorr <- MCVerifySchnorr
  ValidDer <- MCValidDer
  LowS <- MCLowS
  Digest <- MCDigest
INVARIANTS
  TypeOK
  NestingFollowsScript
  AcceptedBalanced
  ExecutedInTakenBranches
  OneStepPerOp
  DeltasReplay
  StacksBounded
  RearrangingAgrees
  ArithmeticExact
  LockIsGate
  ChecksigIsSigned
  SeparatorIsLastExecuted
  BudgetSpent
  TapscriptSuccessIsSigned
PROPERTIES
  SkippedIsInert
CHECK_DEADLOCK FALSE
