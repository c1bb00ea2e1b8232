SPECIFICATION WalksSpec
CONSTANTS
  Bytes = {0, 1, 2, 76, 77, 78, 118}
  Signatures <- MCSignatures
  MaxLen = 6
INVARIANTS
  ParseIsFaithful
  BoundariesAgree
  DeletionIsByOperation
CHECK_DEADLOCK FALSE
