SPECIFICATION WireSpec
CONSTANTS
  RADIX = 12
  SHORT = 1
  INT = 2
  LONG = 3
  HASH_SIZE = 1
  SEQUENCE = 4
  INTEGER = 2
  MAX_DER_SIZE = 11
  SECP256K1_ORDER = 143
  Written <- AllWritten
  EditBytes = {0, 1, 2, 6, 9, 10, 11}
  MaxEdits = 2
INVARIANTS
  TxRoundTrip
  DerIsCanonical
CHECK_DEADLOCK FALSE
