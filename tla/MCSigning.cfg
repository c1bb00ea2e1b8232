SPECIFICATION SigSpec
CONSTANTS
  Originals <- ThreeScenes
  Amended <- OneOrTwo
  HashTypes = {0, 1, 2, 3, 4, 129, 130, 131}
INVARIANTS
  SignsWhatItNames
  CachedIsFresh
CHECK_DEADLOCK FALSE
