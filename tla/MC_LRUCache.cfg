CONSTANTS
  Keys = {k1, k2, k3}
  max_cache_size = 2
  MaxMade = 6
SPECIFICATION Spec
INVARIANTS
  TypeOK
  ListMatchesMap
PROPERTIES
  ImplementsLRU
CHECK_DEADLOCK FALSE
