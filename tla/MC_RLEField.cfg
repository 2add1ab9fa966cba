CONSTANTS
  Width = 2
  MaxLen = 5
SPECIFICATION Spec
INVARIANTS
  TypeOK
  RestoreRoundTrip
  AtMatchesRestore
PROPERTY
  IterationYieldsAll
CHECK_DEADLOCK FALSE
