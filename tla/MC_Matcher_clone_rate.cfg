CONSTANTS
  p1 = p1
  p2 = p2
  t1 = t1
  a = a
  b = b
  Wild = Wild
  NullTag = NullTag
  Ports = {p1, p2}
  Tags = {t1}
  Values = {a, b}
  TupleLen = 1
  Keys <- MCKeys
  ActionLists <- MCActionLists
  Hash <- MCHash
  MaxRules = 3
  Precision = 6
  MaxMatched = 1
SPECIFICATION Spec
INVARIANT
  CloneKeepsSamplingRate
CHECK_DEADLOCK FALSE
