CONSTANTS
  Ports = {1, 2}
  Wild = 3
  Tags = {t1}
  NullTag = NullTag
  Values = {D, R}
  TupleLen = 1
  Keys <- MCKeys
  ActionLists <- MCActionLists
  Hash <- MCHash
  MaxRules = 2
  Precision = 6
  MaxMatched = 3
  D = D
  R = R
  t1 = t1
  q1 = q1
  q2 = q2
  o1 = o1
  DeviceIP = D
  IPs = {D, R}
  UDP = UDP
  TCP = TCP
  OtherProto = OtherProto
  L4Ports = {1}
  MaxL4Port = 2
  Flows <- MCFlows
  Messages <- MCMessages
  Handlers = {q1, q2}
  Observers = {o1}
  HasRepliesHandler = TRUE
  DieOnFailToMatch = FALSE
  MaxTTL = 2
  MaxPackets = 3
  NoMsg = NoMsg
INIT DeviceInit
NEXT DeviceNext
INVARIANT ForwardOnlyToConnectedPorts
CHECK_DEADLOCK FALSE
