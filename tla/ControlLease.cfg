\* Two profiles on two hosts, an owner and an agent lane each, four calls.
SPECIFICATION MCSpec
CONSTANTS
  h1 = h1  h2 = h2
  p1 = p1  p2 = p2
  Hosts = {h1, h2}
  Profiles = {p1, p2}
  AgentLanes = {agent}
  OwnerLane = owner
  HostOf <- MCHostOf
  Calls <- MCCalls
  None = None
INVARIANTS TypeOK OneDriverPerLane NobodyWaitsForAFreeLane EveryLeaseCanBeRevoked
PROPERTIES OnlyNewcomersOvertake EveryWaitEnds ImplementsLaneControl
CHECK_DEADLOCK FALSE
