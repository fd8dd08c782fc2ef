\* One profile; an owner call waits while its profile is revoked.
SPECIFICATION FairSpec
CONSTANTS
  h1 = h1  h2 = h2
  p1 = p1  p2 = p2
  Hosts = {h1}
  Profiles = {p1}
  AgentLanes = {agent}
  OwnerLane = owner
  HostOf <- MCHostOf
  Calls <- MCCalls
  None = None
PROPERTY RevokeEndsWaiting
CHECK_DEADLOCK FALSE
