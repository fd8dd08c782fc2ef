\* Two calls queue for the one place; three launches, one disturbance.
SPECIFICATION MCSpec
CONSTANTS
  p1 = p1  p2 = p2  p3 = p3  s1 = s1  n1 = n1  n2 = n2
  Profiles = {p1, p2, p3}
  Instances = {i1, i2, i3}
  Scripts = {s1}
  Pages = {n1, n2}
  Panels = {}
  AwakeLimit = 1
  CrashLimit = 2
  MaxDisturbances = 1
  None = None
INVARIANT AtMostOneOver
PROPERTY EveryCallEnds
CHECK_DEADLOCK FALSE
