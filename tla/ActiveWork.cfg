\* One profile: a stop of an old instance meets the new one.
SPECIFICATION FairSpec
CONSTANTS
  Profiles = {p1, p2}
  Instances = {i1, i2}
  Scripts = {s1}
  Pages = {n1}
  Panels = {v1}
  AwakeLimit = 1
  CrashLimit = 2
  MaxDisturbances = 0
  None = None
PROPERTY ActiveWorkPreventsRetirement
CHECK_DEADLOCK FALSE
