\* Two profiles compete for one awake instance; three launches, one disturbance.
SPECIFICATION Spec
CONSTANTS
  Profiles = {p1, p2}
  Instances = {i1, i2, i3}
  Scripts = {s1}
  Pages = {}
  Panels = {v1}
  AwakeLimit = 1
  CrashLimit = 2
  MaxDisturbances = 1
  None = None
INVARIANTS TypeOK LeasesBalanced PanelsStayPinned
PROPERTY ImplementsLaunchLock
SYMMETRY Symmetry
CHECK_DEADLOCK FALSE
