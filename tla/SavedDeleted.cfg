\* The Default Profile and one more, which is backed up; nothing fails.
SPECIFICATION Spec
CONSTANTS
  Profiles = {p1, p2}
  BackedUp = {p2}
  Default = p1
  None = None
  MaxFaults = 0
PROPERTY SavedNeverDeleted
CHECK_DEADLOCK FALSE
