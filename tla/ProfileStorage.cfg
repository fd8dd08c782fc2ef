\* The Default Profile and one more, which is backed up; one fault.
SPECIFICATION Spec
CONSTANTS
  Profiles = {p1, p2}
  BackedUp = {p2}
  Default = p1
  None = None
  MaxFaults = 1
INVARIANTS TypeOK RestoreKeepsACopy CleanupSparesSignIns SuccessorsExist
CHECK_DEADLOCK FALSE
