\* Done and the closing panel end the same session.
SPECIFICATION ExitsOnly
CONSTANTS
  Sessions = {s1, s2}
  Exits = {e1, e2}
  Panels = {b1}
  Lease = 2
  MaxExtension = 1
  MaxTotal = 3
  MaxRestarts = 0
  None = None
INVARIANT EffectsAreReleased
CHECK_DEADLOCK FALSE
