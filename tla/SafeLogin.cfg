\* Two sessions of two ticks, at most four in total; two exits at a time.
SPECIFICATION FairSpec
CONSTANTS
  Sessions = {s1, s2}
  Exits = {e1, e2}
  Panels = {b1, b2}
  Lease = 2
  MaxExtension = 2
  MaxTotal = 4
  MaxRestarts = 1
  None = None
INVARIANTS TypeOK LiveSessionsAreTimed SoundUnlessTransitionsOverlap TransitionsAreOnRecord
PROPERTIES ExpiryIsNeverEarly SessionsEnd
CHECK_DEADLOCK FALSE
