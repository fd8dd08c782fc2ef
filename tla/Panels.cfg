\* Two panels, of which one opens transports, two of them.
SPECIFICATION Spec
CONSTANTS
  Panels = {p1, p2}
  Transports = {t1, t2}
  Window = 1
  MaxIdlers = 1
  MaxReleases = 1
  MaxVisible = 1
  Streamers = {p1}
  None = None
SYMMETRY Symmetry
INVARIANTS TypeOK OneController WindowsAreTimed
PROPERTIES ReclaimIsKept LateReturnWatches
CHECK_DEADLOCK FALSE
