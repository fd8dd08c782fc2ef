\* A script and an event that is the host's (a deletion) or the owner's; two syncs.
\* With streams, outbox and calls limited to one, every limit is reached.
SPECIFICATION FairSpec
CONSTANTS
  Scripts = {1}
  HostEvents = {2}
  OwnerEvents = {2}
  Deletions = {2}
  Syncs = {s1, s2}
  RecordLimit = 1
  Batch = 1
  Unknown = Unknown
  MaxClears = 1
  MaxFailures = 1
  MaxCutoff = 1
INVARIANTS TypeOK NothingIsLost ClearedStaysCleared StreamsStayShort
PROPERTIES EventsArrive
CHECK_DEADLOCK FALSE
