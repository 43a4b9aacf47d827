\* The configuration of the system and every other key that is cached.
SPECIFICATION CachesSpec
CONSTANTS
  Readers = {"r1"}
  Admins = {"a1", "a2"}
  None = None
  Attempts = 3
  FaultKinds = {"redis", "database", "crash"}
  MaxFaults = 1
  Processes = {"p1", "p2"}
  Operations = {"o1", "o2"}
  MaxChanges = 2
  Pages = {1}
  CacheFaults = {"redis", "database"}
  MaxCacheFaults = 1
INVARIANTS ConfigNeverStale FreshUnlessRaced
PROPERTIES ViewsCatchUp
\* A configuration that is not read, or a cache nobody asks, may rest.
CHECK_DEADLOCK FALSE
