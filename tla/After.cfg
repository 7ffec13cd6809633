CONSTANTS
  Delays <- MCDelays
  DTimes = {0, 1, 2}
  Kept = {2}
  Huge = 99
  MaxTime = 3
  MaxJobs = 5
SPECIFICATION FairSpec
INVARIANTS TypeOK HeapOK NextIsLeast
PROPERTIES ImplementsAgenda JobRuns
