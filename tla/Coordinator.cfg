\* Three targets in two parts, two fresh scans; a kill, a failing worker, two interruptions.
CONSTANTS
  h1 = h1  h2 = h2  h3 = h3
  Targets <- ThreeTargets
  Processes = 2
  OpenOnly = TRUE
  Finds <- SomeOpen
  MaxScans = 2
  MaxKills = 1
  MaxFaults = 1
  MaxInterruptions = 2
SPECIFICATION FairSpec
INVARIANTS
  TypeOK
  CompleteMeansCovered
  NoResultLost
PROPERTIES
  KeepsLedger
  EventuallyComplete
