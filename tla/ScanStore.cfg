\* Three hosts, records of one or two cells, crashes of the process or of the machine, runs
\* with and without derived outputs.
CONSTANTS
  Hosts = {h1, h2, h3}
  Widths = {1, 2}
  OpenOnly = TRUE
  ReuseCheckpoint = FALSE
  PowerLoss = TRUE
  MaxCrashes = 2
  MaxInterruptions = 1
SPECIFICATION FairSpec
INVARIANTS
  TypeOK
  CompletedHaveRecords
  OutputParses
  NoCompletedTwice
  DerivedAgrees
PROPERTIES
  KeepsLedger
  EventuallyAllCompleted
