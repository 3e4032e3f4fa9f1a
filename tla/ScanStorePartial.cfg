\* A partial record of an interrupted host, then a complete host, then a resume.
CONSTANTS
  Hosts = {h1, h2}
  Widths = {1, 2}
  OpenOnly = TRUE
  ReuseCheckpoint = FALSE
  PowerLoss = FALSE
  MaxCrashes = 2
  MaxInterruptions = 2
SYMMETRY HostSymmetry
SPECIFICATION Spec
INVARIANT OneRecordPerHost
