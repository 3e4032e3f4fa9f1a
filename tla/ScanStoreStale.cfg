\* A fresh scan that names the checkpoint of an earlier one, a crash, and a resume.
CONSTANTS
  Hosts = {h1, h2}
  Widths = {1, 2}
  OpenOnly = TRUE
  ReuseCheckpoint = TRUE
  PowerLoss = FALSE
  MaxCrashes = 2
  MaxInterruptions = 2
SYMMETRY HostSymmetry
SPECIFICATION Spec
INVARIANT OutputParses
