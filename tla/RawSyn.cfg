\* Two ports of different kinds, one retry, a table that is full with one probe, send and
\* receive failures, two packets of other traffic.
CONSTANTS
  NumPorts = 2
  Targets <- TwoPorts
  Retries = 1
  TableLimit = 1
  Faults = TRUE
  MaxTraffic = 2
SPECIFICATION FairSpec
INVARIANTS
  TypeOK
  AnswerStillCounts
  CompleteIsEarned
PROPERTY KeepsContract
