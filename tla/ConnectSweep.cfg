\* Two hosts of two ports with windows of two, one retry, and fewer sockets and tokens
\* than futures.
CONSTANTS
  Hosts <- MCHosts
  NumPorts = 2
  Targets <- TwoHosts
  Window = 2
  Sockets = 2
  Burst = 2
  Retries = 1
SPECIFICATION FairSpec
INVARIANTS
  TypeOK
  BudgetsConserved
  NothingThrownAway
  CompleteIsEarned
PROPERTY KeepsContract
