\* A --tls-timeout one unit beyond what the budget allows for; responses of up to five
\* units of data, in reads of up to two.
CONSTANTS
  TlsTimeout = 8
  HttpTimeout = 1
  BodyTimeout = 2
  Slack = 2
  MaxBody = 3
  HeadRoom = 2
  IconLimit = 1
  Chunk = 2
  Heads <- MCHeads
SPECIFICATION FairSpec
INVARIANTS
  TypeOK
  TlsEvidenceKept
  TrickleIsBounded
  GuardOnlyCutsIcons
PROPERTIES
  ArrivedIsKept
  ProbeReturns
