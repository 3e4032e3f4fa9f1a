\* Two hosts, one of them with three ports; two discovery and two protocol workers, one
\* fingerprint worker; two panics, in one stage or in two; queues of one place; disk
\* errors; any checkpoint to start from.
CONSTANTS
  h1 = h1  h2 = h2
  d1 = d1  d2 = d2  p1 = p1  p2 = p2  f1 = f1
  Targets <- Pair
  SelectedPorts <- OnePort
  KnownPorts <- KnownOfFirst
  QueueDepth = 1
  DiscoveryWorkers = {d1, d2}
  ProbeWorkers = {p1, p2}
  FingerprintWorkers = {f1}
  MaxPanics = 2
  DiskFaults = TRUE
SPECIFICATION FairSpec
INVARIANTS
  TypeOK
  EnvelopeFirst
  JobsConserved
  RecordsAreFaithful
  AcceptedHostsAreRecorded
PROPERTIES
  EveryTaskEnds
  KeepsContract
