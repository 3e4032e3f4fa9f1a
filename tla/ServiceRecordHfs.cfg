\* The same peers: one of them sends a page with a title and nothing else.
CONSTANTS
  MaxBody = 12
  HeadRoom = 8
  Inflates <- MCInflates
  Peers <- MCPeers
  Enabled <- MCEnabled
  Weights <- MCWeights
  ScoreLimit = 8
SPECIFICATION Spec
INVARIANT HfsIsCorrelated
