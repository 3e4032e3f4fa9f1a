\* Responses with pages of up to fourteen pieces, cut off anywhere; a body limit and a read
\* limit that the longer ones exceed; a score that wraps at 8.
CONSTANTS
  MaxBody = 12
  HeadRoom = 8
  Inflates <- MCInflates
  Peers <- MCPeers
  Enabled <- MCEnabled
  Weights <- MCWeights
  ScoreLimit = 8
SPECIFICATION Spec
INVARIANTS
  PageIsSeen
  ScoredOnEvidence
PROPERTY HeadStays
