CONSTANTS
  Refs <- MCRefs
  Fields <- MCFields
  Replies <- MCReplies
  Rounds <- MCRounds
  Setups <- MCSetups
  Datasets <- MCDatasets
  MaxCandidates = 2
  MaxLost = 1
  None = "none"

SPECIFICATION Spec

INVARIANTS
  TypeOK
  EventsTellTheOutcome
  ReproducibleIsEarned
  ReportIsEarned
