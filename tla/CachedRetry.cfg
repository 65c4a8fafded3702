SPECIFICATION Spec
CONSTANTS
  c1 = c1
  c2 = c2
  c3 = c3
  c4 = c4
  c5 = c5
  k1 = k1
  Calls = {c1, c2, c3, c4, c5}
  Keys = {k1}
  Key <- TwoCached
  NoCache = nocache
  Nothing = nothing
  Ambiguous = {c5}
  Retries = 1
  MaxLogical <- Logical
  MaxAttempts <- Network
INVARIANT
  CachedRetriesAreUsed
