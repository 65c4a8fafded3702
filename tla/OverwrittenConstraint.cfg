SPECIFICATION Spec
CONSTANTS
  Expressions <- MCExpressions
  Fields = {"kind", "size", "token"}
  Literals = {"x", "y", "z"}
  Refs = {"ref"}
  ValidRefs = {"ref"}
  None = None
  Order <- MCOrder
  GapWeight = 350
  DepWeight = 150
  TermsCost = 42
  MaxQuestions = 1
  Ids = {"a", "b"}
  Catalogs <- TwoCapabilities
  Static = FALSE
  Inferences <- MCInferences
  AutoSelect = FALSE
  Contexts <- FewContexts
  Forced = {None}
  TextAnswers = {"plain", "size"}
  Assigns <- MCAssigns
  Wanted <- MCWanted
  MaxMistakes = 0
  MaxChanges = 0
  MaxRestarts = 0
  MaxRevision = 4
INVARIANT
  ConstraintsAreMet
