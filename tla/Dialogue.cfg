SPECIFICATION Spec
CONSTANTS
  Expressions <- MCExpressions
  Fields = {"kind", "size", "token"}
  Literals = {"x", "y", "z"}
  Refs = {"ref", "badref"}
  ValidRefs = {"ref"}
  None = None
  Order <- MCOrder
  GapWeight = 350
  DepWeight = 150
  TermsCost = 42
  MaxQuestions = 1
  Ids = {"a", "b"}
  Catalogs <- TwoCapabilities
  Static = TRUE
  Inferences = {}
  AutoSelect = FALSE
  Contexts <- MCContexts
  Forced = {None, "a", "b"}
  TextAnswers = {"plain", "size"}
  Assigns <- MCAssigns
  Wanted <- MCWanted
  MaxMistakes = 2
  MaxChanges = 0
  MaxRestarts = 1
  MaxRevision = 10
INVARIANTS
  TypeOK
  BlockedIsAskable
  RoundsAreBounded
  VerdictsAreFinal
  ForcedCapabilityIsSelected
