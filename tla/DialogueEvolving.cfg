SPECIFICATION Spec
CONSTANTS
  Expressions <- MCExpressions
  Fields = {"kind", "size", "token"}
  Literals = {"x", "y", "z"}
  Refs = {"ref"}
  ValidRefs = {"ref"}
  None = None
  Order <- MCOrder
  GapWeight = 350
  DepWeight = 150
  TermsCost = 42
  MaxQuestions = 2
  Ids = {"a", "b"}
  Catalogs <- Evolving
  Static = FALSE
  Inferences <- MCInferences
  AutoSelect = TRUE
  Contexts <- OneContext
  Forced = {None}
  TextAnswers = {"plain", "size"}
  Assigns <- MCAssigns
  Wanted <- MCWanted
  MaxMistakes = 1
  MaxChanges = 1
  MaxRestarts = 1
  MaxRevision = 2
INVARIANTS
  ReadyIsDispatchable
  ReadyHoldsLastAnswer
PROPERTIES
  KnownInputsStay
