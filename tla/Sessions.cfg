SPECIFICATION Spec
CONSTANTS
  Calls = {c1, c2, c3, c4}
  Targets = {capability, field}
  Kept = {field}
  Values = {v1, v2}
  BadValue = bad
  NoCall = none
  Revisions = {0, 1, 2}
  MaxBatch = 2
SYMMETRY Symmetry
INVARIANTS
  TypeOK
  NoLostAnswers
  OneWinnerPerRevision
  LoserWasOvertaken
  OneAnswerPerQuestion
  AnswersMeetTheirQuestion
  OnlySuccessIsStored
PROPERTIES
  ImplementsRegister
