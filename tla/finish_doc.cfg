CONSTANTS
  Invocations = {i1}
  Queries = {q1}
  RunIds = {r1}
  NoOne = NoOne
  N = 3
  Commands <- ThreeCommands
  Tools <- ThreeCommands
  Skippable <- ThreeSkippable
  Exclusive = TRUE
SPECIFICATION Spec
PROPERTY CompletedStepsPreserved
