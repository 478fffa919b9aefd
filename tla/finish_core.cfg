CONSTANTS
  Invocations = {i1, i2}
  Queries = {q1, q2}
  RunIds = {r1}
  NoOne = NoOne
  N = 3
  Commands <- ThreeCommands
  Tools <- ThreeCommands
  Skippable <- ThreeSkippable
  Exclusive = TRUE
SPECIFICATION Spec
SYMMETRY Symmetry
INVARIANTS
  TypeOK
  AnswersStand
  AllowedMeansChecked
  ReturnedIsPersisted
  CommandsAreOwned
  DuplicateIsNamed
  EndedHoldsNothing
PROPERTIES
  TerminalIsFinal
  KeepsPromise
