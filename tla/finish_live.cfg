CONSTANTS
  Invocations = {i1, i2}
  Queries = {q1}
  RunIds = {r1}
  NoOne = NoOne
  N = 2
  Commands <- ThreeCommands
  Tools <- ThreeCommands
  Skippable <- TwoSkippable
  Exclusive = FALSE
SPECIFICATION FairSpec
PROPERTIES
  EveryCallEnds
