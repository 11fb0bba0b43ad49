CONSTANTS
  Node <- MCNode
  NULL <- MCNULL
  Doc <- MCDoc
  Asts <- MCAsts
SPECIFICATION FairSpec
INVARIANTS
  TypeOK
  Nesting
  DepthIsNesting
  DocumentFaithful
  DirectivesKept
PROPERTIES
  WellFormed
  Completed
