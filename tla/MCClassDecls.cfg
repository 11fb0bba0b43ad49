CONSTANTS
  A = A
  B = B
  Name <- MCName
  MaxDecls = 4
  MaxScopes = 4
SYMMETRY Symmetry
SPECIFICATION Spec
INVARIANTS
  TypeOK
  DefinitionsKept
  UsesResolve
  ForwardLinks
PROPERTIES
  DefinitionsStay
