CONSTANTS
  MaxSpecs = 3
  NULL = NULL
SPECIFICATION Spec
INVARIANTS
  SpecifiersRestored
