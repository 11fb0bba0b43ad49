CONSTANT Texts <- MCTexts
SPECIFICATION Spec
INVARIANTS
  WellFormed
  RoundTrip
  Determined
