CONSTANTS
  MaxKids = 6
  Blank <- MCBlank
  Docs <- MCDocs
SPECIFICATION Spec
INVARIANTS
  BetweenStatements
  LeadingText
  OrderKept
