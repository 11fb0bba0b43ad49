CONSTANTS
  Last = 7
  Node <- MCNode
  Document <- MCDocument
  Docs <- MCDocs
SPECIFICATION FairSpec
INVARIANTS
  Balanced
  NamesResolved
  NothingLost
  Verdict
PROPERTIES
  Terminates
