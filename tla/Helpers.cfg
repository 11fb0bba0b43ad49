CONSTANTS
  Rule = {r1, r2}
  Element = {"SgFortranDo", "SgIfStmt"}
  MaxLines = 4
  MaxChars = 6
  MaxDirectives = 3
  MaxItems = 6
  MaxNames = 6
SPECIFICATION Spec
INVARIANTS
  Joined
  FirstDirOnly
  RulesApplied
  BlocksNested
  ContainsRestored
  ProtectedInPlace
