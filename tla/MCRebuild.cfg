CONSTANTS
  Inputs <- MCInputs
  Signals <- MCSignals
SPECIFICATION FairSpec
INVARIANTS
  TypeOK
  StableInput
  NoOrphan
  CleanSuccess
PROPERTIES
  Terminates
