CONSTANTS
  Inputs <- MCInputs
  Signals <- MCSignals
SPECIFICATION FairSpec
PROPERTIES
  NoFilenameReported
