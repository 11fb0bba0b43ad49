CONSTANTS
  Inputs <- MCInputs
  Signals <- MCSignals
SPECIFICATION Spec
INVARIANTS
  FailureReported
