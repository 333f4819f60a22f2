\* Two banks, each with a critical and a non-critical record, so that either line
\* moves while the other is high; the SSU is reconfigured at any time, but not
\* asked for an error state.
SPECIFICATION Spec
CONSTANTS
  b0 = b0
  b1 = b1
  Banks = {b0, b1}
  RecordCount = 2
  Critical = {0}
  NonCritical = {1}
  FmuEnforceKey = TRUE
  DefaultCtlr <- MCAllCtlr
  CtlrValues <- MCCtlrValues
  StatusValues <- MCStatusValues
  SsuEnforceKey = TRUE
  SysCtrlValues = {"SAFE"}
  ImpdefValues <- MCImpdefValues
  ErrStatusValues <- MCErrStatusValues
SYMMETRY MCBankSymmetry
INVARIANTS FmuLinesExact ErrorHasRecord
PROPERTIES OneKeyOneWrite FaultReachesSsu ErrorIsHeld
