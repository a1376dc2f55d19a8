SPECIFICATION Spec
CONSTANTS
  Executions = 2
  Steps = 2
  ExpectedStatus = "succeeded"
  StepOutputs = TRUE
  StepMetadata = FALSE
  StepOutcomes <- MCStepOutcomes
  MaxFaults = 1
  None = None
INVARIANTS
  TypeOK
  FreshEvidence
  SuccessIsBacked
  StepLogKept
PROPERTIES
  LastStateTold
