SPECIFICATION FilterSpec
CONSTANTS
  TapCounts = {2}
  Half = 16
  StepSize = 2
  Epsilon = 1
  Alpha = 1
  Gamma = 1
  MinStep = 0
  MaxStep = 3
  Inputs <- MCInputs
INVARIANTS
  FilterTypeOK
  PowerOfLine
PROPERTIES
  ErrorIsResidual
  UpdateImproves
