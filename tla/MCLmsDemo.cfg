SPECIFICATION Spec
CONSTANTS
  Scale = 10
  AlphaLeaky = 4
  MinusAlphaLeaky = 6
  Bound = 9
  TapCounts = {1, 2}
  Half = 8
  StepSize = 2
  Epsilon = 1
  Alpha = 1
  Gamma = 1
  MinStep = 0
  MaxStep = 3
  Inputs <- T
  Values <- MCValues
  MaxLength = 3
  LoadedLengths <- MCLengths
  Loaded = Loaded
INVARIANTS
  TypeOK
  AverageBounded
  FilesAddUp
  EndsInBounds
CHECK_DEADLOCK FALSE
