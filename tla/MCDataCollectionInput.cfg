SPECIFICATION Spec
CONSTANTS
  TotalChannels = 3
  BufferLength = 2
  SamplesPerFile = 5
  InputLengths = {0, 1, 2, 3, 10, 13}
  MaxBatch = 3
INVARIANT EverySampleSent
