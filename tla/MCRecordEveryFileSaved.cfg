SPECIFICATION Spec
CONSTANTS
  SampleRate = 2
  SamplesPerFile = 8
  MaxBatch = 1
  MaxSamples = 20
INVARIANT EveryFileSaved
